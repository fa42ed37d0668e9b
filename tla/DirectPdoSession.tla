-------------------------- MODULE DirectPdoSession --------------------------
(***************************************************************************)
(* The session of the direct-PDO driver and the owner that serializes its  *)
(* actions: direct-pdo/src/nativeldac_direct_pdo_contract.c and            *)
(* nativeldac_direct_pdo_dispatch_contract.c.  The dispatcher calls every  *)
(* operator under its spin lock.                                           *)
(*                                                                         *)
(* Both records are one here.  WorkerOwned: a worker is queued or runs; an *)
(* operator that raises it has asked for the work item to be queued.       *)
(* Generation is an unbounded natural: it wraps to 1 after 2^32 losses.    *)
(***************************************************************************)
EXTENDS Naturals

Intents == {"Stopped", "Acquired", "Running"}
Actions == {"None", "Open", "Start", "Suspend", "Close", "CancelAndClose"}

DispatchOwner ==
    [KsIntent : Intents,
     TransportState : {"Offline", "Closed", "Open", "Streaming", "Faulted"},
     PendingAction : Actions, Generation : Nat, PnpStarted : BOOLEAN,
     RecoveryRequired : BOOLEAN, ActiveAction : Actions, ActiveGeneration : Nat,
     WorkerOwned : BOOLEAN, StopRequested : BOOLEAN]

InitialOwner ==
    [KsIntent |-> "Stopped", TransportState |-> "Offline", PendingAction |-> "None",
     Generation |-> 0, PnpStarted |-> FALSE, RecoveryRequired |-> FALSE,
     ActiveAction |-> "None", ActiveGeneration |-> 0, WorkerOwned |-> FALSE,
     StopRequested |-> FALSE]

(* The one action that moves the transport toward the intent. *)
NextAction(s) ==
    IF ~s.PnpStarted
    THEN IF s.TransportState = "Offline" THEN "None" ELSE "CancelAndClose"
    ELSE
    CASE s.KsIntent = "Running" /\ s.TransportState = "Closed" -> "Open"
      [] s.KsIntent = "Running" /\ s.TransportState = "Open" -> "Start"
      [] s.KsIntent = "Acquired" /\ s.TransportState = "Closed" -> "Open"
      [] s.KsIntent = "Acquired" /\ s.TransportState = "Streaming" -> "Suspend"
      [] s.KsIntent = "Stopped" /\ s.TransportState = "Streaming" -> "Suspend"
      [] s.KsIntent = "Stopped" /\ s.TransportState = "Open" -> "Close"
      [] OTHER -> "None"

Plan(s) ==
    IF s.PendingAction # "None" \/ s.TransportState = "Faulted" THEN s
    ELSE [s EXCEPT !.PendingAction = NextAction(s)]

(* OwnWorker: an action that was just planned needs a worker. *)
OwnWorker(s, action) == [s EXCEPT !.WorkerOwned = @ \/ action # "None"]

(* Plan answers only an action it has just made pending. *)
PlanAndOwn(s) ==
    OwnWorker(Plan(s), IF s.PendingAction = "None" THEN Plan(s).PendingAction ELSE "None")

OnPnpStart(s) ==
    IF s.WorkerOwned \/ s.ActiveAction # "None" THEN s
    ELSE IF s.PnpStarted THEN [s EXCEPT !.StopRequested = FALSE]
    ELSE PlanAndOwn([s EXCEPT !.StopRequested = FALSE, !.PnpStarted = TRUE,
                              !.KsIntent = "Stopped", !.TransportState = "Closed",
                              !.PendingAction = "None", !.RecoveryRequired = FALSE,
                              !.Generation = @ + 1])

(* While an action is active its worker takes the new one: the stop cancels it. *)
OnPnpStop(s) ==
    LET stopped == [s EXCEPT !.PnpStarted = FALSE, !.KsIntent = "Stopped",
                             !.RecoveryRequired = FALSE, !.StopRequested = TRUE]
    IN  CASE s.TransportState = "Offline" -> [stopped EXCEPT !.PendingAction = "None"]
          [] s.TransportState = "Closed" /\ s.PendingAction = "None" ->
                [stopped EXCEPT !.TransportState = "Offline"]
          [] OTHER ->
                LET cancelled == [stopped EXCEPT !.PendingAction = "CancelAndClose"]
                IN  IF s.ActiveAction # "None" THEN cancelled
                    ELSE OwnWorker(cancelled, "CancelAndClose")

SetKsIntent(s, intent) ==
    IF s.StopRequested THEN s ELSE PlanAndOwn([s EXCEPT !.KsIntent = intent])

\* Mutant: a loss during an action is left to the action to notice.
OnTransportLostIdleOnly(s) ==
    LET lost == [s EXCEPT !.RecoveryRequired = TRUE, !.Generation = @ + 1]
    IN  IF s.StopRequested \/ ~s.PnpStarted \/ s.TransportState = "Offline"
           \/ s.RecoveryRequired \/ s.ActiveAction # "None"
        THEN s
        ELSE IF s.TransportState \in {"Closed", "Faulted"} /\ s.PendingAction = "None"
        THEN [lost EXCEPT !.TransportState = "Faulted"]
        ELSE OwnWorker([lost EXCEPT !.PendingAction = "CancelAndClose"], "CancelAndClose")

(* An action under way is not interrupted: its worker finds CancelAndClose next. *)
OnTransportLost(s) ==
    LET lost == [s EXCEPT !.RecoveryRequired = TRUE, !.Generation = @ + 1]
        cancelled == [lost EXCEPT !.PendingAction = "CancelAndClose"]
    IN  IF s.StopRequested \/ ~s.PnpStarted \/ s.TransportState = "Offline" THEN s
        ELSE IF s.RecoveryRequired
        THEN IF s.ActiveAction # "None" THEN s ELSE OwnWorker(s, s.PendingAction)
        ELSE IF s.TransportState \in {"Closed", "Faulted"} /\ s.PendingAction = "None"
        THEN [lost EXCEPT !.TransportState = "Faulted"]
        ELSE IF s.ActiveAction # "None" THEN cancelled
        ELSE OwnWorker(cancelled, "CancelAndClose")

Retry(s) ==
    IF \/ s.StopRequested \/ s.WorkerOwned \/ s.ActiveAction # "None" \/ ~s.PnpStarted
       \/ s.PendingAction # "None" \/ s.TransportState # "Faulted" \/ s.KsIntent # "Stopped"
    THEN s
    ELSE PlanAndOwn([s EXCEPT !.TransportState = "Closed", !.RecoveryRequired = FALSE,
                              !.Generation = @ + 1])

(* The worker's next action; with none it gives up its ownership. *)
TakeAction(s) ==
    IF ~s.WorkerOwned \/ s.ActiveAction # "None" THEN s
    ELSE IF s.PendingAction = "None" THEN [s EXCEPT !.WorkerOwned = FALSE]
    ELSE [s EXCEPT !.ActiveAction = s.PendingAction, !.ActiveGeneration = s.Generation]

Reached(s, action) ==
    CASE action \in {"Open", "Suspend"} -> "Open"
      [] action = "Start" -> "Streaming"
      [] action = "Close" -> "Closed"
      [] action = "CancelAndClose" -> IF s.PnpStarted THEN "Closed" ELSE "Offline"

(* NldDirectPdoCompleteAction *)
SessionCompletes(s, action, succeeded) ==
    LET done == [s EXCEPT !.PendingAction = "None"]
    IN  IF action # s.PendingAction THEN s
        ELSE IF action = "CancelAndClose" /\ s.RecoveryRequired
        THEN [done EXCEPT !.TransportState = "Faulted"]
        ELSE IF ~succeeded
        THEN [done EXCEPT !.TransportState =
                IF action = "CancelAndClose" /\ ~s.PnpStarted THEN "Offline" ELSE "Faulted"]
        ELSE Plan([done EXCEPT !.TransportState = Reached(s, action)])

\* Mutants: the result counts although the session is to be cancelled; the result of the
\* cancel itself does not count; a result never brings the next action.
CompleteActionAnyway(s, succeeded) ==
    SessionCompletes([s EXCEPT !.ActiveAction = "None", !.ActiveGeneration = 0,
                               !.PendingAction = s.ActiveAction],
                     s.ActiveAction, succeeded)

CompleteActionNever(s, succeeded) ==
    LET idle == [s EXCEPT !.ActiveAction = "None", !.ActiveGeneration = 0]
    IN  IF s.StopRequested /\ s.PendingAction = "CancelAndClose" THEN idle
        ELSE SessionCompletes(idle, s.ActiveAction, succeeded)

(* NldDirectPdoDispatchCompleteAction, which the worker calls with the action and the *)
(* generation it took.  A session that is to be cancelled no longer wants the result. *)
CompleteAction(s, succeeded) ==
    LET idle == [s EXCEPT !.ActiveAction = "None", !.ActiveGeneration = 0]
    IN  IF /\ s.StopRequested \/ s.RecoveryRequired
           /\ s.PendingAction = "CancelAndClose" /\ s.ActiveAction # "CancelAndClose"
        THEN idle
        ELSE SessionCompletes(idle, s.ActiveAction, succeeded)

(* NldDirectPdoIsConsistent and NldDirectPdoDispatchIsConsistent, what the driver's *)
(* own tests assert of either record.                                               *)
OwnerIsConsistent(s) ==
    /\ ~s.PnpStarted =>
          s.TransportState = "Offline" \/ s.PendingAction = "CancelAndClose"
    /\ s.TransportState = "Offline" => ~s.PnpStarted
    /\ s.RecoveryRequired =>
          s.TransportState = "Faulted" \/ s.PendingAction = "CancelAndClose"
    /\ s.ActiveAction = "None" <=> s.ActiveGeneration = 0
    /\ s.ActiveAction # "None" => s.WorkerOwned
    /\ ~s.WorkerOwned => s.PendingAction = "None"
    /\ s.StopRequested => ~s.PnpStarted
=============================================================================
