----------------------------- MODULE AvrcpHandoff -----------------------------
(* The AVRCP owner handoff: the daily host (agent/v1_presence_agent.cpp), a normal *)
(* user's process, asks the elevated handoff host (v1_avrcp_handoff_host.cpp) to   *)
(* put the observer driver under the headset's AVRCP PDO while media streams, and  *)
(* to give the PDO back to Microsoft afterwards.  They share manual-reset events   *)
(* and one state file (v1_avrcp_handoff_ipc.cpp); each wait of the daily host ends  *)
(* after 30 s whatever the other process is doing.                                  *)
(*                                                                                  *)
(* The daily host waits for a restore but only counts the answer, so the wait may   *)
(* end in any state and its event is left out.  Also left out: --once, volume sync  *)
(* (which replaces the handoff), processes that crash, the observer's own traffic.  *)
EXTENDS Naturals, AvrcpHandoffState

CONSTANT
    MaxGeneration  \* bound: connections of the headset

ASSUME BoundAssumption == MaxGeneration \in Nat

VARIABLES
    world,     \* the connection and the media session, as the daily host knows them
    daily,     \* the daily host's thread
    signalled, \* the request and done events that are set
    file,      \* avrcp-handoff-state.json
    host,      \* the handoff host
    pdo,       \* the AVRCP device node and the Driver Store
    answered,  \* history: the generations whose request the host has bound the observer for
    gaveUp     \* history: part of a restore was left undone: the OS refused it, or the host
               \* knew of no INF to delete, since the output of pnputil did not name it

vars == <<world, daily, signalled, file, host, pdo, answered, gaveUp>>

Generations == 0 .. MaxGeneration

(* streaming is MediaSession::Streaming. *)
World == [generation : Generations, present : BOOLEAN, streaming : BOOLEAN]

(* after: what a wait for a restore is followed by.  unready: the control deadline is armed. *)
Daily == [pc : {"idle", "awaitHandoff", "begin", "awaitRestore", "letGo", "exited"},
          after : {"none", "begin", "released", "letGo", "forget"},
          session : BOOLEAN, unready : BOOLEAN, exiting : BOOLEAN,
          ready : Generations, failed : Generations]

Requests == {"handoffRequest", "restoreRequest"}
Events == Requests \cup {"handoffDone"}

File == [state : {"none", "handoff-pending", "observer-active", "restore-pending", "microsoft-held"},
         generation : Generations, error : BOOLEAN]

(* package: published_inf_ of this request's runner; resident: the INF recorded across *)
(* requests; then: who called RestoreMicrosoft.                                           *)
Host == [pc : {"wait", "read", "step", "stage", "bind", "rebind", "write", "signal",
               "examine", "restore", "rescan", "rebound", "answer"},
         handoff : BOOLEAN, generation : Generations, machine : Machine, flags : SUBSET Inputs,
         package : BOOLEAN, resident : BOOLEAN, located : BOOLEAN, error : BOOLEAN,
         then : {"step", "rollback", "answer"}]

(* bound: the service of the device node, which it keeps while absent.  staged: the *)
(* observer package is in the Driver Store.                                          *)
Pdo == [bound : {"Microsoft", "Observer"}, health : {"healthy", "problem", "absent"}, staged : BOOLEAN]

TypeOK ==
    /\ world \in World
    /\ daily \in Daily
    /\ daily.unready => daily.session
    /\ (daily.pc = "awaitRestore") = (daily.after # "none")
    /\ signalled \subseteq Events
    /\ file \in File
    /\ host \in Host
    /\ pdo \in Pdo
    /\ answered \subseteq Generations
    /\ gaveUp \in BOOLEAN

IsMicrosoftBaseline == pdo.bound = "Microsoft" /\ pdo.health = "healthy"
IsObserverBound == pdo.bound = "Observer" /\ pdo.health = "healthy"

Init ==
    /\ world = [generation |-> 0, present |-> FALSE, streaming |-> FALSE]
    /\ daily = [pc |-> "idle", after |-> "none", session |-> FALSE, unready |-> FALSE,
                exiting |-> FALSE, ready |-> 0, failed |-> 0]
    /\ signalled = {}
    /\ file = [state |-> "none", generation |-> 0, error |-> FALSE]
    /\ host = [pc |-> "wait", handoff |-> FALSE, generation |-> 0, machine |-> Fresh, flags |-> {},
               package |-> FALSE, resident |-> FALSE, located |-> FALSE, error |-> FALSE,
               then |-> "step"]
    /\ pdo \in {p \in Pdo : p.bound = "Microsoft" /\ ~p.staged}
    /\ answered = {}
    /\ gaveUp = FALSE

-------------------------------------------------------------------------------
(* The daily host. *)

Idle == daily.pc = "idle"

(* RequestRestore and WaitRestoreDone: the state file is written, then the event set; *)
(* a file that cannot be written leaves the request unposted.                          *)
AskRestore(d, after) ==
    /\ daily' = [d EXCEPT !.pc = "awaitRestore", !.after = after]
    /\ UNCHANGED <<world, host, pdo, answered>>
    /\ \/ /\ file' = [state |-> "restore-pending", generation |-> world.generation, error |-> FALSE]
          /\ signalled' = signalled \cup {"restoreRequest"}
          /\ UNCHANGED gaveUp
       \/ /\ gaveUp' = TRUE
          /\ UNCHANGED <<file, signalled>>

(* RequestHandoff: the done event is reset before the file is written; a write that *)
(* fails is met by the wait's failure.                                              *)
AskHandoff ==
    /\ daily' = [daily EXCEPT !.pc = "awaitHandoff"]
    /\ UNCHANGED <<world, host, pdo, answered, gaveUp>>
    /\ \/ /\ file' = [state |-> "handoff-pending", generation |-> world.generation, error |-> FALSE]
          /\ signalled' = (signalled \ {"handoffDone"}) \cup {"handoffRequest"}
       \/ /\ signalled' = signalled \ {"handoffDone"}
          /\ UNCHANGED file

Elsewhere == UNCHANGED <<signalled, file, host, pdo, answered, gaveUp>>

(* Bound: what happens after the OS has refused a restore is followed only to its end. *)
Followed == ~gaveUp

MediaStarts ==
    /\ Followed /\ Idle /\ world.present /\ ~world.streaming
    /\ world' = [world EXCEPT !.streaming = TRUE]
    /\ UNCHANGED daily /\ Elsewhere

MediaStops ==
    /\ Idle /\ world.streaming
    /\ world' = [world EXCEPT !.streaming = FALSE]
    /\ UNCHANGED daily /\ Elsewhere

Reconciling == Idle /\ world.present

(* Mutant: The lease ends, and the restore is left to somebody else. *)
EndsSessionOnly ==
    /\ Reconciling /\ ~world.streaming /\ daily.session
    /\ daily' = [daily EXCEPT !.session = FALSE, !.unready = FALSE]
    /\ UNCHANGED world /\ Elsewhere

(* Mutant: The control deadline outlives its session. *)
EndsSessionArmed ==
    /\ Reconciling /\ ~world.streaming /\ daily.session
    /\ AskRestore([daily EXCEPT !.session = FALSE], "released")

(* ReconcileAvrcpObserver, once the media session is over: a player that still has a  *)
(* session keeps the controls for a while, by this step's not being taken.  An owner that is ready is *)
(* in use or given back by the end of the call that switched it, so that the branches *)
(* for one that waits unused have nothing to do.                                       *)
EndsSession ==
    /\ Reconciling /\ ~world.streaming /\ daily.session
    /\ AskRestore([daily EXCEPT !.session = FALSE, !.unready = FALSE], "released")

(* A generation that failed stays closed.  The other mark, avrcp_observer_failed_generation, *)
(* is only set with this one.                                                              *)
FailClosed == daily.failed = world.generation

StartsSession ==
    /\ Followed /\ Reconciling /\ world.streaming /\ ~FailClosed /\ ~daily.session
    /\ AskHandoff

(* Mutant: WaitDone that takes any completion. *)
AcceptsAnyAnswer == "handoffDone" \in signalled /\ file.state = "observer-active"

(* WaitDone: the file must answer this very request, without an error. *)
Accepts ==
    /\ "handoffDone" \in signalled
    /\ file = [state |-> "observer-active", generation |-> world.generation, error |-> FALSE]

HandoffAccepted ==
    /\ daily.pc = "awaitHandoff" /\ Accepts
    /\ daily' = [daily EXCEPT !.pc = "begin", !.ready = world.generation]
    /\ UNCHANGED world /\ Elsewhere

(* A timeout, another answer, an unreadable file: this generation is closed and the *)
(* owner given back, after which the activation is attempted all the same.          *)
HandoffRefused ==
    /\ daily.pc = "awaitHandoff"
    /\ AskRestore([daily EXCEPT !.failed = world.generation, !.ready = 0], "begin")

(* RebindEndpointPresenceLease fails after the handoff: the host gives up its loop. *)
RebindFails ==
    /\ daily.pc = "begin" /\ ~daily.session
    /\ daily' = [daily EXCEPT !.pc = "letGo", !.exiting = TRUE]
    /\ UNCHANGED world /\ Elsewhere

(* BeginMediaSession: only the observer's interface can be opened. *)
ActivationAccepted ==
    /\ daily.pc = "begin" /\ IsObserverBound
    /\ daily' = [daily EXCEPT !.pc = "idle", !.session = TRUE, !.unready = TRUE]
    /\ UNCHANGED world /\ Elsewhere

ActivationFails ==
    /\ daily.pc = "begin"
    /\ AskRestore([daily EXCEPT !.failed = world.generation], "released")

(* The poll of an active session: its channel is ready, or too late. *)
Polling == Reconciling /\ ~FailClosed /\ daily.session

ControlReady ==
    /\ Polling /\ daily.unready
    /\ daily' = [daily EXCEPT !.unready = FALSE]
    /\ UNCHANGED world /\ Elsewhere

ControlTimesOut ==
    /\ Polling /\ daily.unready
    /\ AskRestore([daily EXCEPT !.session = FALSE, !.unready = FALSE, !.failed = world.generation],
                  "released")

(* SetSingleGainReady fails between the end of the lease and the restore. *)
GainFails ==
    /\ Polling /\ daily.unready
    /\ daily' = [daily EXCEPT !.session = FALSE, !.unready = FALSE, !.pc = "letGo", !.exiting = TRUE]
    /\ UNCHANGED world /\ Elsewhere

RestoreWaitEnds ==
    /\ daily.pc = "awaitRestore"
    /\ daily' = CASE daily.after = "released" -> [daily EXCEPT !.pc = "idle", !.after = "none", !.ready = 0]
                  [] daily.after = "begin" -> [daily EXCEPT !.pc = "begin", !.after = "none"]
                  [] daily.after = "letGo" -> [daily EXCEPT !.pc = "letGo", !.after = "none"]
                  [] daily.after = "forget" ->
                       [daily EXCEPT !.after = "none", !.ready = 0,
                                     !.failed = IF daily.exiting THEN @ ELSE 0,
                                     !.pc = IF daily.exiting THEN "exited" ELSE "idle"]
    /\ UNCHANGED world /\ Elsewhere

Connects ==
    /\ Followed /\ Idle /\ ~world.present /\ world.generation < MaxGeneration
    /\ world' = [world EXCEPT !.present = TRUE, !.generation = @ + 1]
    /\ UNCHANGED daily /\ Elsewhere

(* An ACL disconnect, or the end of the loop: the lease first, then what is still ready. *)
Leaves(exiting) ==
    /\ Followed /\ Idle
    /\ exiting \/ world.present
    /\ world' = [world EXCEPT !.present = FALSE, !.streaming = FALSE]
    /\ daily' = [daily EXCEPT !.pc = "letGo", !.exiting = exiting]
    /\ Elsewhere

LetsSessionGo ==
    /\ daily.pc = "letGo" /\ daily.session
    /\ AskRestore([daily EXCEPT !.session = FALSE, !.unready = FALSE], "letGo")

LetsReadyGo ==
    /\ daily.pc = "letGo" /\ ~daily.session /\ daily.ready = world.generation
    /\ AskRestore(daily, "forget")

LetsNothingGo ==
    /\ daily.pc = "letGo" /\ ~daily.session /\ daily.ready # world.generation
    /\ daily' = [daily EXCEPT !.ready = 0, !.failed = IF daily.exiting THEN @ ELSE 0,
                              !.pc = IF daily.exiting THEN "exited" ELSE "idle"]
    /\ UNCHANGED world /\ Elsewhere

-------------------------------------------------------------------------------
(* The handoff host. *)

Beyond == UNCHANGED <<world, daily, answered>>

Runs(pc) == host.pc = pc

(* Between requests the host keeps the recorded INF and the instance id. *)
Waiting == [pc |-> "wait", handoff |-> FALSE, generation |-> 0, machine |-> Fresh, flags |-> {},
            package |-> FALSE, resident |-> host.resident, located |-> host.located,
            error |-> FALSE, then |-> "step"]

(* Mutant: The older request first. *)
WakesRestoreFirst(request) ==
    /\ Runs("wait") /\ request \in signalled
    /\ request = "handoffRequest" => "restoreRequest" \notin signalled
    /\ signalled' = signalled \ {request}
    /\ host' = [host EXCEPT !.pc = "read", !.handoff = (request = "handoffRequest")]
    /\ UNCHANGED <<file, pdo, gaveUp>> /\ Beyond

(* WaitForAnyRequest: of two requests WaitForMultipleObjects reports the handoff. *)
Wakes(request) ==
    /\ Runs("wait") /\ request \in signalled
    /\ request = "restoreRequest" => "handoffRequest" \notin signalled
    /\ signalled' = signalled \ {request}
    /\ host' = [host EXCEPT !.pc = "read", !.handoff = (request = "handoffRequest")]
    /\ UNCHANGED <<file, pdo, gaveUp>> /\ Beyond

(* Bound: the state file is unreadable for the handoff host no later than during the *)
(* first connection; its answers may still arrive during the next.                   *)
Unreadable == IF world.generation <= 1 THEN {0} ELSE {}

(* ReadRequestInfo, whose failure leaves generation 0; the PDO is looked for until it *)
(* has been found once.                                                               *)
ReadsRequest ==
    /\ Runs("read")
    /\ \E g \in {file.generation} \cup Unreadable :
          host' = [host EXCEPT !.generation = g, !.flags = {"streaming"},
                     !.located = @ \/ pdo.health # "absent",
                     !.error = ~host.located /\ pdo.health = "absent",
                     !.pc = CASE ~host.located /\ pdo.health = "absent" /\ host.handoff -> "write"
                              [] ~host.located /\ pdo.health = "absent" /\ ~host.handoff -> "answer"
                              [] OTHER -> IF host.handoff THEN "step" ELSE "examine"]
    /\ UNCHANGED <<signalled, file, pdo, gaveUp>> /\ Beyond

(* One turn of RunHandoff's loop: the flags of earlier turns stay set, and             *)
(* media_streaming is never taken back.  The loop ends when nothing changes, which it  *)
(* never does in MicrosoftHeld.                                                        *)
StepsMachine ==
    /\ Runs("step")
    /\ LET t == Step(host.machine, host.flags)
           next == [stage |-> "stage", restore |-> "restore", notify |-> "write",
                    returned |-> "step", degraded |-> "step"]
       IN /\ host' = IF t.action = "none" THEN Waiting
                     ELSE [host EXCEPT !.machine = t.machine, !.pc = next[t.action], !.then = "step"]
          /\ answered' = IF t.action = "notify" THEN answered \cup {host.generation} ELSE answered
    /\ UNCHANGED <<signalled, file, pdo, gaveUp, world, daily>>

Flags(flag) == [host EXCEPT !.pc = "step", !.flags = @ \cup {flag}]

(* StageObserver.  A pnputil that names no published INF clears the recorded one. *)
Stages ==
    /\ Runs("stage")
    /\ UNCHANGED <<signalled, file>> /\ Beyond
    /\ \/ /\ host' = Flags("handoffFailed")
          /\ UNCHANGED <<pdo, gaveUp>>
       \/ /\ host' = [Flags("handoffFailed") EXCEPT !.package = FALSE, !.resident = FALSE]
          /\ gaveUp' = (gaveUp \/ host.resident)
          /\ UNCHANGED pdo
       \/ /\ host' = [host EXCEPT !.pc = "bind", !.package = TRUE, !.resident = TRUE]
          /\ \E bound \in {pdo.bound, IF pdo.health = "absent" THEN pdo.bound ELSE "Observer"} :
                pdo' = [pdo EXCEPT !.staged = TRUE, !.bound = bound]
          /\ UNCHANGED gaveUp

(* WaitForBinding, one restart of the PDO if it fails, and once more. *)
Binds ==
    /\ Runs("bind")
    /\ UNCHANGED <<signalled, file, gaveUp>> /\ Beyond
    /\ \/ /\ IsObserverBound
          /\ host' = Flags("handoffDone")
          /\ UNCHANGED pdo
       \/ /\ ~IsObserverBound
          /\ host' = Flags("handoffFailed")
          /\ UNCHANGED pdo
       \/ /\ ~IsObserverBound
          /\ host' = [host EXCEPT !.pc = "rebind"]
          /\ \E bound \in {pdo.bound, IF pdo.health = "absent" THEN pdo.bound ELSE "Observer"} :
                pdo' = [pdo EXCEPT !.bound = bound]

Rebinds ==
    /\ Runs("rebind")
    /\ host' = Flags(IF IsObserverBound THEN "handoffDone" ELSE "handoffFailed")
    /\ UNCHANGED <<signalled, file, pdo, gaveUp>> /\ Beyond

(* SignalHandoffCompleted: the file, then the event.  A runner one of whose two fails  *)
(* takes the owner back and ends; the answer to a PDO never found ends either way.     *)
Unanswered == IF host.error THEN Waiting
              ELSE [host EXCEPT !.pc = "restore", !.then = "rollback"]

WritesAnswer ==
    /\ Runs("write")
    /\ \/ /\ file' = [state |-> "observer-active", generation |-> host.generation, error |-> host.error]
          /\ host' = [host EXCEPT !.pc = "signal"]
       \/ host' = Unanswered /\ UNCHANGED file
    /\ UNCHANGED <<signalled, pdo, gaveUp>> /\ Beyond

SignalsAnswer ==
    /\ Runs("signal")
    /\ \/ /\ signalled' = signalled \cup {"handoffDone"}
          /\ host' = IF host.error THEN Waiting ELSE [host EXCEPT !.pc = "step"]
       \/ host' = Unanswered /\ UNCHANGED signalled
    /\ UNCHANGED <<file, pdo, gaveUp>> /\ Beyond

(* RunRestore, up to its call of RestoreMicrosoft. *)
Examines ==
    /\ Runs("examine")
    /\ LET known == host.resident \/ (pdo.bound = "Observer" /\ pdo.health # "absent")
       IN host' = CASE IsMicrosoftBaseline -> [host EXCEPT !.pc = "answer"]
                    [] ~IsMicrosoftBaseline /\ known ->
                         [host EXCEPT !.pc = "restore", !.then = "answer", !.package = TRUE]
                    [] OTHER -> [host EXCEPT !.pc = "answer", !.error = TRUE]
    /\ UNCHANGED <<signalled, file, pdo, gaveUp>> /\ Beyond

Restored ==
    CASE host.then = "step" -> [Flags("restoreDone") EXCEPT !.package = FALSE, !.resident = FALSE]
      [] host.then = "rollback" -> [Waiting EXCEPT !.resident = FALSE]
      [] host.then = "answer" -> [host EXCEPT !.pc = "answer", !.resident = FALSE]

NotRestored ==
    CASE host.then = "step" -> Flags("restoreFailed")
      [] host.then = "rollback" -> Waiting
      [] host.then = "answer" -> [host EXCEPT !.pc = "answer", !.error = TRUE]

(* RestoreMicrosoft: nothing to do, nothing known to delete, or the package is deleted, *)
(* a result the code does not look at.                                                  *)
Restores ==
    /\ Runs("restore")
    /\ UNCHANGED <<signalled, file>> /\ Beyond
    /\ \/ /\ IsMicrosoftBaseline
          /\ host' = Restored
          /\ UNCHANGED <<pdo, gaveUp>>
       \/ /\ ~IsMicrosoftBaseline /\ ~host.package /\ ~IsObserverBound
          /\ host' = NotRestored
          /\ gaveUp' = (gaveUp \/ pdo.staged)
          /\ UNCHANGED pdo
       \/ /\ ~IsMicrosoftBaseline /\ (host.package \/ IsObserverBound)
          /\ host' = [host EXCEPT !.pc = "rescan", !.package = TRUE]
          /\ \/ /\ \E bound \in {"Microsoft", IF pdo.health = "absent" THEN "Microsoft" ELSE pdo.bound} :
                      pdo' = [pdo EXCEPT !.staged = FALSE, !.bound = bound]
                /\ UNCHANGED gaveUp
             \/ /\ gaveUp' = TRUE
                /\ UNCHANGED pdo

(* Gone, or Microsoft's already; otherwise the PDO is restarted. *)
Rescans ==
    /\ Runs("rescan")
    /\ UNCHANGED <<signalled, file>> /\ Beyond
    /\ \/ /\ pdo.health = "absent" \/ IsMicrosoftBaseline
          /\ host' = Restored
          /\ UNCHANGED <<pdo, gaveUp>>
       \/ /\ pdo.health # "absent" /\ ~IsMicrosoftBaseline
          /\ host' = NotRestored
          /\ gaveUp' = TRUE
          /\ UNCHANGED pdo
       \/ /\ pdo.health # "absent" /\ ~IsMicrosoftBaseline
          /\ host' = [host EXCEPT !.pc = "rebound"]
          /\ pdo' = [pdo EXCEPT !.bound = IF pdo.staged THEN @ ELSE "Microsoft"]
          /\ UNCHANGED gaveUp

(* WaitForBinding of Microsoft's service. *)
Rebounds ==
    /\ Runs("rebound")
    /\ host' = IF IsMicrosoftBaseline THEN Restored ELSE NotRestored
    /\ gaveUp' = (gaveUp \/ ~IsMicrosoftBaseline)
    /\ UNCHANGED <<signalled, file, pdo>> /\ Beyond

(* SignalRestoreCompleted. *)
Answers ==
    /\ Runs("answer")
    /\ file' \in {file, [state |-> "microsoft-held", generation |-> host.generation, error |-> host.error]}
    /\ host' = Waiting
    /\ UNCHANGED <<signalled, pdo, gaveUp>> /\ Beyond

-------------------------------------------------------------------------------
(* The PDO comes, goes and has problems while somebody may look at it.  One that comes *)
(* back without the package in the store is Microsoft's.                                *)
PdoChanges(health) ==
    /\ Followed /\ health # pdo.health
    /\ ~Runs("wait") \/ daily.pc = "begin"
    /\ pdo' = [pdo EXCEPT !.health = health,
                          !.bound = IF health = "absent" /\ ~pdo.staged THEN "Microsoft" ELSE @]
    /\ UNCHANGED <<world, daily, signalled, file, host, answered, gaveUp>>

(* What the daily host goes on with by itself, its poll of an active session included. *)
DailyRuns ==
    \/ EndsSession \/ ControlReady \/ ControlTimesOut \/ GainFails
    \/ HandoffAccepted \/ HandoffRefused \/ RebindFails
    \/ ActivationAccepted \/ ActivationFails
    \/ RestoreWaitEnds \/ LetsSessionGo \/ LetsReadyGo \/ LetsNothingGo

HostRuns ==
    \/ \E request \in Requests : Wakes(request)
    \/ ReadsRequest \/ StepsMachine \/ Stages \/ Binds \/ Rebinds
    \/ WritesAnswer \/ SignalsAnswer \/ Examines \/ Restores \/ Rescans \/ Rebounds \/ Answers

Next ==
    \/ DailyRuns \/ StartsSession
    \/ MediaStarts \/ MediaStops \/ Connects
    \/ Leaves(TRUE) \/ Leaves(FALSE)
    \/ HostRuns
    \/ \E health \in {"healthy", "problem", "absent"} : PdoChanges(health)

Fairness == WF_vars(DailyRuns) /\ WF_vars(HostRuns)


Spec == Init /\ [][Next]_vars /\ Fairness

-------------------------------------------------------------------------------
(* The daily host goes ahead with a session only for a generation the handoff host      *)
(* bound the observer for: an answer to an earlier request, late or left over in the     *)
(* file, is not taken for it (V1AvrcpHandoffIpc::WaitDone).                              *)
ReadyWasAnswered == daily.ready \in answered \cup {0}

HostRestores == ~Runs("wait") /\ ~host.handoff

(* An observer nobody uses is on its way out: when the daily host rests with no session *)
(* and nothing ready, the PDO is Microsoft's, or a restore is posted or under way, or    *)
(* the OS refused one; no order of the two processes' timeouts leaves it behind.         *)
NoForgottenObserver ==
    daily.pc \in {"idle", "exited"} /\ ~daily.session /\ daily.ready = 0 /\ pdo.bound = "Observer"
        => "restoreRequest" \in signalled \/ HostRestores \/ gaveUp

(* When media stays away the PDO comes back to Microsoft for good, whatever became of   *)
(* the daily host (RunRestore, EndMediaSession).                                         *)
MicrosoftReturns ==
    <>[]~world.streaming => <>[](pdo.bound = "Microsoft" \/ gaveUp)

(* A handoff that failed is not repeated: the host converges to the restore            *)
(* (v1_avrcp_handoff_state.cpp:34, V1AvrcpHandoffState::Step).                           *)
(* It does not hold (README.md, Further disagreements).                                 *)
FailedHandoffIsFinal == Runs("stage") => "handoffFailed" \notin host.flags
=============================================================================
