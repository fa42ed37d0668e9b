-------------------------- MODULE AvrcpHandoffProofs --------------------------
(* The handoff for every number of connections: the records keep their types, the   *)
(* daily host never takes an answer that was not for its request, and no observer    *)
(* stays bound without somebody who will give its PDO back.                          *)
EXTENDS AvrcpHandoff, TLAPS

(* V1AvrcpHandoffState::Step returns a machine and one of its actions. *)
LEMMA StepType ==
    ASSUME NEW m \in Machine, NEW in \in SUBSET Inputs
    PROVE  Step(m, in) \in [machine : Machine, action : Actions]
<1>1. \A n \in Machine, action \in Actions :
         Transition(n, action) \in [machine : Machine, action : Actions]
  BY DEF Transition
<1>2. CASE m.phase = "MicrosoftHeld"
  <2>1. [m EXCEPT !.phase = "HandoffPending"] \in Machine
    BY DEF Machine, Phases
  <2>2. Step(m, in) = Held(m, in)
    BY <1>2 DEF Step
  <2> QED BY <1>1, <2>1, <2>2 DEF Held, Actions
<1>3. CASE m.phase = "HandoffPending"
  <2>1. /\ [m EXCEPT !.phase = "ObserverActive", !.handoffUsed = TRUE] \in Machine
        /\ [m EXCEPT !.phase = "RestorePending", !.handoffUsed = TRUE] \in Machine
    BY DEF Machine, Phases
  <2>2. Step(m, in) = Pending(m, in)
    BY <1>3 DEF Step
  <2> QED BY <1>1, <2>1, <2>2 DEF Pending, Actions
<1>4. CASE m.phase = "ObserverActive"
  <2>1. [m EXCEPT !.phase = "RestorePending"] \in Machine
    BY DEF Machine, Phases
  <2>2. Step(m, in) = Active(m, in)
    BY <1>4 DEF Step
  <2> QED BY <1>1, <2>1, <2>2 DEF Active, Actions
<1>5. CASE m.phase = "RestorePending"
  <2>1. /\ [m EXCEPT !.phase = "MicrosoftHeld", !.restoreUsed = TRUE] \in Machine
        /\ [m EXCEPT !.phase = "MicrosoftHeld", !.restoreUsed = TRUE, !.degraded = TRUE] \in Machine
    BY DEF Machine, Phases
  <2>2. Step(m, in) = Restoring(m, in)
    BY <1>5 DEF Step
  <2> QED BY <1>1, <2>1, <2>2 DEF Restoring, Actions
<1> QED BY <1>2, <1>3, <1>4, <1>5 DEF Machine, Phases

(* What the file and the runner say of an observer is true of the generation they name. *)
AnswersAreTrue ==
    /\ ReadyWasAnswered
    /\ file.state = "observer-active" /\ ~file.error => file.generation \in answered
    /\ Runs("write") /\ ~host.error => host.generation \in answered

Inv == TypeOK /\ AnswersAreTrue

-------------------------------------------------------------------------------
(* The daily host asks for the original filter. *)
LEMMA AskRestoreKeepsInv ==
    ASSUME Inv, NEW d \in Daily, d.unready => d.session, d.ready \in answered \cup {0},
           NEW after \in {"begin", "released", "letGo", "forget"}, AskRestore(d, after)
    PROVE  Inv'
<1>1. /\ daily' \in Daily
      /\ daily'.pc = "awaitRestore" /\ daily'.after # "none"
      /\ daily'.unready => daily'.session
      /\ daily'.ready = d.ready
  BY DEF AskRestore, Daily
<1>2. file' \in File /\ (file' = file \/ file'.state = "restore-pending")
  <2>1. file \in File /\ world.generation \in Generations
    BY DEF Inv, TypeOK, World
  <2>2. CASE file' = file
    BY <2>1, <2>2
  <2>3. CASE file' = [state |-> "restore-pending", generation |-> world.generation, error |-> FALSE]
    BY <2>1, <2>3 DEF File
  <2> QED BY <2>2, <2>3 DEF AskRestore
<1>3. signalled' \subseteq Events /\ gaveUp' \in BOOLEAN
  BY DEF AskRestore, Events, Requests, Inv, TypeOK
<1>4. UNCHANGED <<world, host, pdo, answered>>
  BY DEF AskRestore
<1>5. TypeOK'
  BY <1>1, <1>2, <1>3, <1>4 DEF Inv, TypeOK
<1>6. AnswersAreTrue'
  BY <1>1, <1>2, <1>4 DEF Inv, AnswersAreTrue, ReadyWasAnswered, Runs
<1> QED BY <1>5, <1>6 DEF Inv

(* The steps that change only the daily host's own record, or what it knows of the world. *)
LEMMA LocalStepKeepsInv ==
    ASSUME Inv, Elsewhere, world' \in World, daily' \in Daily,
           daily'.unready => daily'.session,
           (daily'.pc = "awaitRestore") = (daily'.after # "none"),
           daily'.ready \in answered \cup {0}
    PROVE  Inv'
BY DEF Inv, TypeOK, AnswersAreTrue, ReadyWasAnswered, Runs, Elsewhere

(* The daily host waits for answers to its own requests, whatever it does in between. *)
LEMMA DailyKeepsInv ==
    ASSUME Inv, DailyRuns \/ StartsSession
    PROVE  Inv'
<1> USE DEF Inv
<1>1. /\ world \in World /\ daily \in Daily
      /\ daily.unready => daily.session
      /\ (daily.pc = "awaitRestore") = (daily.after # "none")
      /\ daily.ready \in answered \cup {0}
      /\ world.generation \in Generations /\ 0 \in Generations
  BY BoundAssumption DEF TypeOK, AnswersAreTrue, ReadyWasAnswered, World, Generations
<1>2. CASE EndsSession
  <2>1. [daily EXCEPT !.session = FALSE, !.unready = FALSE] \in Daily
    BY <1>1 DEF Daily
  <2> QED BY <1>1, <1>2, <2>1, AskRestoreKeepsInv DEF EndsSession, Daily
<1>3. CASE StartsSession
  <2>1. /\ daily' \in Daily /\ daily'.pc = "awaitHandoff" /\ daily'.after = daily.after
        /\ daily'.unready => daily'.session
        /\ daily'.ready = daily.ready
    BY <1>1, <1>3 DEF StartsSession, AskHandoff, Daily
  <2>2. file' \in File /\ (file' = file \/ file'.state = "handoff-pending")
    <3>1. file \in File
      BY DEF TypeOK
    <3>2. CASE file' = file
      BY <3>1, <3>2
    <3>3. CASE file' = [state |-> "handoff-pending", generation |-> world.generation, error |-> FALSE]
      BY <1>1, <3>3 DEF File
    <3> QED BY <1>3, <3>2, <3>3 DEF StartsSession, AskHandoff
  <2>3. signalled' \subseteq Events
    BY <1>3 DEF StartsSession, AskHandoff, TypeOK, Events, Requests
  <2>4. daily.after = "none"
    BY <1>1, <1>3 DEF StartsSession, Reconciling, Idle
  <2> QED
    BY <1>3, <2>1, <2>2, <2>3, <2>4
       DEF StartsSession, AskHandoff, TypeOK, AnswersAreTrue, ReadyWasAnswered, Runs
<1>4. CASE HandoffRefused
  <2>1. [daily EXCEPT !.failed = world.generation, !.ready = 0] \in Daily
    BY <1>1 DEF Daily
  <2> QED BY <1>1, <1>4, <2>1, AskRestoreKeepsInv DEF HandoffRefused, Daily
<1>5. CASE ActivationFails
  <2>1. [daily EXCEPT !.failed = world.generation] \in Daily
    BY <1>1 DEF Daily
  <2> QED BY <1>1, <1>5, <2>1, AskRestoreKeepsInv DEF ActivationFails, Daily
<1>6. CASE ControlTimesOut
  <2>1. [daily EXCEPT !.session = FALSE, !.unready = FALSE, !.failed = world.generation] \in Daily
    BY <1>1 DEF Daily
  <2> QED BY <1>1, <1>6, <2>1, AskRestoreKeepsInv DEF ControlTimesOut, Daily
<1>7. CASE LetsSessionGo
  <2>1. [daily EXCEPT !.session = FALSE, !.unready = FALSE] \in Daily
    BY <1>1 DEF Daily
  <2> QED BY <1>1, <1>7, <2>1, AskRestoreKeepsInv DEF LetsSessionGo, Daily
<1>8. CASE LetsReadyGo
  BY <1>1, <1>8, AskRestoreKeepsInv DEF LetsReadyGo
<1>9. CASE HandoffAccepted
  <2>1. world.generation \in answered
    BY <1>9 DEF HandoffAccepted, Accepts, AnswersAreTrue
  <2> QED BY <1>1, <1>9, <2>1, LocalStepKeepsInv DEF HandoffAccepted, Daily
<1>10. CASE ControlReady \/ GainFails \/ RebindFails \/ ActivationAccepted
  BY <1>1, <1>10, LocalStepKeepsInv
     DEF ControlReady, GainFails, RebindFails, ActivationAccepted, Polling, Reconciling, Idle, Daily
<1>11. CASE RestoreWaitEnds
  <2>1. daily.after \in {"begin", "released", "letGo", "forget"}
    BY <1>1, <1>11 DEF RestoreWaitEnds, Daily
  <2>2. \/ daily' = [daily EXCEPT !.pc = "idle", !.after = "none", !.ready = 0]
        \/ daily' = [daily EXCEPT !.pc = "begin", !.after = "none"]
        \/ daily' = [daily EXCEPT !.pc = "letGo", !.after = "none"]
        \/ daily' = [daily EXCEPT !.after = "none", !.ready = 0,
                                  !.failed = IF daily.exiting THEN @ ELSE 0,
                                  !.pc = IF daily.exiting THEN "exited" ELSE "idle"]
    BY <1>11, <2>1 DEF RestoreWaitEnds
  <2>3. /\ daily' \in Daily
        /\ daily'.unready => daily'.session
        /\ daily'.pc # "awaitRestore" /\ daily'.after = "none"
        /\ daily'.ready \in {0, daily.ready}
    BY <1>1, <2>2 DEF Daily
  <2> QED BY <1>1, <1>11, <2>3, LocalStepKeepsInv DEF RestoreWaitEnds
<1>12. CASE LetsNothingGo
  BY <1>1, <1>12, LocalStepKeepsInv DEF LetsNothingGo, Daily
<1> QED
  BY <1>2, <1>3, <1>4, <1>5, <1>6, <1>7, <1>8, <1>9, <1>10, <1>11, <1>12 DEF DailyRuns

-------------------------------------------------------------------------------
(* The steps of the handoff host that answer nothing. *)
LEMMA QuietStepKeepsInv ==
    ASSUME Inv, Beyond, UNCHANGED file, host' \in Host, pdo' \in Pdo,
           signalled' \subseteq Events, gaveUp' \in BOOLEAN,
           host'.pc = "write" => host'.error
    PROVE  Inv'
BY DEF Inv, TypeOK, AnswersAreTrue, ReadyWasAnswered, Runs, Beyond

(* The records that the handoff host goes through are records of a host. *)
LEMMA RecordsOfHost ==
    ASSUME host \in Host
    PROVE  /\ Waiting \in Host /\ Waiting.pc = "wait"
           /\ \A flag \in Inputs : Flags(flag) \in Host /\ Flags(flag).pc = "step"
           /\ Restored \in Host /\ Restored.pc \in {"step", "wait", "answer"}
           /\ NotRestored \in Host /\ NotRestored.pc \in {"step", "wait", "answer"}
<1>1. Waiting \in Host /\ Waiting.pc = "wait"
  <2>1. Fresh \in Machine /\ 0 \in Generations
    BY BoundAssumption DEF Fresh, Machine, Phases, Generations
  <2> QED BY <2>1 DEF Waiting, Host
<1>2. \A flag \in Inputs : Flags(flag) \in Host /\ Flags(flag).pc = "step"
  <2> SUFFICES ASSUME NEW flag \in Inputs
               PROVE  Flags(flag) \in Host /\ Flags(flag).pc = "step"
    OBVIOUS
  <2>1. host.flags \cup {flag} \in SUBSET Inputs
    BY DEF Host
  <2> QED BY <2>1 DEF Flags, Host
<1>3. "restoreDone" \in Inputs /\ "restoreFailed" \in Inputs
  BY DEF Inputs
<1>4. CASE host.then = "step"
  <2>1. Restored = [Flags("restoreDone") EXCEPT !.package = FALSE, !.resident = FALSE]
    BY <1>4 DEF Restored
  <2>2. NotRestored = Flags("restoreFailed")
    BY <1>4 DEF NotRestored
  <2>3. Restored \in Host /\ Restored.pc = "step"
    BY <1>2, <1>3, <2>1 DEF Host
  <2> QED BY <1>1, <1>2, <1>3, <2>2, <2>3
<1>5. CASE host.then = "rollback"
  <2>1. Restored = [Waiting EXCEPT !.resident = FALSE] /\ NotRestored = Waiting
    BY <1>5 DEF Restored, NotRestored
  <2>2. Restored \in Host /\ Restored.pc = "wait"
    BY <1>1, <2>1 DEF Host
  <2> QED BY <1>1, <1>2, <2>1, <2>2
<1>6. CASE host.then = "answer"
  <2>1. /\ Restored = [host EXCEPT !.pc = "answer", !.resident = FALSE]
        /\ NotRestored = [host EXCEPT !.pc = "answer", !.error = TRUE]
    BY <1>6 DEF Restored, NotRestored
  <2>2. /\ Restored \in Host /\ Restored.pc = "answer"
        /\ NotRestored \in Host /\ NotRestored.pc = "answer"
    BY <2>1 DEF Host
  <2> QED BY <1>1, <1>2, <2>2
<1> QED BY <1>4, <1>5, <1>6 DEF Host

(* The handoff host answers what it has read, and nothing else becomes ready. *)
LEMMA HostKeepsInv ==
    ASSUME Inv, HostRuns
    PROVE  Inv'
<1> USE DEF Inv
<1>1. /\ host \in Host /\ pdo \in Pdo /\ file \in File /\ gaveUp \in BOOLEAN
      /\ signalled \subseteq Events /\ file.generation \in Generations
      /\ 0 \in Generations /\ host.generation \in Generations
  BY BoundAssumption DEF TypeOK, File, Generations, Host
<1>2. ASSUME NEW request \in Requests, Wakes(request)
      PROVE  Inv'
  BY <1>1, <1>2, QuietStepKeepsInv DEF Wakes, Host
<1>3. CASE ReadsRequest
  <2>1. PICK g \in {file.generation} \cup Unreadable :
          host' = [host EXCEPT !.generation = g, !.flags = {"streaming"},
                     !.located = @ \/ pdo.health # "absent",
                     !.error = ~host.located /\ pdo.health = "absent",
                     !.pc = CASE ~host.located /\ pdo.health = "absent" /\ host.handoff -> "write"
                              [] ~host.located /\ pdo.health = "absent" /\ ~host.handoff -> "answer"
                              [] OTHER -> IF host.handoff THEN "step" ELSE "examine"]
    BY <1>3 DEF ReadsRequest
  <2>2. g \in Generations
    BY <1>1 DEF Unreadable
  <2>3. {"streaming"} \in SUBSET Inputs /\ (host.located \/ pdo.health # "absent") \in BOOLEAN
    BY <1>1 DEF Inputs, Host
  <2> DEFINE lost == ~host.located /\ pdo.health = "absent"
             pc == CASE lost /\ host.handoff -> "write"
                     [] lost /\ ~host.handoff -> "answer"
                     [] OTHER -> IF host.handoff THEN "step" ELSE "examine"
  <2>4. lost \in BOOLEAN /\ pc \in {"write", "answer", "step", "examine"} /\ (pc = "write" => lost)
    BY <1>1 DEF Host
  <2>5. host' = [host EXCEPT !.generation = g, !.flags = {"streaming"},
                  !.located = @ \/ pdo.health # "absent", !.error = lost, !.pc = pc]
    BY <2>1
  <2> HIDE DEF lost, pc
  <2>6. host' \in Host /\ (host'.pc = "write" => host'.error)
    BY <1>1, <2>2, <2>3, <2>4, <2>5 DEF Host
  <2> QED BY <1>1, <1>3, <2>6, QuietStepKeepsInv DEF ReadsRequest
<1>4. CASE StepsMachine
  <2> DEFINE t == Step(host.machine, host.flags)
             next == [stage |-> "stage", restore |-> "restore", notify |-> "write",
                      returned |-> "step", degraded |-> "step"]
  <2>1. t.machine \in Machine /\ t.action \in Actions
    BY <1>1, StepType DEF Host
  <2>2. /\ host' = IF t.action = "none" THEN Waiting
                   ELSE [host EXCEPT !.machine = t.machine, !.pc = next[t.action], !.then = "step"]
        /\ answered' = IF t.action = "notify" THEN answered \cup {host.generation} ELSE answered
        /\ UNCHANGED <<signalled, file, pdo, gaveUp, world, daily>>
    BY <1>4 DEF StepsMachine
  <2> HIDE DEF t
  <2>3. CASE t.action = "none"
    BY <1>1, <2>2, <2>3, RecordsOfHost, QuietStepKeepsInv DEF Beyond
  <2>4. CASE t.action # "none"
    <3>1. next[t.action] \in {"stage", "restore", "write", "step"} /\
          (next[t.action] = "write" => t.action = "notify")
      BY <2>1, <2>4 DEF Actions
    <3>2. host' \in Host /\ host'.generation = host.generation /\ host'.pc = next[t.action]
      BY <1>1, <2>1, <2>2, <2>4, <3>1 DEF Host
    <3>3. answered' \subseteq Generations /\ answered \subseteq answered'
          /\ (host'.pc = "write" => host'.generation \in answered')
      BY <1>1, <2>2, <3>1, <3>2 DEF TypeOK
    <3> QED
      BY <2>2, <3>2, <3>3 DEF TypeOK, AnswersAreTrue, ReadyWasAnswered, Runs
  <2> QED BY <2>3, <2>4
<1>5. CASE Stages
  <2>1. /\ "handoffFailed" \in Inputs /\ Flags("handoffFailed") \in Host
        /\ Flags("handoffFailed").pc = "step"
    BY <1>1, RecordsOfHost DEF Inputs
  <2>2. host' \in Host /\ host'.pc # "write"
    BY <1>1, <1>5, <2>1 DEF Stages, Host
  <2>3. pdo' \in Pdo /\ gaveUp' \in BOOLEAN
    BY <1>1, <1>5, ZenonT(60) DEF Stages, Pdo, Host
  <2> QED BY <1>1, <1>5, <2>2, <2>3, QuietStepKeepsInv DEF Stages
<1>6. CASE Binds
  <2>1. \A flag \in {"handoffDone", "handoffFailed"} : Flags(flag) \in Host /\ Flags(flag).pc = "step"
    BY <1>1, RecordsOfHost DEF Inputs
  <2>2. host' \in Host /\ host'.pc # "write"
    BY <1>1, <1>6, <2>1 DEF Binds, Host
  <2>3. pdo' \in Pdo
    BY <1>1, <1>6 DEF Binds, Pdo
  <2> QED BY <1>1, <1>6, <2>2, <2>3, QuietStepKeepsInv DEF Binds
<1>7. CASE Rebinds
  <2>1. \A flag \in {"handoffDone", "handoffFailed"} : Flags(flag) \in Host /\ Flags(flag).pc = "step"
    BY <1>1, RecordsOfHost DEF Inputs
  <2> QED BY <1>1, <1>7, <2>1, QuietStepKeepsInv DEF Rebinds
<1>8. CASE WritesAnswer
  <2>1. CASE file' = [state |-> "observer-active", generation |-> host.generation, error |-> host.error]
             /\ host' = [host EXCEPT !.pc = "signal"]
    <3>1. file' \in File
      BY <1>1, <2>1 DEF File, Host
    <3>2. host' \in Host /\ host'.pc = "signal"
      BY <1>1, <2>1 DEF Host
    <3>3. ~host.error => host.generation \in answered
      BY <1>8 DEF WritesAnswer, AnswersAreTrue
    <3> QED
      BY <1>8, <2>1, <3>1, <3>2, <3>3
         DEF WritesAnswer, TypeOK, AnswersAreTrue, ReadyWasAnswered, Runs, Beyond
  <2>2. CASE UNCHANGED file
             /\ host' = IF host.error THEN Waiting
                        ELSE [host EXCEPT !.pc = "restore", !.then = "rollback"]
    <3>1. host' \in Host /\ host'.pc # "write"
      BY <1>1, <2>2, RecordsOfHost DEF Host
    <3> QED BY <1>1, <1>8, <2>2, <3>1, QuietStepKeepsInv DEF WritesAnswer
  <2> QED BY <1>8, <2>1, <2>2 DEF WritesAnswer, Unanswered
<1>9. CASE SignalsAnswer
  <2>1. host' \in Host /\ host'.pc # "write"
    BY <1>1, <1>9, RecordsOfHost DEF SignalsAnswer, Unanswered, Host
  <2> QED BY <1>1, <1>9, <2>1, QuietStepKeepsInv DEF SignalsAnswer, Events
<1>10. CASE Examines
  <2>1. \/ host' = [host EXCEPT !.pc = "answer"]
        \/ host' = [host EXCEPT !.pc = "restore", !.then = "answer", !.package = TRUE]
        \/ host' = [host EXCEPT !.pc = "answer", !.error = TRUE]
    BY <1>10 DEF Examines
  <2>2. host' \in Host /\ host'.pc # "write"
    BY <1>1, <2>1 DEF Host
  <2> QED BY <1>1, <1>10, <2>2, QuietStepKeepsInv DEF Examines
<1>11. CASE Restores
  <2>1. host' \in Host /\ host'.pc # "write"
    BY <1>1, <1>11, RecordsOfHost DEF Restores, Host
  <2>2. pdo' \in Pdo /\ gaveUp' \in BOOLEAN
    BY <1>1, <1>11 DEF Restores, Pdo
  <2> QED BY <1>1, <1>11, <2>1, <2>2, QuietStepKeepsInv DEF Restores
<1>12. CASE Rescans
  <2>1. host' \in Host /\ host'.pc # "write"
    BY <1>1, <1>12, RecordsOfHost DEF Rescans, Host
  <2>2. pdo' \in Pdo /\ gaveUp' \in BOOLEAN
    BY <1>1, <1>12 DEF Rescans, Pdo
  <2> QED BY <1>1, <1>12, <2>1, <2>2, QuietStepKeepsInv DEF Rescans
<1>13. CASE Rebounds
  <2>1. host' \in Host /\ host'.pc # "write" /\ gaveUp' \in BOOLEAN
    BY <1>1, <1>13, RecordsOfHost DEF Rebounds
  <2> QED BY <1>1, <1>13, <2>1, QuietStepKeepsInv DEF Rebounds
<1>14. CASE Answers
  <2>1. host' \in Host /\ host'.pc = "wait"
    BY <1>1, <1>14, RecordsOfHost DEF Answers
  <2>2. file' \in File /\ (file' = file \/ file'.state = "microsoft-held")
    BY <1>1, <1>14 DEF Answers, File, Host
  <2> QED
    BY <1>14, <2>1, <2>2 DEF Answers, TypeOK, AnswersAreTrue, ReadyWasAnswered, Runs, Beyond
<1> QED
  BY <1>2, <1>3, <1>4, <1>5, <1>6, <1>7, <1>8, <1>9, <1>10, <1>11, <1>12, <1>13, <1>14
     DEF HostRuns

-------------------------------------------------------------------------------
(* The session and the PDO change around both hosts. *)
LEMMA WorldKeepsInv ==
    ASSUME Inv, \/ MediaStarts \/ MediaStops \/ Connects \/ Leaves(TRUE) \/ Leaves(FALSE)
                \/ \E health \in {"healthy", "problem", "absent"} : PdoChanges(health)
    PROVE  Inv'
<1>1. /\ world \in World /\ daily \in Daily /\ pdo \in Pdo
      /\ daily.unready => daily.session
      /\ (daily.pc = "awaitRestore") = (daily.after # "none")
      /\ daily.ready \in answered \cup {0}
  BY DEF Inv, TypeOK, AnswersAreTrue, ReadyWasAnswered
<1>2. CASE MediaStarts \/ MediaStops \/ Connects
  <2>1. world' \in World
    <3>1. world.generation \in Generations
      BY <1>1 DEF World
    <3>2. Connects => world.generation + 1 \in Generations
      BY <3>1, BoundAssumption DEF Connects, Generations
    <3> QED BY <1>1, <1>2, <3>1, <3>2 DEF MediaStarts, MediaStops, Connects, World
  <2> QED BY <1>1, <1>2, <2>1, LocalStepKeepsInv DEF MediaStarts, MediaStops, Connects
<1>3. ASSUME NEW exiting \in BOOLEAN, Leaves(exiting)
      PROVE  Inv'
  <2>1. world' \in World
    BY <1>1, <1>3 DEF Leaves, World
  <2>2. /\ daily' \in Daily /\ daily'.pc = "letGo" /\ daily'.after = "none"
        /\ daily'.unready => daily'.session
        /\ daily'.ready = daily.ready
    BY <1>1, <1>3 DEF Leaves, Daily, Idle
  <2> QED BY <1>1, <1>3, <2>1, <2>2, LocalStepKeepsInv DEF Leaves
<1>4. ASSUME NEW health \in {"healthy", "problem", "absent"}, PdoChanges(health)
      PROVE  Inv'
  <2>1. pdo' \in Pdo
    BY <1>1, <1>4 DEF PdoChanges, Pdo
  <2> QED
    BY <1>4, <2>1 DEF PdoChanges, Inv, TypeOK, AnswersAreTrue, ReadyWasAnswered, Runs
<1> QED BY <1>2, <1>3, <1>4

(* The types and the answers are inductive together. *)
LEMMA InvHolds == Spec => []Inv
<1>1. Init => Inv
  <2> SUFFICES ASSUME Init PROVE Inv
    OBVIOUS
  <2>1. 0 \in Generations /\ Fresh \in Machine
    BY BoundAssumption DEF Generations, Fresh, Machine, Phases
  <2>2. host \in Host /\ host.pc = "wait"
    BY <2>1 DEF Init, Host
  <2>3. daily \in Daily /\ world \in World /\ file \in File /\ file.state = "none"
    BY <2>1 DEF Init, Daily, World, File
  <2> QED
    BY <2>1, <2>2, <2>3 DEF Init, Inv, TypeOK, AnswersAreTrue, ReadyWasAnswered, Runs
<1>2. Inv /\ [Next]_vars => Inv'
  <2> SUFFICES ASSUME Inv, [Next]_vars PROVE Inv'
    OBVIOUS
  <2>1. CASE DailyRuns \/ StartsSession
    BY <2>1, DailyKeepsInv
  <2>2. CASE HostRuns
    BY <2>2, HostKeepsInv
  <2>3. CASE \/ MediaStarts \/ MediaStops \/ Connects \/ Leaves(TRUE) \/ Leaves(FALSE)
             \/ \E health \in {"healthy", "problem", "absent"} : PdoChanges(health)
    BY <2>3, WorldKeepsInv
  <2>4. CASE UNCHANGED vars
    BY <2>4 DEF vars, Inv, TypeOK, AnswersAreTrue, ReadyWasAnswered, Runs
  <2> QED BY <2>1, <2>2, <2>3, <2>4 DEF Next
<1> QED BY <1>1, <1>2, PTL DEF Spec

(* The records of both processes, the file and the PDO keep their types, and an armed     *)
(* control deadline belongs to a session, for every number of connections.               *)
THEOREM HandoffTypeCorrect == Spec => []TypeOK
BY InvHolds, PTL DEF Inv

(* WaitDone (v1_avrcp_handoff_ipc.cpp) never takes an answer to another request for its   *)
(* own: a generation that is ready is one the handoff host bound the observer for.        *)
THEOREM ReadyIsAnswered == Spec => []ReadyWasAnswered
BY InvHolds, PTL DEF Inv, AnswersAreTrue

-------------------------------------------------------------------------------
(* The observer that nobody has forgotten.  Somebody always answers for an observer   *)
(* that is bound: the daily host that uses it or is about to, a restore that is posted, *)
(* or the handoff host that is giving the PDO back, which ends only with Microsoft's    *)
(* driver or with a refusal of the OS.                                                  *)

Microsofts == pdo.bound = "Microsoft" \/ gaveUp

(* Where the daily host may hold a session, and for which generation. *)
DailySide ==
    /\ daily.pc \in {"awaitHandoff", "begin", "awaitRestore", "exited"} => ~daily.session
    /\ (\/ daily.pc \in {"awaitHandoff", "begin"}
        \/ daily.after = "begin"
        \/ daily.pc = "idle" /\ daily.session) => world.present
    /\ daily.after = "begin" => daily.failed = world.generation
    /\ daily.session \/ daily.pc = "begin" =>
         daily.ready = world.generation \/ daily.failed = world.generation

(* The daily host uses an owner, or will give back the one that is ready. *)
Engaged ==
    \/ daily.session
    \/ daily.pc = "awaitHandoff"
    \/ daily.pc \in {"begin", "letGo"} /\ daily.ready = world.generation

Promised == Engaged \/ "restoreRequest" \in signalled \/ gaveUp

(* A handoff that is asked for or under way, and an observer, are followed by a restore. *)
PromiseSide ==
    /\ "handoffRequest" \in signalled \/ (~Runs("wait") /\ host.handoff) => Promised
    /\ pdo.bound = "Observer" => Promised \/ HostRestores

(* What the handoff host knows of the PDO where it stands. *)
HostSide ==
    /\ host.pc \in {"step", "stage", "bind", "rebind", "examine", "restore", "rescan", "rebound"} =>
         host.located
    /\ host.pc \in {"write", "signal"} => host.located \/ host.error
    /\ ~host.handoff =>
         /\ host.pc \in {"wait", "read", "examine", "restore", "rescan", "rebound", "answer"}
         /\ host.pc \in {"restore", "rescan", "rebound"} => host.then = "answer"
    /\ Runs("restore") /\ host.then = "answer" => host.package

(* An observer is one the host has found, recorded and staged, until the package is gone. *)
PdoSide ==
    /\ pdo.bound = "Observer" =>
         /\ host.located
         /\ host.resident \/ gaveUp
         /\ pdo.staged \/ Runs("rescan") \/ gaveUp
    /\ pdo.health = "absent" /\ ~pdo.staged => pdo.bound = "Microsoft"
    /\ Runs("bind") => host.resident /\ pdo.staged
    /\ Runs("rescan") => ~pdo.staged \/ gaveUp
    /\ Runs("rebound") \/ Runs("answer") => Microsofts

HInv == DailySide /\ PromiseSide /\ HostSide /\ PdoSide

(* RequestRestore promises the restore, or the OS has refused it. *)
LEMMA AskRestoreKeepsHInv ==
    ASSUME Inv, HInv, NEW d \in Daily, ~d.session,
           NEW after \in {"begin", "released", "letGo", "forget"},
           after = "begin" => world.present /\ d.failed = world.generation,
           AskRestore(d, after)
    PROVE  HInv'
<1>1. /\ daily'.pc = "awaitRestore" /\ ~daily'.session
      /\ daily'.after = after /\ daily'.failed = d.failed
      /\ UNCHANGED <<world, host, pdo>>
      /\ "restoreRequest" \in signalled' \/ gaveUp'
      /\ gaveUp => gaveUp'
  BY DEF AskRestore, Daily
<1>2. DailySide'
  BY <1>1 DEF DailySide
<1>3. PromiseSide'
  BY <1>1 DEF PromiseSide, Promised
<1>4. HostSide'
  BY <1>1 DEF HInv, HostSide, Runs
<1>5. PdoSide'
  BY <1>1 DEF HInv, PdoSide, Microsofts, Runs
<1> QED BY <1>2, <1>3, <1>4, <1>5 DEF HInv

(* The handoff host and the PDO do not notice what the daily host does in between. *)
LEMMA LocalStepKeepsHInv ==
    ASSUME HInv, Elsewhere, DailySide', Engaged => Engaged'
    PROVE  HInv'
<1>1. UNCHANGED <<signalled, host, pdo, gaveUp>>
  BY DEF Elsewhere
<1>2. PromiseSide'
  BY <1>1 DEF HInv, PromiseSide, Promised, HostRestores, Runs
<1>3. HostSide'
  BY <1>1 DEF HInv, HostSide, Runs
<1>4. PdoSide'
  BY <1>1 DEF HInv, PdoSide, Microsofts, Runs
<1> QED BY <1>2, <1>3, <1>4 DEF HInv

(* Each end of a session or of a wait leaves a restore promised, or has nothing to give back. *)
LEMMA DailyKeepsHInv ==
    ASSUME Inv, HInv, DailyRuns \/ StartsSession
    PROVE  HInv'
<1>1. /\ world \in World /\ daily \in Daily
      /\ (daily.pc = "awaitRestore") = (daily.after # "none")
      /\ DailySide
  BY DEF Inv, TypeOK, HInv
<1>2. world.generation \in Generations /\ 0 \in Generations
  BY <1>1, BoundAssumption DEF World, Generations
<1>3. CASE EndsSession
  <2>1. [daily EXCEPT !.session = FALSE, !.unready = FALSE] \in Daily
    BY <1>1 DEF Daily
  <2> QED BY <1>1, <1>3, <2>1, AskRestoreKeepsHInv DEF EndsSession, Daily
<1>4. CASE HandoffRefused
  <2>1. [daily EXCEPT !.failed = world.generation, !.ready = 0] \in Daily
    BY <1>1, <1>2 DEF Daily
  <2>2. daily.pc = "awaitHandoff" /\ ~daily.session /\ world.present
    BY <1>1, <1>4 DEF HandoffRefused, DailySide
  <2>3. AskRestore([daily EXCEPT !.failed = world.generation, !.ready = 0], "begin")
    BY <1>4 DEF HandoffRefused
  <2> DEFINE d == [daily EXCEPT !.failed = world.generation, !.ready = 0]
  <2>4. d \in Daily /\ ~d.session /\ d.failed = world.generation /\ AskRestore(d, "begin")
    BY <1>1, <2>1, <2>2, <2>3 DEF Daily
  <2> HIDE DEF d
  <2> QED BY <2>2, <2>4, AskRestoreKeepsHInv
<1>5. CASE ActivationFails
  <2>1. [daily EXCEPT !.failed = world.generation] \in Daily
    BY <1>1, <1>2 DEF Daily
  <2> QED BY <1>1, <1>5, <2>1, AskRestoreKeepsHInv DEF ActivationFails, Daily, DailySide
<1>6. CASE ControlTimesOut
  <2>1. [daily EXCEPT !.session = FALSE, !.unready = FALSE, !.failed = world.generation] \in Daily
    BY <1>1, <1>2 DEF Daily
  <2> QED BY <1>1, <1>6, <2>1, AskRestoreKeepsHInv DEF ControlTimesOut, Daily
<1>7. CASE LetsSessionGo
  <2>1. [daily EXCEPT !.session = FALSE, !.unready = FALSE] \in Daily
    BY <1>1 DEF Daily
  <2> QED BY <1>1, <1>7, <2>1, AskRestoreKeepsHInv DEF LetsSessionGo, Daily
<1>8. CASE LetsReadyGo
  BY <1>1, <1>8, AskRestoreKeepsHInv DEF LetsReadyGo
<1>9. CASE StartsSession
  <2>1. /\ daily' = [daily EXCEPT !.pc = "awaitHandoff"]
        /\ daily.pc = "idle" /\ ~daily.session /\ world.present
        /\ UNCHANGED <<world, host, pdo, gaveUp>>
    BY <1>9 DEF StartsSession, Reconciling, Idle, AskHandoff
  <2>2. daily'.pc = "awaitHandoff" /\ ~daily'.session /\ daily'.after = "none"
    BY <1>1, <2>1 DEF Daily
  <2>3. DailySide'
    BY <2>1, <2>2 DEF DailySide
  <2>4. PromiseSide'
    BY <2>2 DEF PromiseSide, Promised, Engaged
  <2>5. HostSide' /\ PdoSide'
    BY <2>1 DEF HInv, HostSide, PdoSide, Microsofts, Runs
  <2> QED BY <2>3, <2>4, <2>5 DEF HInv
<1>10. CASE HandoffAccepted
  <2>1. /\ daily' = [daily EXCEPT !.pc = "begin", !.ready = world.generation]
        /\ daily.pc = "awaitHandoff" /\ UNCHANGED world /\ Elsewhere
    BY <1>10 DEF HandoffAccepted
  <2>2. DailySide' /\ Engaged'
    BY <1>1, <2>1 DEF DailySide, Engaged, Daily
  <2> QED BY <2>1, <2>2, LocalStepKeepsHInv
<1>11. CASE RebindFails
  <2>1. /\ daily' = [daily EXCEPT !.pc = "letGo", !.exiting = TRUE]
        /\ daily.pc = "begin" /\ ~daily.session /\ UNCHANGED world /\ Elsewhere
    BY <1>11 DEF RebindFails
  <2>2. DailySide' /\ (Engaged => Engaged')
    BY <1>1, <2>1 DEF DailySide, Engaged, Daily
  <2> QED BY <2>1, <2>2, LocalStepKeepsHInv
<1>12. CASE ActivationAccepted
  <2>1. /\ daily' = [daily EXCEPT !.pc = "idle", !.session = TRUE, !.unready = TRUE]
        /\ daily.pc = "begin" /\ UNCHANGED world /\ Elsewhere
    BY <1>12 DEF ActivationAccepted
  <2>2. /\ daily'.pc = "idle" /\ daily'.session /\ daily'.after = "none"
        /\ daily'.ready = daily.ready /\ daily'.failed = daily.failed
    BY <1>1, <2>1 DEF Daily
  <2>3. DailySide' /\ Engaged'
    BY <1>1, <2>1, <2>2 DEF DailySide, Engaged
  <2> QED BY <2>1, <2>3, LocalStepKeepsHInv
<1>13. CASE ControlReady
  <2>1. daily' = [daily EXCEPT !.unready = FALSE] /\ UNCHANGED world /\ Elsewhere
    BY <1>13 DEF ControlReady
  <2>2. DailySide' /\ (Engaged => Engaged')
    BY <1>1, <2>1 DEF DailySide, Engaged, Daily
  <2> QED BY <2>1, <2>2, LocalStepKeepsHInv
<1>14. CASE GainFails
  <2>1. /\ daily' = [daily EXCEPT !.session = FALSE, !.unready = FALSE, !.pc = "letGo",
                                  !.exiting = TRUE]
        /\ daily.pc = "idle" /\ daily.session /\ daily.failed # world.generation
        /\ UNCHANGED world /\ Elsewhere
    BY <1>14 DEF GainFails, Polling, Reconciling, Idle, FailClosed
  <2>2. DailySide' /\ Engaged'
    BY <1>1, <2>1 DEF DailySide, Engaged, Daily
  <2> QED BY <2>1, <2>2, LocalStepKeepsHInv
<1>15. CASE RestoreWaitEnds
  <2>1. daily.pc = "awaitRestore" /\ UNCHANGED world /\ Elsewhere
    BY <1>15 DEF RestoreWaitEnds
  <2>2. ~daily.session /\ ~Engaged
    BY <1>1, <2>1 DEF DailySide, Engaged
  <2>3. \/ daily.after = "begin" /\ daily' = [daily EXCEPT !.pc = "begin", !.after = "none"]
        \/ daily' = [daily EXCEPT !.pc = "idle", !.after = "none", !.ready = 0]
        \/ daily' = [daily EXCEPT !.pc = "letGo", !.after = "none"]
        \/ daily' = [daily EXCEPT !.after = "none", !.ready = 0,
                                  !.failed = IF daily.exiting THEN @ ELSE 0,
                                  !.pc = IF daily.exiting THEN "exited" ELSE "idle"]
    <3>1. daily.after \in {"begin", "released", "letGo", "forget"}
      BY <1>1, <2>1 DEF Daily
    <3> QED BY <1>15, <3>1 DEF RestoreWaitEnds
  <2>4. DailySide'
    BY <1>1, <2>1, <2>2, <2>3 DEF DailySide, Daily
  <2> QED BY <2>1, <2>2, <2>4, LocalStepKeepsHInv
<1>16. CASE LetsNothingGo
  <2>1. /\ daily' = [daily EXCEPT !.ready = 0, !.failed = IF daily.exiting THEN @ ELSE 0,
                                  !.pc = IF daily.exiting THEN "exited" ELSE "idle"]
        /\ daily.pc = "letGo" /\ ~daily.session /\ daily.ready # world.generation
        /\ UNCHANGED world /\ Elsewhere
    BY <1>16 DEF LetsNothingGo
  <2>2. DailySide' /\ ~Engaged
    BY <1>1, <2>1 DEF DailySide, Engaged, Daily
  <2> QED BY <2>1, <2>2, LocalStepKeepsHInv
<1> QED
  BY <1>3, <1>4, <1>5, <1>6, <1>7, <1>8, <1>9, <1>10, <1>11, <1>12, <1>13, <1>14, <1>15, <1>16
     DEF DailyRuns

(* Connections and media come and go between the daily host's steps; a device node that *)
(* comes back without the package is Microsoft's.                                        *)
LEMMA WorldKeepsHInv ==
    ASSUME Inv, HInv,
           \/ MediaStarts \/ MediaStops \/ Connects \/ Leaves(TRUE) \/ Leaves(FALSE)
           \/ \E health \in {"healthy", "problem", "absent"} : PdoChanges(health)
    PROVE  HInv'
<1>1. /\ world \in World /\ daily \in Daily /\ pdo \in Pdo
      /\ (daily.pc = "awaitRestore") = (daily.after # "none")
      /\ DailySide
  BY DEF Inv, TypeOK, HInv
<1>2. CASE MediaStarts \/ MediaStops
  <2>1. /\ world'.present = world.present /\ world'.generation = world.generation
        /\ UNCHANGED daily /\ Elsewhere
    BY <1>1, <1>2 DEF MediaStarts, MediaStops, World
  <2>2. DailySide' /\ (Engaged => Engaged')
    BY <1>1, <2>1 DEF DailySide, Engaged
  <2> QED BY <2>1, <2>2, LocalStepKeepsHInv
<1>3. CASE Connects
  <2>1. /\ daily.pc = "idle" /\ ~world.present /\ world'.present
        /\ UNCHANGED daily /\ Elsewhere
    BY <1>1, <1>3 DEF Connects, Idle, World
  <2>2. ~daily.session /\ daily.after = "none"
    BY <1>1, <2>1 DEF DailySide, Daily
  <2>3. DailySide' /\ ~Engaged
    BY <2>1, <2>2 DEF DailySide, Engaged
  <2> QED BY <2>1, <2>3, LocalStepKeepsHInv
<1>4. ASSUME NEW exiting \in BOOLEAN, Leaves(exiting)
      PROVE  HInv'
  <2>1. /\ daily.pc = "idle" /\ daily' = [daily EXCEPT !.pc = "letGo", !.exiting = exiting]
        /\ world'.generation = world.generation /\ Elsewhere
    BY <1>1, <1>4 DEF Leaves, Idle, World
  <2>2. daily'.pc = "letGo" /\ daily'.session = daily.session /\ daily'.after = "none"
        /\ daily'.ready = daily.ready /\ daily'.failed = daily.failed
    BY <1>1, <2>1 DEF Daily
  <2>3. DailySide' /\ (Engaged => Engaged')
    BY <1>1, <2>1, <2>2 DEF DailySide, Engaged
  <2> QED BY <2>1, <2>3, LocalStepKeepsHInv
<1>5. ASSUME NEW health \in {"healthy", "problem", "absent"}, PdoChanges(health)
      PROVE  HInv'
  <2>1. /\ pdo' = [pdo EXCEPT !.health = health,
                     !.bound = IF health = "absent" /\ ~pdo.staged THEN "Microsoft" ELSE @]
        /\ UNCHANGED <<world, daily, signalled, file, host, answered, gaveUp>>
    BY <1>5 DEF PdoChanges
  <2>2. /\ pdo'.staged = pdo.staged /\ pdo'.bound \in {"Microsoft", pdo.bound}
        /\ pdo'.health = "absent" /\ ~pdo'.staged => pdo'.bound = "Microsoft"
    BY <1>1, <2>1 DEF Pdo
  <2>3. DailySide' /\ HostSide'
    BY <2>1 DEF HInv, DailySide, HostSide, Runs
  <2>4. PromiseSide'
    BY <2>1, <2>2 DEF HInv, PromiseSide, Promised, Engaged, HostRestores, Runs
  <2>5. PdoSide'
    BY <2>1, <2>2 DEF HInv, PdoSide, Microsofts, Runs
  <2> QED BY <2>3, <2>4, <2>5 DEF HInv
<1> QED BY <1>2, <1>3, <1>4, <1>5

(* A step of the handoff host that leaves the PDO's promise as it is. *)
LEMMA HostStepKeepsHInv ==
    ASSUME HInv, UNCHANGED <<world, daily, signalled>>, gaveUp => gaveUp',
           host.handoff /\ ~Runs("wait"),
           HostSide', PdoSide'
    PROVE  HInv'
<1>1. DailySide' /\ Promised /\ Promised'
  BY DEF HInv, DailySide, PromiseSide, Promised, Engaged
<1> QED BY <1>1 DEF HInv, PromiseSide

(* A step of a restore that goes on, or that has given the PDO back. *)
LEMMA RestoreStepKeepsHInv ==
    ASSUME HInv, UNCHANGED <<world, daily, signalled>>, gaveUp => gaveUp',
           pdo'.bound = "Observer" => pdo.bound = "Observer",
           host'.handoff => host.handoff /\ ~Runs("wait"),
           ~host.handoff /\ ~Runs("wait") /\ Runs("wait")' => Microsofts',
           HostSide', PdoSide'
    PROVE  HInv'
<1>1. DailySide' /\ (Promised => Promised')
  BY DEF HInv, DailySide, PromiseSide, Promised, Engaged
<1>2. PromiseSide'
  <2>1. "handoffRequest" \in signalled' \/ (~Runs("wait")' /\ host'.handoff) => Promised'
    BY <1>1 DEF HInv, PromiseSide
  <2>2. ASSUME pdo'.bound = "Observer"
        PROVE  Promised' \/ HostRestores'
    <3>1. Promised \/ HostRestores
      BY <2>2 DEF HInv, PromiseSide
    <3>2. CASE HostRestores /\ Runs("wait")'
      <4>1. gaveUp'
        BY <2>2, <3>2 DEF HostRestores, Microsofts
      <4> QED BY <4>1 DEF Promised
    <3>3. CASE HostRestores /\ ~Runs("wait")'
      BY <3>3 DEF HostRestores
    <3> QED BY <1>1, <3>1, <3>2, <3>3
  <2> QED BY <2>1, <2>2 DEF PromiseSide, HostRestores, Runs
<1> QED BY <1>1, <1>2 DEF HInv

(* The records that a restore ends with keep what the host knows, but for the recorded *)
(* INF, and end in Microsoft's hands or in a refusal.                                    *)
LEMMA RecordsKeepHInv ==
    ASSUME Inv, HInv, Runs("restore") \/ Runs("rescan") \/ Runs("rebound"),
           NEW h \in {Restored, NotRestored}
    PROVE  /\ h.pc \in {"step", "wait", "answer"} /\ h.located /\ host.located
           /\ h.handoff => host.handoff
           /\ ~h.handoff => h.pc \in {"wait", "answer"}
           /\ ~host.handoff => h.pc = "answer"
           /\ h.resident = host.resident \/ h = Restored
<1>1. host \in Host /\ host.located /\ (~host.handoff => host.then = "answer")
  BY DEF Inv, TypeOK, HInv, HostSide, Runs
<1>2. CASE host.then = "step"
  <2>1. /\ Restored = [Flags("restoreDone") EXCEPT !.package = FALSE, !.resident = FALSE]
        /\ NotRestored = Flags("restoreFailed")
    BY <1>2 DEF Restored, NotRestored
  <2>2. h.pc = "step" /\ h.located = host.located /\ h.handoff = host.handoff
        /\ (h.resident = host.resident \/ h = Restored)
    BY <1>1, <2>1 DEF Flags, Host
  <2> QED BY <1>1, <1>2, <2>2
<1>3. CASE host.then = "rollback"
  <2>1. Restored = [Waiting EXCEPT !.resident = FALSE] /\ NotRestored = Waiting
    BY <1>3 DEF Restored, NotRestored
  <2>2. /\ Waiting.pc = "wait" /\ Waiting.located = host.located
        /\ Waiting.handoff = FALSE /\ Waiting.resident = host.resident
        /\ Restored.pc = "wait" /\ Restored.located = host.located /\ Restored.handoff = FALSE
    BY <2>1 DEF Waiting
  <2>3. h = Restored \/ h = Waiting
    BY <2>1
  <2>4. h.pc = "wait" /\ h.located = host.located /\ ~h.handoff
        /\ (h.resident = host.resident \/ h = Restored)
    BY <2>2, <2>3
  <2> QED BY <1>1, <1>3, <2>4
<1>4. CASE host.then = "answer"
  <2>1. /\ Restored = [host EXCEPT !.pc = "answer", !.resident = FALSE]
        /\ NotRestored = [host EXCEPT !.pc = "answer", !.error = TRUE]
    BY <1>4 DEF Restored, NotRestored
  <2>2. h.pc = "answer" /\ h.located = host.located /\ h.handoff = host.handoff
        /\ (h.resident = host.resident \/ h = Restored)
    BY <1>1, <2>1 DEF Host
  <2> QED BY <1>1, <2>2
<1> QED BY <1>1, <1>2, <1>3, <1>4 DEF Host

(* RestoreMicrosoft and its callers. *)
LEMMA RestoreKeepsHInv ==
    ASSUME Inv, HInv, Restores \/ Rescans \/ Rebounds
    PROVE  HInv'
<1>1. /\ host \in Host /\ pdo \in Pdo /\ gaveUp \in BOOLEAN
      /\ HostSide /\ PdoSide
  BY DEF Inv, TypeOK, HInv
<1>2. UNCHANGED <<world, daily, signalled>>
  BY DEF Restores, Rescans, Rebounds, Beyond
<1>3. Runs("restore") \/ Runs("rescan") \/ Runs("rebound")
  BY DEF Restores, Rescans, Rebounds
<1>4. /\ host.located /\ ~Runs("wait") /\ ~Runs("bind")
      /\ pdo.bound = "Observer" => host.resident \/ gaveUp
      /\ pdo.health = "absent" /\ ~pdo.staged => pdo.bound = "Microsoft"
      /\ pdo.bound = "Observer" => pdo.staged \/ Runs("rescan") \/ gaveUp
      /\ Runs("rescan") => ~pdo.staged \/ gaveUp
      /\ Runs("rebound") => Microsofts
  BY <1>1, <1>3 DEF HostSide, PdoSide, Runs
<1>5. ASSUME NEW h \in {Restored, NotRestored}, host' = h,
             gaveUp => gaveUp', pdo' = pdo, h = Restored => Microsofts',
             Microsofts'
      PROVE  HInv'
  <2>1. /\ h.pc \in {"step", "wait", "answer"} /\ h.located
        /\ h.handoff => host.handoff
        /\ ~h.handoff => h.pc \in {"wait", "answer"}
        /\ ~host.handoff => h.pc = "answer"
    BY <1>3, RecordsKeepHInv
  <2>2. HostSide'
    BY <1>5, <2>1 DEF HostSide, Runs
  <2>3. PdoSide'
    <3>1. pdo'.bound = "Observer" => gaveUp'
      BY <1>5 DEF Microsofts
    <3> QED BY <1>4, <1>5, <2>1, <3>1 DEF PdoSide, Runs
  <2> QED BY <1>2, <1>4, <1>5, <2>1, <2>2, <2>3, RestoreStepKeepsHInv DEF Runs
<1>6. CASE Restores
  <2>1. CASE IsMicrosoftBaseline /\ host' = Restored /\ UNCHANGED <<pdo, gaveUp>>
    BY <1>5, <2>1 DEF IsMicrosoftBaseline, Microsofts
  <2>2. CASE /\ ~host.package
             /\ host' = NotRestored /\ gaveUp' = (gaveUp \/ pdo.staged) /\ UNCHANGED pdo
    <3>1. pdo.bound = "Observer" => pdo.staged \/ gaveUp
      BY <1>4, <1>6 DEF Restores, Runs
    <3>2. Microsofts'
      BY <1>1, <2>2, <3>1 DEF Microsofts, Pdo
    <3> QED BY <1>5, <2>2, <3>2
  <2>3. CASE /\ host' = [host EXCEPT !.pc = "rescan", !.package = TRUE]
             /\ \/ /\ \E bound \in {"Microsoft", IF pdo.health = "absent" THEN "Microsoft" ELSE pdo.bound} :
                         pdo' = [pdo EXCEPT !.staged = FALSE, !.bound = bound]
                   /\ UNCHANGED gaveUp
                \/ /\ gaveUp' = TRUE
                   /\ UNCHANGED pdo
    <3>1. /\ host'.pc = "rescan" /\ host'.located /\ host'.resident = host.resident
          /\ host'.handoff = host.handoff /\ host'.then = host.then
      BY <1>1, <1>4, <2>3 DEF Host
    <3>2. HostSide'
      BY <1>1, <1>6, <3>1 DEF HostSide, Runs, Restores
    <3>3. /\ gaveUp => gaveUp'
          /\ pdo'.bound = "Observer" => pdo.bound = "Observer"
          /\ pdo'.health = "absent" /\ ~pdo'.staged => pdo'.bound = "Microsoft"
          /\ ~pdo'.staged \/ gaveUp'
      BY <1>1, <1>4, <2>3 DEF Pdo
    <3>4. PdoSide'
      BY <1>4, <3>1, <3>3 DEF PdoSide, Runs
    <3> QED BY <1>2, <1>4, <3>1, <3>2, <3>3, <3>4, RestoreStepKeepsHInv DEF Runs
  <2> QED BY <1>6, <2>1, <2>2, <2>3 DEF Restores
<1>7. CASE Rescans
  <2>1. CASE /\ pdo.health = "absent" \/ IsMicrosoftBaseline
             /\ host' = Restored /\ UNCHANGED <<pdo, gaveUp>>
    <3>1. Microsofts'
      BY <1>1, <1>4, <1>7, <2>1 DEF Rescans, IsMicrosoftBaseline, Microsofts
    <3> QED BY <1>5, <2>1, <3>1
  <2>2. CASE host' = NotRestored /\ gaveUp' = TRUE /\ UNCHANGED pdo
    BY <1>5, <2>2 DEF Microsofts
  <2>3. CASE /\ pdo.health # "absent"
             /\ host' = [host EXCEPT !.pc = "rebound"]
             /\ pdo' = [pdo EXCEPT !.bound = IF pdo.staged THEN @ ELSE "Microsoft"]
             /\ UNCHANGED gaveUp
    <3>1. /\ host'.pc = "rebound" /\ host'.located /\ host'.resident = host.resident
          /\ host'.handoff = host.handoff /\ host'.then = host.then
      BY <1>1, <1>4, <2>3 DEF Host
    <3>2. HostSide'
      BY <1>1, <1>7, <3>1 DEF HostSide, Runs, Rescans
    <3>3. /\ pdo'.bound = "Observer" => pdo.bound = "Observer" /\ gaveUp
          /\ pdo'.health # "absent" /\ pdo'.staged = pdo.staged
      BY <1>1, <1>4, <1>7, <2>3 DEF Pdo, Rescans
    <3>4. Microsofts'
      BY <1>1, <2>3, <1>4, <1>7 DEF Pdo, Rescans, Microsofts
    <3>5. PdoSide'
      BY <1>4, <2>3, <3>1, <3>3, <3>4 DEF PdoSide, Runs
    <3> QED BY <1>2, <1>4, <2>3, <3>1, <3>2, <3>3, <3>5, RestoreStepKeepsHInv DEF Runs
  <2> QED BY <1>7, <2>1, <2>2, <2>3 DEF Rescans
<1>8. CASE Rebounds
  <2>1. /\ host' \in {Restored, NotRestored} /\ UNCHANGED pdo
        /\ gaveUp' = (gaveUp \/ ~IsMicrosoftBaseline)
    BY <1>8 DEF Rebounds
  <2>2. Microsofts'
    BY <1>4, <1>8, <2>1 DEF Rebounds, Microsofts
  <2> QED BY <1>5, <2>1, <2>2
<1> QED BY <1>6, <1>7, <1>8

(* A request that is taken up is answered for by the host itself. *)
LEMMA WakesKeepsHInv ==
    ASSUME Inv, HInv, NEW request \in Requests, Wakes(request)
    PROVE  HInv'
<1>1. /\ host \in Host /\ Runs("wait")
      /\ request \in signalled /\ signalled' = signalled \ {request}
      /\ request = "restoreRequest" => "handoffRequest" \notin signalled
      /\ host' = [host EXCEPT !.pc = "read", !.handoff = (request = "handoffRequest")]
      /\ UNCHANGED <<world, daily, pdo, gaveUp>>
  BY DEF Wakes, Beyond, Inv, TypeOK
<1>2. /\ host'.pc = "read" /\ host'.located = host.located /\ host'.resident = host.resident
      /\ host'.handoff = (request = "handoffRequest")
  BY <1>1 DEF Host
<1>3. DailySide' /\ HostSide'
  BY <1>1, <1>2 DEF HInv, DailySide, HostSide, Runs
<1>4. PdoSide'
  BY <1>1, <1>2 DEF HInv, PdoSide, Microsofts, Runs
<1>5. PromiseSide'
  <2>1. CASE request = "handoffRequest"
    <3>1. Promised
      BY <1>1, <2>1 DEF HInv, PromiseSide
    <3>2. Promised'
      BY <1>1, <2>1, <3>1 DEF Promised, Engaged
    <3> QED BY <3>2 DEF PromiseSide
  <2>2. CASE request = "restoreRequest"
    <3>1. "handoffRequest" \notin signalled' /\ ~host'.handoff /\ HostRestores'
      BY <1>1, <1>2, <2>2 DEF HostRestores, Runs
    <3> QED BY <3>1 DEF PromiseSide
  <2> QED BY <2>1, <2>2 DEF Requests
<1> QED BY <1>3, <1>4, <1>5 DEF HInv

(* RunHandoff: every step of it but the calls of RestoreMicrosoft. *)
LEMMA HandoffKeepsHInv ==
    ASSUME Inv, HInv, StepsMachine \/ Stages \/ Binds \/ Rebinds \/ WritesAnswer \/ SignalsAnswer
    PROVE  HInv'
<1>1. /\ host \in Host /\ pdo \in Pdo /\ gaveUp \in BOOLEAN
      /\ HostSide /\ PdoSide
  BY DEF Inv, TypeOK, HInv
<1>2. UNCHANGED <<world, daily>>
  BY DEF StepsMachine, Stages, Binds, Rebinds, WritesAnswer, SignalsAnswer, Beyond
<1>3. host.handoff /\ ~Runs("wait")
  BY <1>1 DEF HostSide, Runs, StepsMachine, Stages, Binds, Rebinds, WritesAnswer, SignalsAnswer
<1>4. /\ Runs("step") \/ Runs("stage") \/ Runs("bind") \/ Runs("rebind") => host.located
      /\ Runs("write") \/ Runs("signal") => host.located \/ host.error
  BY <1>1 DEF HostSide, Runs
<1>5. /\ pdo.bound = "Observer" => host.located
      /\ pdo.bound = "Observer" => host.resident \/ gaveUp
      /\ pdo.health = "absent" /\ ~pdo.staged => pdo.bound = "Microsoft"
      /\ ~Runs("rescan") => (pdo.bound = "Observer" => pdo.staged \/ gaveUp)
      /\ Runs("bind") => host.resident /\ pdo.staged
  BY <1>1 DEF PdoSide
<1>6. /\ Waiting.pc = "wait" /\ Waiting.located = host.located /\ ~Waiting.handoff
      /\ Waiting.resident = host.resident
  BY DEF Waiting
<1>7. \A flag \in Inputs :
        /\ Flags(flag).pc = "step" /\ Flags(flag).located = host.located
        /\ Flags(flag).handoff = host.handoff /\ Flags(flag).resident = host.resident
  BY <1>1 DEF Flags, Host
<1>8. ASSUME host'.pc \in {"wait", "step"}, host'.located = host.located,
             host'.resident = host.resident, host'.pc = "step" => host'.located /\ host'.handoff,
             pdo' = pdo, gaveUp' = gaveUp, ~Runs("rescan")
      PROVE  HostSide' /\ PdoSide'
  BY <1>5, <1>8 DEF HostSide, PdoSide, Runs
<1>9. CASE StepsMachine
  <2> DEFINE t == Step(host.machine, host.flags)
             next == [stage |-> "stage", restore |-> "restore", notify |-> "write",
                      returned |-> "step", degraded |-> "step"]
  <2>1. t.action \in Actions
    BY <1>1, StepType DEF Host
  <2>2. /\ host' = IF t.action = "none" THEN Waiting
                   ELSE [host EXCEPT !.machine = t.machine, !.pc = next[t.action], !.then = "step"]
        /\ UNCHANGED <<signalled, pdo, gaveUp>>
        /\ Runs("step")
    BY <1>9 DEF StepsMachine
  <2> HIDE DEF t
  <2>3. CASE t.action = "none"
    <3>1. HostSide' /\ PdoSide'
      BY <1>6, <1>8, <2>2, <2>3 DEF Runs
    <3> QED BY <1>2, <1>3, <2>2, <3>1, HostStepKeepsHInv
  <2>4. CASE t.action # "none"
    <3>1. next[t.action] \in {"stage", "restore", "write", "step"}
      BY <2>1, <2>4 DEF Actions
    <3>2. /\ host'.pc \in {"stage", "restore", "write", "step"} /\ host'.then = "step"
          /\ host'.located = host.located /\ host'.resident = host.resident
          /\ host'.handoff = host.handoff
      BY <1>1, <2>2, <2>4, <3>1 DEF Host
    <3>3. HostSide'
      BY <1>3, <1>4, <2>2, <3>2 DEF HostSide, Runs
    <3>4. PdoSide'
      BY <1>5, <2>2, <3>2 DEF PdoSide, Runs
    <3> QED BY <1>2, <1>3, <2>2, <3>3, <3>4, HostStepKeepsHInv
  <2> QED BY <2>3, <2>4
<1>10. CASE Stages
  <2>1. CASE host' = Flags("handoffFailed") /\ UNCHANGED <<signalled, pdo, gaveUp>>
    <3>1. "handoffFailed" \in Inputs
      BY DEF Inputs
    <3>2. HostSide' /\ PdoSide'
      BY <1>3, <1>4, <1>7, <1>8, <1>10, <2>1, <3>1 DEF Stages, Runs
    <3> QED BY <1>2, <1>3, <2>1, <3>2, HostStepKeepsHInv
  <2>2. CASE /\ host' = [Flags("handoffFailed") EXCEPT !.package = FALSE, !.resident = FALSE]
             /\ gaveUp' = (gaveUp \/ host.resident)
             /\ UNCHANGED <<signalled, pdo>>
    <3>1. /\ host'.pc = "step" /\ host'.located = host.located /\ host'.handoff = host.handoff
      BY <1>1, <2>2 DEF Flags, Host
    <3>2. HostSide'
      BY <1>3, <1>4, <1>10, <3>1 DEF HostSide, Runs, Stages
    <3>3. pdo.bound = "Observer" => gaveUp'
      BY <1>5, <2>2
    <3>4. PdoSide'
      BY <1>5, <2>2, <3>1, <3>3 DEF PdoSide, Runs
    <3> QED BY <1>2, <1>3, <2>2, <3>2, <3>4, HostStepKeepsHInv
  <2>3. CASE /\ host' = [host EXCEPT !.pc = "bind", !.package = TRUE, !.resident = TRUE]
             /\ \E bound \in {pdo.bound, IF pdo.health = "absent" THEN pdo.bound ELSE "Observer"} :
                   pdo' = [pdo EXCEPT !.staged = TRUE, !.bound = bound]
             /\ UNCHANGED <<signalled, gaveUp>>
    <3>1. /\ host'.pc = "bind" /\ host'.located = host.located /\ host'.handoff = host.handoff
          /\ host'.resident = TRUE
      BY <1>1, <2>3 DEF Host
    <3>2. HostSide'
      BY <1>3, <1>4, <1>10, <3>1 DEF HostSide, Runs, Stages
    <3>3. pdo'.staged = TRUE
      BY <1>1, <2>3 DEF Pdo
    <3>4. PdoSide'
      BY <1>4, <1>10, <3>1, <3>3 DEF PdoSide, Runs, Stages
    <3> QED BY <1>2, <1>3, <2>3, <3>2, <3>4, HostStepKeepsHInv
  <2> QED BY <1>10, <2>1, <2>2, <2>3 DEF Stages
<1>11. CASE Binds
  <2>1. CASE /\ host' \in {Flags("handoffDone"), Flags("handoffFailed")}
             /\ UNCHANGED <<signalled, pdo, gaveUp>>
    <3>1. {"handoffDone", "handoffFailed"} \subseteq Inputs
      BY DEF Inputs
    <3>2. HostSide' /\ PdoSide'
      BY <1>3, <1>4, <1>7, <1>8, <1>11, <2>1, <3>1 DEF Binds, Runs
    <3> QED BY <1>2, <1>3, <2>1, <3>2, HostStepKeepsHInv
  <2>2. CASE /\ host' = [host EXCEPT !.pc = "rebind"]
             /\ \E bound \in {pdo.bound, IF pdo.health = "absent" THEN pdo.bound ELSE "Observer"} :
                   pdo' = [pdo EXCEPT !.bound = bound]
             /\ UNCHANGED <<signalled, gaveUp>>
    <3>1. /\ host'.pc = "rebind" /\ host'.located = host.located /\ host'.handoff = host.handoff
          /\ host'.resident = host.resident
      BY <1>1, <2>2 DEF Host
    <3>2. HostSide'
      BY <1>3, <1>4, <1>11, <3>1 DEF HostSide, Runs, Binds
    <3>3. pdo'.staged /\ host'.resident
      BY <1>1, <1>5, <1>11, <2>2, <3>1 DEF Binds, Pdo
    <3>4. PdoSide'
      BY <1>4, <1>11, <3>1, <3>3 DEF PdoSide, Runs, Binds
    <3> QED BY <1>2, <1>3, <2>2, <3>2, <3>4, HostStepKeepsHInv
  <2> QED BY <1>11, <2>1, <2>2 DEF Binds
<1>12. CASE Rebinds
  <2>1. /\ host' \in {Flags("handoffDone"), Flags("handoffFailed")}
        /\ UNCHANGED <<signalled, pdo, gaveUp>>
    BY <1>12 DEF Rebinds
  <2>2. {"handoffDone", "handoffFailed"} \subseteq Inputs
    BY DEF Inputs
  <2>3. HostSide' /\ PdoSide'
    BY <1>3, <1>4, <1>7, <1>8, <1>12, <2>1, <2>2 DEF Rebinds, Runs
  <2> QED BY <1>2, <1>3, <2>1, <2>3, HostStepKeepsHInv
<1>13. CASE WritesAnswer
  <2>1. Runs("write") /\ UNCHANGED <<signalled, pdo, gaveUp>>
    BY <1>13 DEF WritesAnswer
  <2>2. CASE host' = Waiting
    <3>1. HostSide' /\ PdoSide'
      BY <1>6, <1>8, <2>1, <2>2 DEF Runs
    <3> QED BY <1>2, <1>3, <2>1, <3>1, HostStepKeepsHInv
  <2>3. CASE \/ host' = [host EXCEPT !.pc = "signal"]
             \/ ~host.error /\ host' = [host EXCEPT !.pc = "restore", !.then = "rollback"]
    <3>1. /\ \/ host'.pc = "signal" /\ host'.error = host.error
             \/ host'.pc = "restore" /\ host'.then = "rollback" /\ host.located
          /\ host'.located = host.located /\ host'.handoff = host.handoff
          /\ host'.resident = host.resident
      BY <1>1, <1>4, <2>1, <2>3 DEF Host
    <3>2. HostSide'
      BY <1>3, <1>4, <2>1, <3>1 DEF HostSide, Runs
    <3>3. PdoSide'
      BY <1>5, <2>1, <3>1 DEF PdoSide, Runs
    <3> QED BY <1>2, <1>3, <2>1, <3>2, <3>3, HostStepKeepsHInv
  <2> QED BY <1>13, <2>2, <2>3 DEF WritesAnswer, Unanswered
<1>14. CASE SignalsAnswer
  <2>1. Runs("signal") /\ UNCHANGED <<pdo, gaveUp>> /\ signalled \subseteq signalled'
        /\ signalled' \subseteq signalled \cup {"handoffDone"}
    BY <1>14 DEF SignalsAnswer
  <2>2. DailySide' /\ Promised'
    BY <1>2, <1>3, <2>1 DEF HInv, DailySide, PromiseSide, Promised, Engaged
  <2>3. CASE host' = Waiting \/ (~host.error /\ host' = [host EXCEPT !.pc = "step"])
    <3>1. /\ host'.pc \in {"wait", "step"} /\ host'.located = host.located
          /\ host'.resident = host.resident
          /\ host'.pc = "step" => host'.located /\ host'.handoff
      BY <1>1, <1>3, <1>4, <1>6, <2>1, <2>3 DEF Host
    <3> QED BY <1>8, <2>1, <2>2, <3>1 DEF Runs, HInv, PromiseSide
  <2>4. CASE ~host.error /\ host' = [host EXCEPT !.pc = "restore", !.then = "rollback"]
    <3>1. /\ host'.pc = "restore" /\ host'.then = "rollback" /\ host.located
          /\ host'.located = host.located /\ host'.handoff = host.handoff
          /\ host'.resident = host.resident
      BY <1>1, <1>4, <2>1, <2>4 DEF Host
    <3>2. HostSide'
      BY <1>3, <1>4, <2>1, <3>1 DEF HostSide, Runs
    <3>3. PdoSide'
      BY <1>5, <2>1, <3>1 DEF PdoSide, Runs
    <3> QED BY <2>2, <3>2, <3>3 DEF HInv, PromiseSide
  <2> QED BY <1>14, <2>3, <2>4 DEF SignalsAnswer, Unanswered
<1> QED BY <1>9, <1>10, <1>11, <1>12, <1>13, <1>14

(* ReadRequestInfo, and RunRestore around its call of RestoreMicrosoft. *)
LEMMA RequestKeepsHInv ==
    ASSUME Inv, HInv, ReadsRequest \/ Examines \/ Answers
    PROVE  HInv'
<1>1. /\ host \in Host /\ pdo \in Pdo /\ gaveUp \in BOOLEAN
      /\ HostSide /\ PdoSide
  BY DEF Inv, TypeOK, HInv
<1>2. UNCHANGED <<world, daily, signalled, pdo, gaveUp>>
  BY DEF ReadsRequest, Examines, Answers, Beyond
<1>3. ~Runs("wait") /\ ~Runs("rescan") /\ ~Runs("bind")
  BY DEF ReadsRequest, Examines, Answers, Runs
<1>4. /\ pdo.bound = "Observer" => host.located /\ (host.resident \/ gaveUp) /\ (pdo.staged \/ gaveUp)
      /\ pdo.health = "absent" /\ ~pdo.staged => pdo.bound = "Microsoft"
      /\ Runs("answer") => Microsofts
  BY <1>1, <1>3 DEF PdoSide
<1>5. CASE ReadsRequest
  <2> DEFINE lost == ~host.located /\ pdo.health = "absent"
             pc == CASE lost /\ host.handoff -> "write"
                     [] lost /\ ~host.handoff -> "answer"
                     [] OTHER -> IF host.handoff THEN "step" ELSE "examine"
  <2>1. PICK g \in {file.generation} \cup Unreadable :
          host' = [host EXCEPT !.generation = g, !.flags = {"streaming"},
                     !.located = @ \/ pdo.health # "absent", !.error = lost, !.pc = pc]
    BY <1>5 DEF ReadsRequest
  <2>2. /\ host'.pc = pc /\ host'.located = (host.located \/ pdo.health # "absent")
        /\ host'.error = lost /\ host'.handoff = host.handoff /\ host'.resident = host.resident
    BY <1>1, <2>1 DEF Host
  <2>3. /\ lost \in BOOLEAN /\ host.handoff \in BOOLEAN
        /\ lost => ~host.located
        /\ ~lost => host.located \/ pdo.health # "absent"
    BY <1>1 DEF Host
  <2> HIDE DEF lost
  <2>4. \/ pc = "write" /\ lost /\ host.handoff
        \/ pc = "answer" /\ lost /\ ~host.handoff
        \/ pc = "step" /\ ~lost /\ host.handoff
        \/ pc = "examine" /\ ~lost /\ ~host.handoff
    BY <2>3
  <2> HIDE DEF pc
  <2>5. HostSide'
    BY <2>2, <2>3, <2>4 DEF HostSide, Runs
  <2>6. PdoSide'
    <3>1. pc = "answer" => Microsofts
      BY <1>1, <1>4, <2>3, <2>4 DEF Microsofts, Pdo
    <3> QED BY <1>2, <1>4, <2>2, <2>4, <3>1 DEF PdoSide, Microsofts, Runs
  <2> QED BY <1>2, <1>3, <2>2, <2>4, <2>5, <2>6, RestoreStepKeepsHInv DEF Runs
<1>6. CASE Examines
  <2>1. host.located /\ Runs("examine")
    BY <1>1, <1>6 DEF Examines, HostSide, Runs
  <2>2. ~host.handoff \/ host'.handoff
    BY <1>1, <1>6 DEF Examines, Host
  <2> DEFINE known == host.resident \/ (pdo.bound = "Observer" /\ pdo.health # "absent")
  <2>3. \/ IsMicrosoftBaseline /\ host' = [host EXCEPT !.pc = "answer"]
        \/ host' = [host EXCEPT !.pc = "restore", !.then = "answer", !.package = TRUE]
        \/ ~known /\ host' = [host EXCEPT !.pc = "answer", !.error = TRUE]
    BY <1>6 DEF Examines
  <2>4. /\ host'.located /\ host'.handoff = host.handoff /\ host'.resident = host.resident
        /\ \/ host'.pc = "restore" /\ host'.then = "answer" /\ host'.package
           \/ host'.pc = "answer" /\ Microsofts
    <3>1. IsMicrosoftBaseline => Microsofts
      BY DEF IsMicrosoftBaseline, Microsofts
    <3>2. ~known => Microsofts
      BY <1>1, <1>4 DEF Microsofts, Pdo
    <3> HIDE DEF known
    <3> QED BY <1>1, <2>1, <2>3, <3>1, <3>2 DEF Host
  <2>5. HostSide'
    BY <2>4 DEF HostSide, Runs
  <2>6. PdoSide'
    BY <1>2, <1>4, <2>4 DEF PdoSide, Microsofts, Runs
  <2> QED BY <1>2, <1>3, <2>4, <2>5, <2>6, RestoreStepKeepsHInv DEF Runs
<1>7. CASE Answers
  <2>1. /\ host'.pc = "wait" /\ host'.located = host.located /\ ~host'.handoff
        /\ host'.resident = host.resident
    BY <1>7 DEF Answers, Waiting
  <2>2. Microsofts'
    BY <1>2, <1>4, <1>7 DEF Answers, Microsofts
  <2>3. HostSide'
    BY <2>1 DEF HostSide, Runs
  <2>4. PdoSide'
    BY <1>2, <1>4, <2>1 DEF PdoSide, Microsofts, Runs
  <2> QED BY <1>2, <2>1, <2>2, <2>3, <2>4, RestoreStepKeepsHInv
<1> QED BY <1>5, <1>6, <1>7

(* What the parts say holds of every state, for every number of connections: while an    *)
(* observer is bound the daily host uses it, or a restore is posted or under way, or the *)
(* OS has refused one; and the host that restores knows the package it has to delete.    *)
THEOREM HandoffFits == Spec => []HInv
<1>1. Init => HInv
  <2> SUFFICES ASSUME Init PROVE HInv
    OBVIOUS
  <2>1. /\ daily.pc = "idle" /\ daily.after = "none" /\ ~daily.session
        /\ signalled = {} /\ host.pc = "wait" /\ ~host.handoff
        /\ pdo.bound = "Microsoft"
    BY DEF Init, Pdo
  <2>2. DailySide /\ PromiseSide
    BY <2>1 DEF DailySide, PromiseSide, Runs
  <2>3. HostSide /\ PdoSide
    BY <2>1 DEF HostSide, PdoSide, Microsofts, Runs
  <2> QED BY <2>2, <2>3 DEF HInv
<1>2. Inv /\ HInv /\ [Next]_vars => HInv'
  <2> SUFFICES ASSUME Inv, HInv, [Next]_vars PROVE HInv'
    OBVIOUS
  <2>1. CASE DailyRuns \/ StartsSession
    BY <2>1, DailyKeepsHInv
  <2>2. CASE HostRuns
    BY <2>2, WakesKeepsHInv, RequestKeepsHInv, HandoffKeepsHInv, RestoreKeepsHInv DEF HostRuns
  <2>3. CASE \/ MediaStarts \/ MediaStops \/ Connects \/ Leaves(TRUE) \/ Leaves(FALSE)
             \/ \E health \in {"healthy", "problem", "absent"} : PdoChanges(health)
    BY <2>3, WorldKeepsHInv
  <2>4. CASE UNCHANGED vars
    BY <2>4 DEF vars, HInv, DailySide, PromiseSide, HostSide, PdoSide,
                Promised, Engaged, Microsofts, HostRestores, Runs
  <2> QED BY <2>1, <2>2, <2>3, <2>4 DEF Next
<1> QED BY <1>1, <1>2, InvHolds, PTL DEF Spec

(* No order of the two processes' timeouts, answers and restores leaves the observer to *)
(* itself: when the daily host rests without a session, the PDO is Microsoft's, or its  *)
(* restore is posted or under way, or the OS has refused one (EndMediaSession,          *)
(* RunRestore).                                                                         *)
THEOREM ObserverIsNotForgotten == Spec => []NoForgottenObserver
<1>1. HInv => NoForgottenObserver
  BY DEF HInv, PromiseSide, Promised, Engaged, NoForgottenObserver
<1> QED BY <1>1, HandoffFits, PTL
===============================================================================
