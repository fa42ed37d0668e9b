--------------------------- MODULE SharedSignaling ---------------------------
(***************************************************************************)
(* The signaling channel of the Direct-PDO driver has two clients: the     *)
(* render dispatcher and a diagnostic worker that opens, discovers and     *)
(* closes once.  The arbiter leases the channel to one of them; the        *)
(* dispatcher preempts the diagnostic, and a PnP stop ends both.  Each     *)
(* action is the part of a routine between two acquisitions of a lock.     *)
(***************************************************************************)
EXTENDS Naturals

VARIABLES
    lease,      \* the arbiter: who holds the channel, and the render demand
    channel,    \* the signaling owner's state, and who opened it
    diag,       \* the diagnostic owner and its worker
    render,     \* the dispatcher's worker: where it is, whether it has a lease
    pnp         \* how far the adapter's start or stop has come

sharedVars == <<lease, channel, diag, render, pnp>>

Unused == [state |-> "closed", by |-> "none"]
Free == [client |-> "none", demand |-> FALSE]
DiagnosticDown == [started |-> FALSE, state |-> "offline", pending |-> "none", active |-> "none",
                   worker |-> FALSE, cancel |-> FALSE, stop |-> FALSE, found |-> FALSE, closed |-> TRUE, held |-> FALSE]
DiagnosticUp == [DiagnosticDown EXCEPT !.started = TRUE, !.state = "idle"]

SharedInit ==
    /\ lease = Free /\ channel = Unused /\ pnp = "started"
    /\ diag = DiagnosticUp
    /\ render = [pc |-> "rest", held |-> FALSE, cut |-> FALSE, by |-> "none"]
----------------------------------------------------------------------------
\* The arbiter and the channel, for either client.

\* NldDirectPdoArbiterTryAcquire: a diagnostic stands back for a render demand.
MayAcquire(client) ==
    /\ lease.client \in {"none", client}
    /\ client = "diagnostic" => ~lease.demand

\* NldDirectPdoArbiterRelease by the client that holds it.
Returned(l, client) == IF l.client = client THEN [l EXCEPT !.client = "none"] ELSE l

\* NldBthSignalingClose, serialized by the operation mutex: an open in flight
\* is cancelled and drained, a held channel is closed or faults, and a faulted
\* one counts as closed.
Closings(c) == IF c.state = "open" THEN {Unused, [c EXCEPT !.state = "faulted"]} ELSE {Unused}

OpensFor(client) == IF channel.state = "closed" THEN [state |-> "opening", by |-> client] ELSE channel

\* The completion of the asynchronous open.
OpenCompletes ==
    /\ channel.state = "opening"
    /\ channel' \in {[channel EXCEPT !.state = "open"], Unused}
    /\ UNCHANGED <<lease, diag, render, pnp>>
----------------------------------------------------------------------------
\* The diagnostic.

\* RequestDiscover: the lease first, then the owner; a worker that is still
\* owned gives the lease back.
RequestDiscover ==
    /\ diag.started /\ ~diag.stop /\ ~diag.held
    /\ MayAcquire("diagnostic")
    /\ ~diag.cancel /\ ~diag.worker /\ diag.active = "none"
    /\ diag.state \in {"idle", "complete", "faulted"}
    /\ lease' = [lease EXCEPT !.client = "diagnostic"]
    /\ diag' = [diag EXCEPT !.held = TRUE, !.worker = TRUE, !.state = "opening",
                            !.pending = "open", !.found = FALSE]
    /\ UNCHANGED <<channel, render, pnp>>

\* Mutant: the lease goes back with the worker whatever the channel's state.
ReleasesAlways(d, l, c) ==
    /\ diag' = [d EXCEPT !.worker = FALSE, !.held = FALSE]
    /\ lease' = Returned(l, "diagnostic")

\* The worker has nothing left: the lease goes back if the channel is closed.
Rests(d, l, c) ==
    LET free == d.held /\ c.state = "closed"
    IN  /\ diag' = [d EXCEPT !.worker = FALSE, !.held = @ /\ ~free]
        /\ lease' = IF free THEN Returned(l, "diagnostic") ELSE l

\* TakeAction
Takes ==
    /\ diag.worker /\ diag.active = "none"
    /\ IF diag.pending = "none" THEN Rests(diag, lease, channel)
       ELSE diag' = [diag EXCEPT !.active = diag.pending, !.pending = "none"] /\ UNCHANGED lease
    /\ UNCHANGED <<channel, render, pnp>>

\* CompleteAction: a stop or a cancel that came meanwhile closes first.
Completed(d, action, succeeded) ==
    LET done == [d EXCEPT !.active = "none"]
    IN  CASE d.stop /\ action # "cancel" -> [done EXCEPT !.state = "stopping", !.pending = "cancel"]
          [] ~d.stop /\ d.cancel /\ action # "cancel" -> [done EXCEPT !.state = "closing", !.pending = "cancel"]
          [] action = "cancel" /\ d.cancel ->
                [done EXCEPT !.state = IF succeeded THEN "idle" ELSE "faulted", !.cancel = FALSE,
                             !.pending = "none", !.closed = succeeded]
          [] action = "cancel" /\ ~d.cancel ->
                [done EXCEPT !.state = "offline", !.stop = FALSE, !.pending = "none", !.closed = succeeded]
          [] OTHER ->
                CASE action = "open" ->
                        IF succeeded THEN [done EXCEPT !.state = "discovering", !.pending = "discover"]
                        ELSE [done EXCEPT !.state = "faulted"]
                  [] action = "discover" ->
                        [done EXCEPT !.state = "closing", !.pending = "close", !.found = succeeded]
                  [] action = "close" ->
                        [done EXCEPT !.state = IF succeeded /\ d.found THEN "complete" ELSE "faulted",
                                     !.closed = succeeded]

\* Execute, the open: submitted, and judged by the state after the drain; a
\* failed one closes what it left.
SubmitsOpen ==
    /\ diag.active = "open"
    /\ diag' = [diag EXCEPT !.active = "opening"]
    /\ channel' = OpensFor("diagnostic")
    /\ UNCHANGED <<lease, render, pnp>>

JudgesOpen ==
    /\ diag.active = "opening"
    /\ \/ /\ channel.state = "open"
          /\ diag' = Completed(diag, "open", TRUE) /\ UNCHANGED channel
       \/ /\ channel.state # "open"     \* refused, cancelled, or not drained in time
          /\ channel' \in Closings(channel)
          /\ diag' = Completed(diag, "open", FALSE)
    /\ UNCHANGED <<lease, render, pnp>>

\* Execute, the exchange and the two closes.
Discovers ==
    /\ diag.active = "discover"
    /\ \E found \in {FALSE, channel.state = "open"} : diag' = Completed(diag, "discover", found)
    /\ UNCHANGED <<lease, channel, render, pnp>>

Closes ==
    /\ diag.active \in {"close", "cancel"}
    /\ channel' \in Closings(channel)
    /\ diag' = Completed(diag, diag.active, channel'.state = "closed")
    /\ UNCHANGED <<lease, render, pnp>>

DiagnosticSteps == RequestDiscover \/ Takes \/ SubmitsOpen \/ JudgesOpen \/ Discovers \/ Closes
----------------------------------------------------------------------------
\* The dispatcher's worker.

\* The next place; a refusal notes who held the channel.
RenderTo(pc) == render' = [render EXCEPT !.pc = pc, !.by = IF pc = "refused" THEN lease.client ELSE "none"]

\* SetIntent announces the demand, or withdraws it.
DemandChanges ==
    /\ pnp = "started"
    /\ lease' = [lease EXCEPT !.demand = ~@]
    /\ UNCHANGED <<channel, diag, render, pnp>>

TriesToAcquire(otherwise) ==
    IF MayAcquire("render")
    THEN /\ lease' = [lease EXCEPT !.client = "render"]
         /\ render' = [render EXCEPT !.pc = "owner", !.held = TRUE]
    ELSE RenderTo(otherwise) /\ UNCHANGED lease

Acquires ==
    /\ render.pc = "rest" /\ ~render.held /\ lease.demand
    /\ TriesToAcquire("rejected")
    /\ UNCHANGED <<channel, diag, pnp>>

\* The arbiter's snapshot is taken after the refusal.
LooksAtOwner ==
    /\ render.pc = "rejected"
    /\ RenderTo(IF lease.demand /\ lease.client = "diagnostic" /\ ~render.cut THEN "preempt" ELSE "refused")
    /\ UNCHANGED <<lease, channel, diag, pnp>>

\* RuntimePreempt with RequestCancel: an action in flight has its channel
\* closed under it, a waiting one is replaced, and a worker that is gone or
\* already cancelled leaves nothing to cancel.
Preempts ==
    /\ render.pc = "preempt"
    /\ LET asked == diag.started /\ ~diag.stop /\ ~diag.cancel /\ diag.worker
           waits == diag.started /\ ~diag.stop /\ (asked \/ diag.cancel)
       IN  /\ diag' = IF asked THEN [diag EXCEPT !.cancel = TRUE, !.state = "closing", !.pending = "cancel"] ELSE diag
           /\ RenderTo(IF ~waits THEN "refused" ELSE IF asked /\ diag.active # "none" THEN "closing" ELSE "waiting")
    /\ UNCHANGED <<lease, channel, pnp>>

PreemptCloses ==
    /\ render.pc = "closing"
    /\ channel' \in Closings(channel)
    /\ RenderTo("waiting")
    /\ UNCHANGED <<lease, diag, pnp>>

\* The wait for the idle event, or its timeout.
Waited ==
    /\ render.pc = "waiting"
    /\ \/ ~diag.worker /\ RenderTo(IF diag.started /\ diag.state = "idle" /\ ~diag.held THEN "retry" ELSE "refused")
       \/ diag.worker /\ RenderTo("refused")
    /\ UNCHANGED <<lease, channel, diag, pnp>>

\* RetryRender, unless the stop cut the preemption: then what was done last
\* counts, and the worker goes on without a lease.
Retries ==
    /\ render.pc = "retry"
    /\ IF render.cut THEN RenderTo("owner") /\ UNCHANGED lease ELSE TriesToAcquire("refused")
    /\ UNCHANGED <<channel, diag, pnp>>

GivesUp == render.pc = "refused" /\ RenderTo("rest") /\ UNCHANGED <<lease, channel, diag, pnp>>

RenderOpens ==
    /\ render.pc = "owner"
    /\ channel' = OpensFor("render")
    /\ RenderTo("session")
    /\ UNCHANGED <<lease, diag, pnp>>

\* The session ends and closes; ReleaseRenderIfClosed.
RenderCloses ==
    /\ render.pc = "session" /\ channel.state # "opening"
    /\ channel' \in Closings(channel)
    /\ LET free == render.held /\ channel'.state = "closed"
       IN  /\ lease' = IF free THEN Returned(lease, "render") ELSE lease
           /\ render' = [render EXCEPT !.pc = IF channel'.state = "closed" THEN "rest" ELSE "session", !.held = @ /\ ~free]
    /\ UNCHANGED <<diag, pnp>>

RenderSteps ==
    \/ Acquires \/ LooksAtOwner \/ Preempts \/ PreemptCloses \/ Waited \/ Retries
    \/ GivesUp \/ RenderOpens \/ RenderCloses
----------------------------------------------------------------------------
\* Cleanup: the diagnostic, the dispatcher, the arbiter, the channel.

\* RuntimeStop up to the locks' release: cancel-and-close replaces what waits.
StopsDiagnostic ==
    /\ pnp = "started"
    /\ diag' = [diag EXCEPT !.stop = TRUE, !.cancel = FALSE, !.state = "stopping", !.pending = "cancel", !.worker = TRUE]
    /\ pnp' = IF diag.active # "none" THEN "closing" ELSE "waiting"
    /\ UNCHANGED <<lease, channel, render>>

\* The close beside the active action, which may have ended since.
StopCloses ==
    /\ pnp = "closing"
    /\ channel' \in Closings(channel)
    /\ pnp' = "waiting"
    /\ UNCHANGED <<lease, diag, render>>

\* The worker rests: whatever lease is left goes back.
DiagnosticStopped ==
    /\ pnp = "waiting" /\ ~diag.worker
    /\ lease' = IF diag.held THEN Returned(lease, "diagnostic") ELSE lease
    /\ diag' = [diag EXCEPT !.started = FALSE, !.held = FALSE]
    /\ pnp' = "dispatcher"
    /\ UNCHANGED <<channel, render>>

\* NldDirectPdoDispatcherStop: no more demand, and the preemption is cut.
StopsDispatcher ==
    /\ pnp = "dispatcher"
    /\ lease' = [lease EXCEPT !.demand = FALSE]
    /\ render' = [render EXCEPT !.cut = TRUE]
    /\ pnp' = "resting"
    /\ UNCHANGED <<channel, diag>>

\* Its worker rests or its session is closed; then the arbiter is forced
\* offline and the channel stopped, and the adapter may start again.
Stopped ==
    /\ pnp = "resting" /\ render.pc \in {"rest", "session"} /\ channel.state # "opening"
    /\ lease' = Free /\ channel' = Unused /\ pnp' = "started"
    /\ diag' = DiagnosticUp
    /\ render' = [pc |-> "rest", held |-> FALSE, cut |-> FALSE, by |-> "none"]

StopSteps == StopsDiagnostic \/ StopCloses \/ DiagnosticStopped \/ StopsDispatcher \/ Stopped

SharedNext == OpenCompletes \/ DiagnosticSteps \/ DemandChanges \/ RenderSteps \/ StopSteps
----------------------------------------------------------------------------
\* While both clients live, a channel that is not closed belongs to the client
\* that holds the lease, whatever was cancelled, preempted or closed
\* beside it; and what the owner's IsConsistent asks of the diagnostic holds
\* (direct-pdo/README.md:148; nativeldac_direct_pdo_diagnostic_contract.c).
ChannelHasOneClient ==
    /\ channel.state # "closed" /\ diag.started => lease.client = channel.by
    /\ render.held => lease.client = "render"
    /\ diag.held => lease.client = "diagnostic"
    /\ (diag.pending # "none" \/ diag.active # "none") => diag.worker
    /\ diag.stop <=> diag.state = "stopping"
    /\ diag.cancel => diag.state = "closing" /\ diag.worker

\* A render that is still wanted and is refused while the adapter runs is
\* refused because the diagnostic holds the channel (direct-pdo/README.md:169).
\* It does not hold (README.md, Further disagreements).
FreeChannelIsTaken ==
    render.pc = "refused" /\ lease.demand /\ pnp = "started" => render.by = "diagnostic"
=============================================================================
