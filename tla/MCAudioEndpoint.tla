--------------------------- MODULE MCAudioEndpoint --------------------------
(***************************************************************************)
(* The endpoint's leases and its render stream, one of them at a time: they *)
(* share the destructive read alone, which the leases model by who owns its *)
(* scratch buffer and the stream by what it takes from the ring.            *)
(***************************************************************************)
EXTENDS EndpointLeases, EndpointStream

CONSTANTS a, b
MCClientOf == [t \in {a, b} |-> t]

VARIABLE part
vars == <<leaseVars, streamVars, part>>
Init == LeaseInit /\ StreamInit /\ part \in {"leases", "stream"}
Next ==
    \/ part = "leases" /\ LeaseNext /\ UNCHANGED <<streamVars, part>>
    \/ part = "stream" /\ StreamNext /\ UNCHANGED <<leaseVars, part>>
FairSpec ==
    /\ Init /\ [][Next]_vars
    /\ WF_vars(part = "leases" /\ TimePasses /\ UNCHANGED <<streamVars, part>>)
    /\ WF_vars(part = "leases" /\ TimerFires /\ UNCHANGED <<streamVars, part>>)
    /\ \A t \in Threads :
        WF_vars(part = "leases" /\ call[t] # Rest /\ PropertyRequest(t) /\ UNCHANGED <<streamVars, part>>)

\* The run's clock plays whole frames, as the proof about the ring assumes.
ASSUME WholeFramesAssumption == WholeFrames
=============================================================================
