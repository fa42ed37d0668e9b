--------------------------- MODULE EndpointLeases ---------------------------
(***************************************************************************)
(* Who may do what with the virtual audio endpoint: the PCM owner contract *)
(* (link sessions, consumer leases and the one destructive read), the      *)
(* presence owner contract, and the adapter's link and presence states     *)
(* with the one timer that ends both.  A property request runs on its      *)
(* caller's thread and takes the owner's lock, then the adapter's: two     *)
(* steps, in between which every other thread may run.  Time passes in     *)
(* ticks of the adapter timer's 5000 ms.                                   *)
(***************************************************************************)
EXTENDS Integers, FiniteSets

CONSTANTS
    Threads,          \* threads that send property requests
    ClientOf,         \* the process of each thread
    Reporters,        \* the threads among them that report presence
    Wanted,           \* the link states their clients ask for
    None,             \* no client (owner id 0)
    LinkTimeout,      \* NATIVE_LDAC_LINK_HEARTBEAT_TIMEOUT_100NS
    PresenceLease,    \* NATIVE_LDAC_PRESENCE_(OWNER_)LEASE_TIMEOUT_100NS
    PcmLease          \* NATIVE_LDAC_PCM_OWNER_LEASE_TIMEOUT_100NS

Clients == {ClientOf[t] : t \in Threads}
LinkStates == {"disconnected", "connecting", "connected", "stopping"}

ASSUME LeaseAssumption ==
    /\ None \notin Clients /\ Reporters \subseteq Threads /\ Wanted \subseteq LinkStates
    /\ {LinkTimeout, PresenceLease, PcmLease} \subseteq Nat \ {0}
    /\ LinkTimeout <= PresenceLease /\ PresenceLease <= PcmLease

VARIABLES
    owner,      \* NATIVE_LDAC_PCM_OWNER; a session is its client's own
    holder,     \* NATIVE_LDAC_PRESENCE_OWNER
    link,       \* NATIVE_LDAC_LINK_STATE, by its client, state and age
    presence,   \* NATIVE_LDAC_PRESENCE_STATE and the jack the sink was told of
    timer,      \* ticks until the adapter timer fires, or Idle
    call,       \* the property request of each thread
    scratch,    \* whose bytes are in m_PcmReadScratchBuffer
    alive       \* the clients that still run

leaseVars == <<owner, holder, link, presence, timer, call, scratch, alive>>

Idle == -1
TimerPeriod == 1
Owned == {"link", "consumer"}
Rest == [at |-> "rest", observed |-> "disconnected", wanted |-> "disconnected"]
NoOwner == [id |-> None, age |-> 0, sources |-> {}, reading |-> FALSE]
NoHolder == [id |-> None, age |-> 0]

LeaseInit ==
    /\ owner = NoOwner /\ holder = NoHolder
    /\ link = [state |-> "disconnected", age |-> 0]
    /\ presence = [present |-> FALSE, age |-> 0, jack |-> FALSE]
    /\ timer = Idle
    /\ call = [t \in Threads |-> Rest]
    /\ scratch = None
    /\ alive = Clients

---------------------------------------------------------------------------
(* The PCM owner contract.  A read in progress keeps the lease. *)

ExpiresWhileRead(o) == o.id # None /\ o.age >= PcmLease
IsExpired(o) == o.id # None /\ ~o.reading /\ o.age >= PcmLease
Expired(o) == IF IsExpired(o) THEN NoOwner ELSE o

\* Without one of its sources; the last one ends the ownership.
Without(o, source) ==
    IF o.sources \subseteq {source} THEN NoOwner
    ELSE [o EXCEPT !.sources = o.sources \ {source}]

\* A link the adapter has seen end takes the link source with it.
ClearsOwner(o, observed) ==
    IF observed = "disconnected" /\ ~o.reading THEN NoOwner ELSE o
LinkLess(o, observed) ==
    IF observed = "disconnected" /\ "link" \in o.sources /\ ~o.reading
    THEN Without(o, "link") ELSE o

Holds(o, c, source) == o.id = c /\ source \in o.sources
Acquirable(o, c) == o.id \in {None, c}
Acquired(o, c, source) ==
    [o EXCEPT !.id = c, !.sources = o.sources \cup {source}, !.age = 0]

\* A source that a read depends on is not given up under it.
Releasable(o, c, source) == Holds(o, c, source) /\ ~(o.reading /\ o.sources = {source})

SetLinkAllowed(o, c, wanted) ==
    CASE wanted = "connecting" -> Acquirable(o, c)
      [] wanted = "disconnected" -> Releasable(o, c, "link")
      [] OTHER -> Holds(o, c, "link")
SetLink(o, c, wanted) ==
    CASE wanted = "connecting" -> Acquired(o, c, "link")
      [] wanted = "disconnected" -> Without(o, "link")
      [] OTHER -> [o EXCEPT !.age = 0]

MayRead(o, c, observed) ==
    /\ o.sources # {} /\ ("consumer" \in o.sources \/ observed = "connected")
    /\ o.id = c /\ ~o.reading

---------------------------------------------------------------------------
(* Property requests: the states a handler reads before it takes the       *)
(* owner's lock are those of an earlier moment.                            *)

At(t, at) == call[t].at = at /\ call' = [call EXCEPT ![t] = Rest]

\* A client process ends; the calls it is in are finished by the kernel.
ClientEnds(c) ==
    /\ c \in alive /\ alive' = alive \ {c}
    /\ UNCHANGED <<owner, holder, link, presence, timer, call, scratch>>

AsksLink(t) ==
    /\ call[t] = Rest /\ ClientOf[t] \in alive
    /\ \E wanted \in Wanted :
        call' = [call EXCEPT ![t] = [at |-> "link", observed |-> link.state, wanted |-> wanted]]
    /\ UNCHANGED <<owner, holder, link, presence, timer, scratch, alive>>

\* Under the owner's lock.
DecidesLink(t) ==
    LET o == LinkLess(Expired(owner), call[t].observed)
        allowed == SetLinkAllowed(o, ClientOf[t], call[t].wanted)
    IN /\ call[t].at = "link"
       /\ owner' = IF allowed THEN SetLink(o, ClientOf[t], call[t].wanted) ELSE o
       /\ call' = [call EXCEPT ![t] = IF allowed THEN [@ EXCEPT !.at = "link_write", !.observed = "disconnected"] ELSE Rest]
       /\ UNCHANGED <<holder, link, presence, timer, scratch, alive>>

\* Under the adapter's lock; any request starts the shared timer anew.
WritesLink(t) ==
    /\ At(t, "link_write")
    /\ link' = [state |-> call[t].wanted, age |-> 0]
    /\ timer' = TimerPeriod
    /\ UNCHANGED <<owner, holder, presence, scratch, alive>>

\* Under the presence owner's lock: nobody's presence is ended by another.
DecidesPresence(t) ==
    LET h == IF holder.age >= PresenceLease THEN NoHolder ELSE holder
        c == ClientOf[t]
    IN /\ t \in Reporters /\ call[t] = Rest /\ c \in alive
       /\ \E plug \in BOOLEAN :
            IF h.id \in {None, c}
            THEN /\ holder' = IF plug THEN [id |-> c, age |-> 0] ELSE NoHolder
                 /\ call' = [call EXCEPT ![t].at = IF plug THEN "plug" ELSE "unplug"]
            ELSE holder' = h /\ UNCHANGED call
       /\ UNCHANGED <<owner, link, presence, timer, scratch, alive>>

\* NativeLdacSetPhysicalPresence: the sink hears of every change of the jack.
WritesPresence(t) ==
    /\ \E plug \in BOOLEAN :
        /\ At(t, IF plug THEN "plug" ELSE "unplug")
        /\ presence' = [present |-> plug, age |-> 0, jack |-> plug]
    /\ timer' = TimerPeriod
    /\ UNCHANGED <<owner, holder, link, scratch, alive>>

AcquiresConsumer(t) ==
    LET o == Expired(owner) IN
    /\ call[t] = Rest /\ ClientOf[t] \in alive
    /\ owner' = IF Acquirable(o, ClientOf[t]) THEN Acquired(o, ClientOf[t], "consumer") ELSE o
    /\ UNCHANGED <<holder, link, presence, timer, call, scratch, alive>>

ReleasesConsumer(t) ==
    /\ call[t] = Rest /\ ClientOf[t] \in alive
    /\ Releasable(owner, ClientOf[t], "consumer")
    /\ owner' = Without(owner, "consumer")
    /\ UNCHANGED <<holder, link, presence, timer, call, scratch, alive>>

AsksRead(t) ==
    /\ call[t] = Rest /\ ClientOf[t] \in alive
    /\ call' = [call EXCEPT ![t] = [Rest EXCEPT !.at = "read", !.observed = link.state]]
    /\ UNCHANGED <<owner, holder, link, presence, timer, scratch, alive>>

BeginsRead(t) ==
    LET o == Expired(owner)
        allowed == MayRead(o, ClientOf[t], call[t].observed)
    IN /\ call[t].at = "read"
       /\ owner' = IF allowed THEN [o EXCEPT !.reading = TRUE, !.age = 0] ELSE o
       /\ call' = [call EXCEPT ![t] = IF allowed THEN [Rest EXCEPT !.at = "ring"] ELSE Rest]
       /\ UNCHANGED <<holder, link, presence, timer, scratch, alive>>

\* Under the ring's lock the bytes go to the one scratch buffer ...
FillsScratch(t) ==
    /\ call[t].at = "ring" /\ call' = [call EXCEPT ![t].at = "copy"]
    /\ scratch' = t
    /\ UNCHANGED <<owner, holder, link, presence, timer, alive>>

\* ... and from there, without it, to the caller.
EndsRead(t) ==
    /\ At(t, "copy")
    /\ owner' = IF owner.id = ClientOf[t] /\ owner.reading
                THEN [owner EXCEPT !.reading = FALSE] ELSE owner
    /\ scratch' = None
    /\ UNCHANGED <<holder, link, presence, timer, alive>>

---------------------------------------------------------------------------
(* The adapter timer and time. *)

LinkRemaining == IF link.state = "connected" /\ link.age < LinkTimeout
                 THEN LinkTimeout - link.age ELSE 0
PresenceRemaining == IF presence.present /\ presence.age < PresenceLease
                     THEN PresenceLease - presence.age ELSE 0

NextOfLink == LinkRemaining
NextRemaining ==
    IF PresenceRemaining # 0 /\ (LinkRemaining = 0 \/ PresenceRemaining < LinkRemaining)
    THEN PresenceRemaining ELSE LinkRemaining

\* NativeLdacLinkTimerExpired: ends what is stale and is started again for
\* the state that will be stale first.
TimerFires ==
    /\ timer = 0
    /\ link' = IF link.state = "connected" /\ LinkRemaining = 0
               THEN [state |-> "disconnected", age |-> 0] ELSE link
    /\ presence' = IF presence.present /\ PresenceRemaining = 0
                   THEN [present |-> FALSE, age |-> 0, jack |-> FALSE] ELSE presence
    /\ timer' = IF NextRemaining = 0 THEN Idle ELSE NextRemaining
    /\ UNCHANGED <<owner, holder, call, scratch, alive>>

Older(age) == IF age < PcmLease THEN age + 1 ELSE age
TimePasses ==
    /\ timer # 0
    /\ owner' = IF owner.id = None THEN owner ELSE [owner EXCEPT !.age = Older(owner.age)]
    /\ holder' = IF holder.id = None THEN holder ELSE [holder EXCEPT !.age = Older(holder.age)]
    /\ link' = IF link.state # "connected" THEN link ELSE [link EXCEPT !.age = Older(link.age)]
    /\ presence' = IF presence.present THEN [presence EXCEPT !.age = Older(presence.age)] ELSE presence
    /\ timer' = IF timer = Idle THEN Idle ELSE timer - 1
    /\ UNCHANGED <<call, scratch, alive>>

PropertyRequest(t) ==
    \/ AsksLink(t) \/ DecidesLink(t) \/ WritesLink(t)
    \/ DecidesPresence(t) \/ WritesPresence(t)
    \/ AcquiresConsumer(t) \/ ReleasesConsumer(t)
    \/ AsksRead(t) \/ BeginsRead(t) \/ FillsScratch(t) \/ EndsRead(t)

LeaseNext ==
    \/ \E t \in Threads : PropertyRequest(t)
    \/ \E c \in Clients : ClientEnds(c)
    \/ TimerFires \/ TimePasses

---------------------------------------------------------------------------
Places == {"rest", "link", "link_write", "plug", "unplug", "read", "ring", "copy"}

\* Every record has its fields, an unowned lease no source, and the jack is
\* told what the presence state says.
LeaseTypeOK ==
    /\ owner \in [id : Clients \cup {None}, age : 0..PcmLease, sources : SUBSET Owned, reading : BOOLEAN]
    /\ (owner.id = None) = (owner.sources = {}) /\ (owner.reading => owner.id # None)
    /\ holder \in [id : Clients \cup {None}, age : 0..PcmLease]
    /\ link \in [state : LinkStates, age : 0..PcmLease]
    /\ presence \in [present : BOOLEAN, age : 0..PcmLease, jack : BOOLEAN]
    /\ presence.jack = presence.present
    /\ timer \in Idle..PcmLease
    /\ call \in [Threads -> [at : Places, observed : LinkStates, wanted : LinkStates]]
    /\ scratch \in Threads \cup {None} /\ alive \subseteq Clients

\* The read that is under way owns the one scratch buffer until its bytes are
\* with its caller, however long it takes and whoever else asks: its owner
\* stays the owner, and no other read begins (BeginRead, EndRead).
ReadersOwnIt ==
    \A t \in Threads :
        /\ call[t].at \in {"ring", "copy"} => owner.reading /\ owner.id = ClientOf[t]
        /\ call[t].at = "copy" => scratch = t
ReadKeepsTheEndpoint == LeaseTypeOK /\ ReadersOwnIt

\* A consumer lease ends by its holder's release or by its age: no link
\* session, of its own client or another, takes it away.
ConsumerLeaseHolds ==
    [][\A c \in Clients :
        (owner.id = c /\ "consumer" \in owner.sources /\ owner'.id # c) =>
            \/ owner.age >= PcmLease
            \/ \E t \in Threads : ClientOf[t] = c /\ ReleasesConsumer(t)]_leaseVars

\* Of clients that have all ended the endpoint keeps neither a headset in
\* the jack nor a connected link, though one timer serves both leases.
GoneClientsUnplug == (alive = {}) ~> (~presence.jack /\ link.state # "connected")

\* A link session that was accepted and is within its lease is not given to
\* another client while its link is up (docs/CODE_AUDIT_2026-07-19.md:189).
\* It does not hold (README.md, Further disagreements).
LinkSessionHolds ==
    [][\A c \in Clients :
        (owner.id = c /\ "link" \in owner.sources /\ link.state # "disconnected")
            => owner'.id \in {c, None} \/ owner.age >= PcmLease]_leaseVars
=============================================================================
