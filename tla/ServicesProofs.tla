--------------------------- MODULE ServicesProofs ---------------------------
(***************************************************************************)
(* What the services around the session keep true, for every number of     *)
(* threads, sessions, connections, revisions and packets: the endpoint's   *)
(* leases and its stream, the daily configuration, the monitors, the AVRCP *)
(* filter, the installed agent, the arbiter of the Direct-PDO signaling    *)
(* channel, the adaptive bit rate, the candidate workers and the media     *)
(* process.  They share no state; each has an invariant and theorems of    *)
(* its own.                                                                *)
(***************************************************************************)
EXTENDS EndpointLeases, EndpointStream, DailyConfig, Monitors, AvrcpFilter, LegacyAgent,
        SharedSignaling, AbrController, WorkerProcesses,
        FiniteSetTheorems, WellFoundedInduction, TLAPS

---------------------------------------------------------------------------
(* The endpoint's leases.  One read at a time is under way, and whatever   *)
(* owner the other requests make leaves it the owner it began with.        *)

LeaseSpec == LeaseInit /\ [][LeaseNext]_leaseVars

CallRecords == [at : Places, observed : LinkStates, wanted : LinkStates]
Owners == [id : Clients \cup {None}, age : 0..PcmLease, sources : SUBSET Owned, reading : BOOLEAN]

OwnerFits(o) ==
    /\ o \in Owners
    /\ (o.id = None) = (o.sources = {})
    /\ o.reading => o.id # None

Reads(t) == call[t].at \in {"ring", "copy"}
OneRead == \A t, u \in Threads : Reads(t) /\ Reads(u) => t = u

LeaseInv == LeaseTypeOK /\ ReadersOwnIt /\ OneRead

(* What a step makes of the owner, for the read that is under way. *)
KeepsReader(o, p) == OwnerFits(p) /\ (o.reading => p.reading /\ p.id = o.id)

(* The timeouts are numbers, and the longest bounds every age. *)
LEMMA Timeouts ==
    /\ LinkTimeout \in Nat \ {0} /\ PresenceLease \in Nat \ {0} /\ PcmLease \in Nat \ {0}
    /\ LinkTimeout <= PcmLease /\ PresenceLease <= PcmLease
    /\ None \notin Clients
<1>1. /\ LinkTimeout \in Nat \ {0} /\ PresenceLease \in Nat \ {0} /\ PcmLease \in Nat \ {0}
      /\ LinkTimeout <= PresenceLease /\ PresenceLease <= PcmLease /\ None \notin Clients
  BY LeaseAssumption
<1> QED BY <1>1

(* Nobody owns it. *)
LEMMA NoOwnerFits == OwnerFits(NoOwner)
BY Timeouts DEF OwnerFits, Owners, NoOwner, Owned

(* An owner that is too old is dropped, unless it reads. *)
LEMMA ExpiredKeeps ==
    ASSUME NEW o, OwnerFits(o)
    PROVE  KeepsReader(o, Expired(o))
BY NoOwnerFits DEF KeepsReader, Expired, IsExpired, OwnerFits, Owners

(* So is the link of an owner whose link has ended. *)
LEMMA WithoutFits ==
    ASSUME NEW o, OwnerFits(o), NEW claim \in Owned
    PROVE  /\ OwnerFits(Without(o, claim))
           /\ o.sources # {claim} =>
                /\ Without(o, claim).reading = o.reading
                /\ Without(o, claim).id = o.id
<1>1. CASE o.sources \subseteq {claim}
  <2>1. Without(o, claim) = NoOwner
    BY <1>1 DEF Without
  <2>2. CASE o.sources = {claim}
    BY <2>1, <2>2, NoOwnerFits
  <2>3. CASE o.sources = {}
    BY <2>1, <2>3, NoOwnerFits DEF OwnerFits, NoOwner, Owners
  <2> QED BY <1>1, <2>2, <2>3
<1>2. CASE ~(o.sources \subseteq {claim})
  <2>1. Without(o, claim) = [o EXCEPT !.sources = o.sources \ {claim}]
    BY <1>2 DEF Without
  <2>2. o.sources \ {claim} # {} /\ o.sources # {}
    BY <1>2
  <2> QED BY <2>1, <2>2 DEF OwnerFits, Owners
<1> QED BY <1>1, <1>2

(* A look at a link that has ended. *)
LEMMA LinkLessKeeps ==
    ASSUME NEW o, OwnerFits(o), NEW observed
    PROVE  KeepsReader(o, LinkLess(o, observed))
<1>1. "link" \in Owned
  BY DEF Owned
<1> QED BY <1>1, WithoutFits DEF LinkLess, KeepsReader

(* A client takes what is free or its own. *)
LEMMA AcquiredKeeps ==
    ASSUME NEW o, OwnerFits(o), NEW c \in Clients, Acquirable(o, c), NEW claim \in Owned
    PROVE  KeepsReader(o, Acquired(o, c, claim))
<1>1. Acquired(o, c, claim) \in Owners
  <2>1. 0 \in 0..PcmLease /\ o.sources \cup {claim} \subseteq Owned /\ o \in Owners
    BY Timeouts DEF OwnerFits, Owners
  <2> QED BY <2>1 DEF Acquired, Owners
<1>2. /\ Acquired(o, c, claim).id = c
      /\ Acquired(o, c, claim).sources # {}
      /\ Acquired(o, c, claim).reading = o.reading
  BY DEF Acquired, OwnerFits, Owners
<1> QED BY <1>1, <1>2, Timeouts DEF KeepsReader, OwnerFits, Acquirable

(* It gives up what no read depends on. *)
LEMMA ReleasedKeeps ==
    ASSUME NEW o, OwnerFits(o), NEW c \in Clients, NEW claim \in Owned, Releasable(o, c, claim)
    PROVE  KeepsReader(o, Without(o, claim))
BY WithoutFits DEF KeepsReader, Releasable

(* A link state that is allowed. *)
LEMMA SetLinkKeeps ==
    ASSUME NEW o, OwnerFits(o), NEW c \in Clients, NEW wanted, SetLinkAllowed(o, c, wanted)
    PROVE  KeepsReader(o, SetLink(o, c, wanted))
<1>1. "link" \in Owned
  BY DEF Owned
<1>2. CASE wanted = "connecting"
  BY <1>1, <1>2, AcquiredKeeps DEF SetLinkAllowed, SetLink
<1>3. CASE wanted = "disconnected"
  BY <1>1, <1>3, ReleasedKeeps DEF SetLinkAllowed, SetLink
<1>4. CASE wanted \notin {"connecting", "disconnected"}
  <2>1. SetLink(o, c, wanted) = [o EXCEPT !.age = 0]
    BY <1>4 DEF SetLink
  <2> QED BY <2>1, Timeouts DEF KeepsReader, OwnerFits, Owners
<1> QED BY <1>2, <1>3, <1>4

(* What the invariant says, for the steps that follow. *)
LEMMA LeaseFacts ==
    ASSUME LeaseInv
    PROVE  /\ OwnerFits(owner) /\ call \in [Threads -> CallRecords]
           /\ link \in [state : LinkStates, age : 0..PcmLease]
           /\ \A t \in Threads : ClientOf[t] \in Clients
           /\ Rest \in CallRecords /\ "disconnected" \in LinkStates
BY DEF LeaseInv, LeaseTypeOK, OwnerFits, Owners, CallRecords, Clients, Rest, Places, LinkStates

(* A request that does not read and leaves the reader alone. *)
LEMMA QuietKeeps ==
    ASSUME LeaseInv, NEW t \in Threads, NEW r \in CallRecords, ~Reads(t),
           r.at \notin {"ring", "copy"},
           call' = call \/ call' = [call EXCEPT ![t] = r],
           KeepsReader(owner, owner'), scratch' = scratch,
           holder' \in [id : Clients \cup {None}, age : 0..PcmLease],
           link' \in [state : LinkStates, age : 0..PcmLease],
           presence' \in [present : BOOLEAN, age : 0..PcmLease, jack : BOOLEAN],
           presence'.jack = presence'.present,
           timer' \in Idle..PcmLease, alive' \subseteq Clients
    PROVE  LeaseInv'
<1>1. call' \in [Threads -> CallRecords] /\ \A u \in Threads : Reads(u)' => Reads(u) /\ call'[u] = call[u]
  BY LeaseFacts DEF Reads
<1>2. LeaseTypeOK'
  BY <1>1 DEF LeaseInv, LeaseTypeOK, KeepsReader, OwnerFits, Owners, CallRecords
<1>3. ReadersOwnIt'
  BY <1>1 DEF LeaseInv, ReadersOwnIt, KeepsReader, Reads
<1>4. OneRead'
  BY <1>1 DEF LeaseInv, OneRead
<1> QED BY <1>2, <1>3, <1>4 DEF LeaseInv

(* The requests, one by one. *)
LEMMA LinkRequestsKeep ==
    ASSUME LeaseInv, NEW t \in Threads, AsksLink(t) \/ DecidesLink(t) \/ WritesLink(t)
    PROVE  LeaseInv'
<1> USE LeaseFacts
<1>1. owner.reading => OwnerFits(owner)
  OBVIOUS
<1>2. Wanted \subseteq LinkStates /\ TimerPeriod \in Idle..PcmLease /\ 0 \in 0..PcmLease
  BY LeaseAssumption, Timeouts DEF TimerPeriod, Idle
<1>3. /\ holder \in [id : Clients \cup {None}, age : 0..PcmLease]
      /\ presence \in [present : BOOLEAN, age : 0..PcmLease, jack : BOOLEAN]
      /\ presence.jack = presence.present /\ timer \in Idle..PcmLease /\ alive \subseteq Clients
  BY DEF LeaseInv, LeaseTypeOK
<1>4. KeepsReader(owner, owner)
  BY DEF KeepsReader
<1>5. CASE AsksLink(t)
  <2>1. PICK wanted \in Wanted :
          call' = [call EXCEPT ![t] = [at |-> "link", observed |-> link.state, wanted |-> wanted]]
    BY <1>5 DEF AsksLink
  <2> DEFINE r == [at |-> "link", observed |-> link.state, wanted |-> wanted]
  <2>2. r \in CallRecords /\ r.at \notin {"ring", "copy"} /\ ~Reads(t)
    BY <1>2, <1>5 DEF CallRecords, Places, AsksLink, Reads, Rest
  <2> HIDE DEF r
  <2> QED BY <1>3, <1>4, <1>5, <2>1, <2>2, QuietKeeps DEF AsksLink, r
<1>6. CASE DecidesLink(t)
  <2> DEFINE o == LinkLess(Expired(owner), call[t].observed)
             allowed == SetLinkAllowed(o, ClientOf[t], call[t].wanted)
             r == IF allowed THEN [call[t] EXCEPT !.at = "link_write", !.observed = "disconnected"]
                  ELSE Rest
  <2>1. KeepsReader(owner, o)
    BY ExpiredKeeps, LinkLessKeeps DEF KeepsReader
  <2>2. owner' = IF allowed THEN SetLink(o, ClientOf[t], call[t].wanted) ELSE o
    BY <1>6 DEF DecidesLink
  <2>3. KeepsReader(owner, owner')
    BY <2>1, <2>2, SetLinkKeeps DEF KeepsReader
  <2>4. call' = [call EXCEPT ![t] = r] /\ ~Reads(t)
    BY <1>6 DEF DecidesLink, Reads
  <2>5. r \in CallRecords /\ r.at \notin {"ring", "copy"}
    BY DEF CallRecords, Places, Rest
  <2> HIDE DEF r
  <2> QED BY <1>3, <1>6, <2>3, <2>4, <2>5, QuietKeeps DEF DecidesLink
<1>7. CASE WritesLink(t)
  <2>1. link' \in [state : LinkStates, age : 0..PcmLease]
    BY <1>2, <1>7 DEF WritesLink, CallRecords
  <2>2. call' = [call EXCEPT ![t] = Rest] /\ ~Reads(t) /\ Rest.at \notin {"ring", "copy"}
    BY <1>7 DEF WritesLink, At, Reads, Rest
  <2> QED BY <1>2, <1>3, <1>4, <1>7, <2>1, <2>2, QuietKeeps DEF WritesLink
<1> QED BY <1>5, <1>6, <1>7

(* A presence request that is decided, or its write. *)
LEMMA PresenceRequestsKeep ==
    ASSUME LeaseInv, NEW t \in Threads, DecidesPresence(t) \/ WritesPresence(t)
    PROVE  LeaseInv'
<1> USE LeaseFacts
<1>1. TimerPeriod \in Idle..PcmLease /\ 0 \in 0..PcmLease
  BY Timeouts DEF TimerPeriod, Idle
<1>2. /\ holder \in [id : Clients \cup {None}, age : 0..PcmLease]
      /\ presence \in [present : BOOLEAN, age : 0..PcmLease, jack : BOOLEAN]
      /\ presence.jack = presence.present /\ timer \in Idle..PcmLease /\ alive \subseteq Clients
      /\ NoHolder \in [id : Clients \cup {None}, age : 0..PcmLease]
  BY <1>1 DEF LeaseInv, LeaseTypeOK, NoHolder
<1>3. KeepsReader(owner, owner)
  BY DEF KeepsReader
<1>4. CASE DecidesPresence(t)
  <2>1. PICK plug \in BOOLEAN :
          \/ call' = call
          \/ call' = [call EXCEPT ![t].at = IF plug THEN "plug" ELSE "unplug"]
    BY <1>4 DEF DecidesPresence
  <2> DEFINE r == [call[t] EXCEPT !.at = IF plug THEN "plug" ELSE "unplug"]
  <2>2. r \in CallRecords /\ r.at \notin {"ring", "copy"} /\ ~Reads(t)
    BY <1>4 DEF CallRecords, Places, DecidesPresence, Reads, Rest
  <2>3. call' = call \/ call' = [call EXCEPT ![t] = r]
    BY <2>1
  <2>4. holder' \in [id : Clients \cup {None}, age : 0..PcmLease]
    BY <1>1, <1>2, <1>4 DEF DecidesPresence
  <2> HIDE DEF r
  <2> QED BY <1>2, <1>3, <1>4, <2>2, <2>3, <2>4, QuietKeeps DEF DecidesPresence
<1>5. CASE WritesPresence(t)
  <2>1. PICK plug \in BOOLEAN :
          /\ At(t, IF plug THEN "plug" ELSE "unplug")
          /\ presence' = [present |-> plug, age |-> 0, jack |-> plug]
    BY <1>5 DEF WritesPresence
  <2>2. call' = [call EXCEPT ![t] = Rest] /\ ~Reads(t) /\ Rest.at \notin {"ring", "copy"}
    BY <2>1 DEF At, Reads, Rest
  <2>3. presence' \in [present : BOOLEAN, age : 0..PcmLease, jack : BOOLEAN]
        /\ presence'.jack = presence'.present
    BY <1>1, <2>1
  <2> QED BY <1>1, <1>2, <1>3, <1>5, <2>2, <2>3, QuietKeeps DEF WritesPresence
<1> QED BY <1>4, <1>5

(* The consumer gets or gives back its lease, or asks for a read. *)
LEMMA ConsumerRequestsKeep ==
    ASSUME LeaseInv, NEW t \in Threads, AcquiresConsumer(t) \/ ReleasesConsumer(t) \/ AsksRead(t)
    PROVE  LeaseInv'
<1> USE LeaseFacts
<1>1. /\ holder \in [id : Clients \cup {None}, age : 0..PcmLease]
      /\ presence \in [present : BOOLEAN, age : 0..PcmLease, jack : BOOLEAN]
      /\ presence.jack = presence.present /\ timer \in Idle..PcmLease /\ alive \subseteq Clients
  BY DEF LeaseInv, LeaseTypeOK
<1>2. call[t] = Rest /\ ~Reads(t) /\ Rest.at \notin {"ring", "copy"} /\ "consumer" \in Owned
  BY DEF AcquiresConsumer, ReleasesConsumer, AsksRead, Rest, Reads, Owned
<1>3. CASE AcquiresConsumer(t)
  <2>1. KeepsReader(owner, Expired(owner))
    BY ExpiredKeeps
  <2>2. KeepsReader(owner, owner')
    BY <1>2, <1>3, <2>1, AcquiredKeeps DEF AcquiresConsumer, KeepsReader
  <2> QED BY <1>1, <1>2, <1>3, <2>2, QuietKeeps DEF AcquiresConsumer
<1>4. CASE ReleasesConsumer(t)
  <2>1. KeepsReader(owner, owner')
    BY <1>2, <1>4, ReleasedKeeps DEF ReleasesConsumer
  <2> QED BY <1>1, <1>2, <1>4, <2>1, QuietKeeps DEF ReleasesConsumer
<1>5. CASE AsksRead(t)
  <2> DEFINE r == [Rest EXCEPT !.at = "read", !.observed = link.state]
  <2>1. r \in CallRecords /\ r.at \notin {"ring", "copy"}
    BY DEF CallRecords, Places, Rest
  <2>2. call' = [call EXCEPT ![t] = r] /\ KeepsReader(owner, owner')
    BY <1>5 DEF AsksRead, KeepsReader
  <2> HIDE DEF r
  <2> QED BY <1>1, <1>2, <1>5, <2>1, <2>2, QuietKeeps DEF AsksRead
<1> QED BY <1>3, <1>4, <1>5

(* A read begins when no other does, owns the scratch buffer when it fills it, *)
(* and is over before the next.                                                *)
LEMMA ReadsKeep ==
    ASSUME LeaseInv, NEW t \in Threads, BeginsRead(t) \/ FillsScratch(t) \/ EndsRead(t)
    PROVE  LeaseInv'
<1> USE LeaseFacts
<1>1. /\ holder \in [id : Clients \cup {None}, age : 0..PcmLease]
      /\ presence \in [present : BOOLEAN, age : 0..PcmLease, jack : BOOLEAN]
      /\ presence.jack = presence.present /\ timer \in Idle..PcmLease /\ alive \subseteq Clients
      /\ scratch \in Threads \cup {None}
  BY DEF LeaseInv, LeaseTypeOK
<1>2. CASE BeginsRead(t)
  <2> DEFINE o == Expired(owner)
             allowed == MayRead(o, ClientOf[t], call[t].observed)
             r == [Rest EXCEPT !.at = "ring"]
  <2>1. KeepsReader(owner, o) /\ ~Reads(t)
    BY <1>2, ExpiredKeeps DEF BeginsRead, Reads
  <2>2. CASE ~allowed
    <3>1. owner' = o /\ call' = [call EXCEPT ![t] = Rest] /\ Rest.at \notin {"ring", "copy"}
      BY <1>2, <2>2 DEF BeginsRead, Rest
    <3> QED BY <1>1, <1>2, <2>1, <3>1, QuietKeeps DEF BeginsRead
  <2>3. CASE allowed
    <3>1. owner' = [o EXCEPT !.reading = TRUE, !.age = 0] /\ call' = [call EXCEPT ![t] = r]
      BY <1>2, <2>3 DEF BeginsRead
    <3>2. ~o.reading /\ o.id = ClientOf[t] /\ o.sources # {}
      BY <2>3 DEF MayRead
    <3>3. ~owner.reading
      BY <2>1, <3>2 DEF KeepsReader
    <3>4. \A u \in Threads : ~Reads(u)
      BY <3>3 DEF LeaseInv, ReadersOwnIt, Reads
    <3>5. OwnerFits(owner') /\ owner'.reading /\ owner'.id = ClientOf[t]
      <4>1. o \in Owners /\ (o.id = None) = (o.sources = {}) /\ 0 \in 0..PcmLease
        BY <2>1, Timeouts DEF KeepsReader, OwnerFits
      <4> HIDE DEF o
      <4>2. /\ owner' \in Owners /\ owner'.reading
            /\ owner'.id = o.id /\ owner'.sources = o.sources
        BY <3>1, <4>1 DEF Owners
      <4> QED BY <3>2, <4>1, <4>2 DEF OwnerFits
    <3>6. r \in CallRecords /\ r.at = "ring"
      BY DEF CallRecords, Places, Rest
    <3>7. call' \in [Threads -> CallRecords] /\ call'[t].at = "ring"
          /\ \A u \in Threads : u # t => call'[u] = call[u]
      BY <3>1, <3>6
    <3>8. LeaseTypeOK'
      BY <1>1, <1>2, <3>5, <3>7 DEF LeaseTypeOK, OwnerFits, Owners, CallRecords, BeginsRead
    <3>9. ReadersOwnIt' /\ OneRead'
      BY <3>4, <3>5, <3>7 DEF ReadersOwnIt, OneRead, Reads
    <3> QED BY <3>8, <3>9 DEF LeaseInv
  <2> QED BY <2>2, <2>3
<1>3. CASE FillsScratch(t)
  <2>1. call' \in [Threads -> CallRecords] /\ call'[t].at = "copy"
        /\ \A u \in Threads : u # t => call'[u] = call[u]
    BY <1>3 DEF FillsScratch, CallRecords, Places
  <2>2. Reads(t) /\ \A u \in Threads : Reads(u) => u = t
    BY <1>3 DEF FillsScratch, Reads, LeaseInv, OneRead
  <2>3. LeaseTypeOK'
    BY <1>1, <1>3, <2>1 DEF LeaseTypeOK, OwnerFits, Owners, CallRecords, FillsScratch
  <2>4. ReadersOwnIt' /\ OneRead'
    BY <1>3, <2>1, <2>2 DEF ReadersOwnIt, OneRead, Reads, LeaseInv, FillsScratch
  <2> QED BY <2>3, <2>4 DEF LeaseInv
<1>4. CASE EndsRead(t)
  <2>1. call' \in [Threads -> CallRecords] /\ call'[t].at = "rest"
        /\ \A u \in Threads : u # t => call'[u] = call[u]
    BY <1>4 DEF EndsRead, At, Rest
  <2>2. \A u \in Threads : ~Reads(u)'
    BY <1>4, <2>1 DEF EndsRead, At, Reads, LeaseInv, OneRead
  <2>3. OwnerFits(owner')
    BY <1>4 DEF EndsRead, OwnerFits, Owners
  <2>4. LeaseTypeOK'
    BY <1>1, <1>4, <2>1, <2>3 DEF LeaseTypeOK, OwnerFits, Owners, CallRecords, EndsRead
  <2>5. ReadersOwnIt' /\ OneRead'
    BY <2>2 DEF ReadersOwnIt, OneRead, Reads
  <2> QED BY <2>4, <2>5 DEF LeaseInv
<1> QED BY <1>2, <1>3, <1>4

(* Time, the timer and the end of a client touch no read. *)
LEMMA TimeKeeps ==
    ASSUME LeaseInv, TimerFires \/ TimePasses \/ (\E c \in Clients : ClientEnds(c))
    PROVE  LeaseInv'
<1> USE LeaseFacts
<1>1. \A age \in 0..PcmLease : Older(age) \in 0..PcmLease
  BY Timeouts DEF Older
<1>2. /\ LinkRemaining \in 0..PcmLease /\ PresenceRemaining \in 0..PcmLease
      /\ NextRemaining \in Idle..PcmLease /\ Idle \in Idle..PcmLease /\ 0 \in 0..PcmLease
  BY Timeouts DEF LinkRemaining, PresenceRemaining, NextRemaining, Idle, LeaseInv, LeaseTypeOK
<1>3. /\ link' \in [state : LinkStates, age : 0..PcmLease]
      /\ holder' \in [id : Clients \cup {None}, age : 0..PcmLease]
  BY <1>1, <1>2 DEF TimerFires, TimePasses, ClientEnds, LeaseInv, LeaseTypeOK
<1>4. /\ presence' \in [present : BOOLEAN, age : 0..PcmLease, jack : BOOLEAN]
      /\ presence'.jack = presence'.present
  <2> DEFINE Presences == [present : BOOLEAN, age : 0..PcmLease, jack : BOOLEAN]
  <2>1. presence \in Presences /\ presence.jack = presence.present
    BY DEF LeaseInv, LeaseTypeOK
  <2>2. Older(presence.age) \in 0..PcmLease
    BY <1>1, <2>1
  <2>3. \/ presence' = presence
        \/ presence' = [present |-> FALSE, age |-> 0, jack |-> FALSE]
        \/ presence' = [presence EXCEPT !.age = Older(presence.age)]
    BY DEF TimerFires, TimePasses, ClientEnds
  <2>4. CASE presence' = [present |-> FALSE, age |-> 0, jack |-> FALSE]
    BY <1>2, <2>4
  <2>5. CASE presence' = [presence EXCEPT !.age = Older(presence.age)]
    BY <2>1, <2>2, <2>5
  <2> QED BY <2>1, <2>3, <2>4, <2>5
<1>5. timer' \in Idle..PcmLease
  <2>1. timer \in Idle..PcmLease
    BY DEF LeaseInv, LeaseTypeOK
  <2>2. CASE TimerFires
    BY <1>2, <2>2 DEF TimerFires
  <2>3. CASE TimePasses
    BY <1>2, <2>1, <2>3, Timeouts DEF TimePasses, Idle
  <2> QED BY <2>1, <2>2, <2>3 DEF ClientEnds
<1>6. OwnerFits(owner') /\ owner'.reading = owner.reading /\ owner'.id = owner.id
  BY <1>1 DEF TimerFires, TimePasses, ClientEnds, OwnerFits, Owners
<1>7. call' = call /\ scratch' = scratch /\ alive' \subseteq Clients
  BY DEF TimerFires, TimePasses, ClientEnds, LeaseInv, LeaseTypeOK
<1>8. LeaseTypeOK'
  BY <1>3, <1>4, <1>5, <1>6, <1>7 DEF LeaseInv, LeaseTypeOK, OwnerFits, Owners
<1>9. ReadersOwnIt' /\ OneRead'
  BY <1>6, <1>7 DEF LeaseInv, ReadersOwnIt, OneRead, Reads
<1> QED BY <1>8, <1>9 DEF LeaseInv

(* So it is an invariant. *)
LEMMA LeaseInvHolds == LeaseSpec => []LeaseInv
<1>1. LeaseInit => LeaseInv
  <2> SUFFICES ASSUME LeaseInit PROVE LeaseInv
    OBVIOUS
  <2>1. LeaseTypeOK
    BY NoOwnerFits, Timeouts
       DEF LeaseInit, LeaseTypeOK, OwnerFits, Owners, NoOwner, NoHolder, Rest, Places, LinkStates, Idle
  <2>2. ReadersOwnIt /\ OneRead
    BY DEF LeaseInit, ReadersOwnIt, OneRead, Reads, Rest
  <2> QED BY <2>1, <2>2 DEF LeaseInv
<1>2. LeaseInv /\ [LeaseNext]_leaseVars => LeaseInv'
  <2> SUFFICES ASSUME LeaseInv, [LeaseNext]_leaseVars PROVE LeaseInv'
    OBVIOUS
  <2>1. CASE \E t \in Threads : PropertyRequest(t)
    BY <2>1, LinkRequestsKeep, PresenceRequestsKeep, ConsumerRequestsKeep, ReadsKeep
       DEF PropertyRequest
  <2>2. CASE TimerFires \/ TimePasses \/ (\E c \in Clients : ClientEnds(c))
    BY <2>2, TimeKeeps
  <2>3. CASE UNCHANGED leaseVars
    BY <2>3 DEF leaseVars, LeaseInv, LeaseTypeOK, ReadersOwnIt, OneRead, Reads
  <2> QED BY <2>1, <2>2, <2>3 DEF LeaseNext
<1> QED BY <1>1, <1>2, PTL DEF LeaseSpec

(* BeginRead and EndRead (nativeldac_pcm_owner_contract.c): the read that is under way keeps *)
(* the endpoint's one scratch buffer and its owner, for every number of threads and clients. *)
THEOREM ReadKeepsIt == LeaseSpec => []ReadKeepsTheEndpoint
<1>1. LeaseInv => ReadKeepsTheEndpoint
  BY DEF LeaseInv, ReadKeepsTheEndpoint
<1> QED BY <1>1, LeaseInvHolds, PTL

(* What a call makes of an owner that has a consumer: nothing takes the lease from it but  *)
(* its age.                                                                                *)
Consumes(o) == o.id # None /\ "consumer" \in o.sources
KeepsConsumer(o, p) == Consumes(o) /\ o.age < PcmLease => Consumes(p) /\ p.id = o.id /\ p.age < PcmLease

(* No other source takes a lease from the consumer that has it. *)
LEMMA ConsumerStays ==
    ASSUME NEW o, OwnerFits(o), NEW c \in Clients, NEW x
    PROVE  /\ KeepsConsumer(o, Expired(o))
           /\ KeepsConsumer(o, LinkLess(o, x))
           /\ SetLinkAllowed(o, c, x) => KeepsConsumer(o, SetLink(o, c, x))
           /\ Acquirable(o, c) => KeepsConsumer(o, Acquired(o, c, "consumer"))
<1>1. 0 < PcmLease /\ o.age \in 0..PcmLease /\ PcmLease \in Nat
  BY Timeouts DEF OwnerFits, Owners
<1>2. KeepsConsumer(o, Expired(o))
  BY <1>1 DEF KeepsConsumer, Expired, IsExpired
<1>3. KeepsConsumer(o, Without(o, "link"))
  <2>1. SUFFICES ASSUME Consumes(o) PROVE Without(o, "link") = [o EXCEPT !.sources = o.sources \ {"link"}]
    BY DEF KeepsConsumer, Consumes, OwnerFits, Owners
  <2> QED BY <2>1 DEF Without, Consumes
<1>4. KeepsConsumer(o, LinkLess(o, x))
  BY <1>3 DEF KeepsConsumer, LinkLess
<1>5. ASSUME Acquirable(o, c), NEW claim \in Owned PROVE KeepsConsumer(o, Acquired(o, c, claim))
  BY <1>1, <1>5 DEF KeepsConsumer, Consumes, Acquirable, Acquired, OwnerFits, Owners
<1>6. ASSUME SetLinkAllowed(o, c, x) PROVE KeepsConsumer(o, SetLink(o, c, x))
  <2>1. CASE x = "connecting"
    <3>1. SetLink(o, c, x) = Acquired(o, c, "link") /\ Acquirable(o, c) /\ "link" \in Owned
      BY <1>6, <2>1 DEF SetLinkAllowed, SetLink, Owned
    <3> QED BY <1>5, <3>1
  <2>2. CASE x = "disconnected"
    BY <1>3, <2>2 DEF SetLink
  <2>3. CASE x \notin {"connecting", "disconnected"}
    <3>1. SetLink(o, c, x) = [o EXCEPT !.age = 0]
      BY <2>3 DEF SetLink
    <3> QED BY <1>1, <3>1 DEF KeepsConsumer, Consumes, OwnerFits, Owners
  <2> QED BY <2>1, <2>2, <2>3
<1>7. "consumer" \in Owned
  BY DEF Owned
<1> QED BY <1>2, <1>4, <1>5, <1>6, <1>7

(* AcquireConsumer and SetLink (nativeldac_pcm_owner_contract.c): a consumer lease ends by   *)
(* its holder's release or its age, however many clients ask for the endpoint or its link.   *)
THEOREM ConsumerKeepsIt == LeaseSpec => ConsumerLeaseHolds
<1> DEFINE Held ==
      \A c \in Clients :
        (owner.id = c /\ "consumer" \in owner.sources /\ owner'.id # c) =>
            \/ owner.age >= PcmLease
            \/ \E t \in Threads : ClientOf[t] = c /\ ReleasesConsumer(t)
<1>1. LeaseInv /\ [LeaseNext]_leaseVars => [Held]_leaseVars
  <2> SUFFICES ASSUME LeaseInv, LeaseNext PROVE Held
    BY DEF leaseVars
  <2>1. owner.age \in 0..PcmLease /\ PcmLease \in Nat /\ OwnerFits(owner)
    BY LeaseFacts, Timeouts DEF OwnerFits, Owners
  <2>2. ASSUME KeepsConsumer(owner, owner') PROVE Held
    BY <2>1, <2>2, Timeouts DEF KeepsConsumer, Consumes
  <2>3. ASSUME NEW t \in Threads, DecidesLink(t) PROVE KeepsConsumer(owner, owner')
    <3> DEFINE o == Expired(owner)
               p == LinkLess(o, call[t].observed)
               q == SetLink(p, ClientOf[t], call[t].wanted)
    <3>1. OwnerFits(o) /\ OwnerFits(p) /\ ClientOf[t] \in Clients
      BY <2>1, LeaseFacts, ExpiredKeeps, LinkLessKeeps DEF KeepsReader
    <3>2. /\ KeepsConsumer(owner, o) /\ KeepsConsumer(o, p)
          /\ SetLinkAllowed(p, ClientOf[t], call[t].wanted) => KeepsConsumer(p, q)
      BY <2>1, <3>1, ConsumerStays
    <3>3. \/ owner' = p
          \/ owner' = q /\ SetLinkAllowed(p, ClientOf[t], call[t].wanted)
      BY <2>3 DEF DecidesLink
    <3> QED BY <3>2, <3>3 DEF KeepsConsumer
  <2>4. ASSUME NEW t \in Threads, AcquiresConsumer(t) PROVE KeepsConsumer(owner, owner')
    <3> DEFINE o == Expired(owner)
    <3>1. OwnerFits(o) /\ ClientOf[t] \in Clients
      BY <2>1, LeaseFacts, ExpiredKeeps DEF KeepsReader
    <3>2. /\ KeepsConsumer(owner, o)
          /\ Acquirable(o, ClientOf[t]) => KeepsConsumer(o, Acquired(o, ClientOf[t], "consumer"))
      BY <2>1, <3>1, ConsumerStays
    <3> QED BY <2>4, <3>2 DEF AcquiresConsumer, KeepsConsumer
  <2>5. ASSUME NEW t \in Threads, BeginsRead(t) PROVE KeepsConsumer(owner, owner')
    <3> DEFINE o == Expired(owner)
    <3>1. OwnerFits(o) /\ KeepsConsumer(owner, o) /\ 0 < PcmLease
      BY <2>1, LeaseFacts, ExpiredKeeps, ConsumerStays, Timeouts DEF KeepsReader
    <3>2. owner' = o \/ owner' = [o EXCEPT !.reading = TRUE, !.age = 0]
      BY <2>5 DEF BeginsRead
    <3> QED BY <3>1, <3>2 DEF KeepsConsumer, Consumes, OwnerFits, Owners
  <2>6. ASSUME NEW t \in Threads, ReleasesConsumer(t) PROVE Held
    BY <2>6 DEF ReleasesConsumer, Releasable, Holds
  <2>7. CASE owner'.id = owner.id
    BY <2>7
  <2>8. ASSUME NEW t \in Threads,
               \/ AsksLink(t) \/ WritesLink(t) \/ DecidesPresence(t) \/ WritesPresence(t)
               \/ AsksRead(t) \/ FillsScratch(t) \/ EndsRead(t)
        PROVE  owner'.id = owner.id
    BY <2>1, <2>8 DEF AsksLink, WritesLink, DecidesPresence, WritesPresence, AsksRead, FillsScratch,
       EndsRead, OwnerFits, Owners
  <2>9. CASE TimerFires \/ TimePasses \/ (\E c \in Clients : ClientEnds(c))
    <3>1. owner'.id = owner.id
      BY <2>1, <2>9 DEF TimerFires, TimePasses, ClientEnds, OwnerFits, Owners
    <3> QED BY <2>7, <3>1
  <2>10. ASSUME NEW t \in Threads, PropertyRequest(t) PROVE Held
    BY <2>10, <2>2, <2>3, <2>4, <2>5, <2>6, <2>7, <2>8 DEF PropertyRequest
  <2> QED BY <2>9, <2>10 DEF LeaseNext
<1> QED BY <1>1, LeaseInvHolds, PTL DEF LeaseSpec, ConsumerLeaseHolds

---------------------------------------------------------------------------
(* The daily configuration.  Requests count upward, and revision 0 is the  *)
(* command line's, so that of two that are equal in revision the pipe, the *)
(* loop and the file mean the same one.                                    *)

ConfigSpec == ConfigInit /\ [][ConfigNext]_configVars

\* A request that was sent, or none.
Sent(r) == r = NoRequest \/ (r \in Requests /\ r.revision # 0)
\* What the loop and the pipe's thread hold.
Held(r) == r \in Requests /\ (r.revision = 0 => r = Initial)

ConfigFits ==
    /\ Sent(file) /\ Sent(asking) /\ Sent(server.pending)
    /\ shown \in [requested : 0..MaxRevision, applied : 0..MaxRevision]
    /\ server \in [requested : Requests, applied : Requests, pending : Requests \cup {NoRequest}]
    /\ daily \in [up : BOOLEAN, requested : Requests, applied : Requests,
                  playing : Requests \cup {NoRequest}]
    /\ Held(server.requested) /\ Held(daily.requested) /\ Held(daily.applied)

\* Nobody is ahead of what was accepted.
InOrder ==
    daily.up => /\ daily.applied.revision <= server.requested.revision
                /\ server.pending.revision <= server.requested.revision

ConfigInv == ConfigFits /\ QualityIsAgreed /\ InOrder

(* The first request, and that none is no request. *)
LEMMA Revisions ==
    /\ MaxRevision \in Nat
    /\ Held(Initial) /\ Initial.revision = 0
    /\ NoRequest \notin Requests /\ NoRequest.revision = -1
    /\ \A r \in Requests : r.revision \in 0..MaxRevision
BY ConfigAssumption DEF Held, Initial, Requests, NoRequest

(* The daily host starts with the file it can read, or with nothing promised. *)
LEMMA DailyStartsKeep ==
    ASSUME ConfigInv, DailyStarts
    PROVE  ConfigInv'
<1> USE Revisions
<1>1. PICK loaded \in {file, NoRequest} :
        LET request == IF loaded = NoRequest THEN Initial ELSE loaded
        IN  /\ server' = [requested |-> request, applied |-> request, pending |-> NoRequest]
            /\ daily' = [up |-> TRUE, requested |-> request, applied |-> request, playing |-> NoRequest]
            /\ shown' = Shown(daily')
  BY DEF DailyStarts
<1> DEFINE request == IF loaded = NoRequest THEN Initial ELSE loaded
<1>2. file' = file /\ asking' = asking /\ Sent(file) /\ Sent(asking)
  BY DEF DailyStarts, ConfigInv, ConfigFits
<1>3. request \in Requests /\ Held(request) /\ request \in {Initial, file}
  BY <1>2 DEF Sent, Held
<1>4. request.revision = file.revision => request = file
  BY <1>2, <1>3 DEF Sent
<1>5. /\ server' = [requested |-> request, applied |-> request, pending |-> NoRequest]
      /\ daily' = [up |-> TRUE, requested |-> request, applied |-> request, playing |-> NoRequest]
      /\ shown' = Shown(daily')
  BY <1>1
<1> HIDE DEF request
<1>6. ConfigFits'
  BY <1>2, <1>3, <1>5 DEF ConfigFits, Shown, Sent
<1>7. NoRequest.revision = file.revision => NoRequest = file
  BY <1>2 DEF Sent
<1>8. QualityIsAgreed' /\ InOrder'
  BY <1>2, <1>3, <1>4, <1>5, <1>7 DEF QualityIsAgreed, InOrder
<1> QED BY <1>6, <1>8 DEF ConfigInv

(* A request of the panel is written before it is answered. *)
LEMMA HandleKeeps ==
    ASSUME ConfigInv, Handle
    PROVE  ConfigInv'
<1> USE Revisions DEF ConfigInv
<1>1. daily.up /\ asking # NoRequest /\ asking' = NoRequest /\ daily' = daily /\ shown' = shown
  BY DEF Handle
<1>2. asking \in Requests /\ Held(asking) /\ Sent(asking) /\ Sent(NoRequest)
  BY <1>1 DEF ConfigFits, Sent, Held
<1>3. CASE UNCHANGED <<file, server, promised>>
  BY <1>1, <1>2, <1>3 DEF ConfigFits, QualityIsAgreed, InOrder
<1>4. CASE /\ asking.revision > server.requested.revision
           /\ file' = asking
           /\ server' = [server EXCEPT !.requested = asking, !.pending = asking]
  <2>1. /\ server'.requested = asking /\ server'.pending = asking /\ server'.applied = server.applied
        /\ server' \in [requested : Requests, applied : Requests, pending : Requests \cup {NoRequest}]
    BY <1>2, <1>4 DEF ConfigFits
  <2>2. ConfigFits'
    BY <1>1, <1>2, <1>4, <2>1 DEF ConfigFits
  <2>3. /\ daily.requested.revision < asking.revision
        /\ daily.applied.revision < asking.revision
    BY <1>1, <1>2, <1>4 DEF ConfigFits, QualityIsAgreed, InOrder
  <2>4. QualityIsAgreed' /\ InOrder'
    BY <1>1, <1>2, <1>4, <2>1, <2>3 DEF QualityIsAgreed, InOrder, ConfigFits
  <2> QED BY <2>2, <2>4
<1> QED BY <1>3, <1>4 DEF Handle

(* What the loop takes is what was accepted last before it looked. *)
LEMMA LoopTakesKeeps ==
    ASSUME ConfigInv, LoopTakes
    PROVE  ConfigInv'
<1> USE Revisions DEF ConfigInv
<1>1. server.pending \in Requests /\ Held(server.pending)
  BY DEF LoopTakes, ConfigFits, Sent, Held
<1>2. /\ daily.up /\ daily' = [daily EXCEPT !.requested = server.pending]
      /\ server' = [server EXCEPT !.pending = NoRequest]
      /\ shown' = Shown(daily') /\ UNCHANGED <<file, asking>>
  BY DEF LoopTakes
<1>3. /\ daily' \in [up : BOOLEAN, requested : Requests, applied : Requests,
                     playing : Requests \cup {NoRequest}]
      /\ daily'.up /\ daily'.requested = server.pending /\ daily'.applied = daily.applied
      /\ daily'.playing = daily.playing
  BY <1>1, <1>2 DEF ConfigFits
<1>4. /\ server' \in [requested : Requests, applied : Requests, pending : Requests \cup {NoRequest}]
      /\ server'.requested = server.requested /\ server'.applied = server.applied
      /\ server'.pending = NoRequest
  BY <1>2 DEF ConfigFits
<1>5. ConfigFits'
  BY <1>1, <1>2, <1>3, <1>4 DEF ConfigFits, Shown, Sent
<1>6. NoRequest.revision = file.revision => NoRequest = file
  BY DEF ConfigFits, Sent
<1>7. QualityIsAgreed' /\ InOrder'
  BY <1>1, <1>2, <1>3, <1>4, <1>6 DEF QualityIsAgreed, InOrder, ConfigFits
<1> QED BY <1>5, <1>7

(* A request of the revision that was asked for last is that request. *)
LEMMA LoopMarksKeeps ==
    ASSUME ConfigInv, LoopMarks
    PROVE  ConfigInv'
<1> USE Revisions DEF ConfigInv
<1>1. /\ daily.up /\ daily.playing = NoRequest
      /\ server' = MarkApplied(server, daily.requested.revision)
      /\ shown' = Shown(daily') /\ UNCHANGED <<file, asking>>
  BY DEF LoopMarks
<1>2. CASE server.requested.revision = daily.requested.revision
  <2>1. server.requested = daily.requested
    BY <1>1, <1>2 DEF QualityIsAgreed, ConfigFits, Held, Sent
  <2>2. /\ server' = [server EXCEPT !.applied = server.requested]
        /\ daily' = [daily EXCEPT !.applied = daily.requested]
    BY <1>1, <1>2 DEF LoopMarks, MarkApplied
  <2>3. /\ daily' \in [up : BOOLEAN, requested : Requests, applied : Requests,
                       playing : Requests \cup {NoRequest}]
        /\ daily'.requested = daily.requested /\ daily'.applied = daily.requested
        /\ daily'.playing = NoRequest
    BY <1>1, <2>2 DEF ConfigFits
  <2>4. /\ server' \in [requested : Requests, applied : Requests, pending : Requests \cup {NoRequest}]
        /\ server'.requested = server.requested /\ server'.applied = daily.requested
        /\ server'.pending = server.pending
    BY <2>1, <2>2 DEF ConfigFits
  <2>5. ConfigFits'
    BY <1>1, <2>3, <2>4 DEF ConfigFits, Shown
  <2>6. QualityIsAgreed' /\ InOrder'
    BY <1>1, <2>1, <2>3, <2>4 DEF QualityIsAgreed, InOrder, ConfigFits
  <2> QED BY <2>5, <2>6
<1>3. CASE server.requested.revision # daily.requested.revision
  <2>1. server' = server /\ daily' = daily
    BY <1>1, <1>3 DEF LoopMarks, MarkApplied
  <2> QED BY <1>1, <2>1 DEF ConfigFits, QualityIsAgreed, InOrder, Shown
<1> QED BY <1>2, <1>3

(* An engine starts with what was asked for last, and ends. *)
LEMMA EnginesKeep ==
    ASSUME ConfigInv, EngineStarts \/ EngineEnds
    PROVE  ConfigInv'
<1> USE Revisions DEF ConfigInv
<1>1. UNCHANGED <<file, server, shown, asking>>
  BY DEF EngineStarts, EngineEnds
<1>2. /\ daily' \in [up : BOOLEAN, requested : Requests, applied : Requests,
                     playing : Requests \cup {NoRequest}]
      /\ daily'.up = daily.up /\ daily'.requested = daily.requested
      /\ daily'.applied = daily.applied /\ daily'.playing \in {NoRequest, daily.applied}
  BY DEF EngineStarts, EngineEnds, ConfigFits
<1>3. ConfigFits'
  BY <1>1, <1>2 DEF ConfigFits
<1>4. QualityIsAgreed' /\ InOrder'
  BY <1>1, <1>2 DEF QualityIsAgreed, InOrder
<1> QED BY <1>3, <1>4

(* The panel counts on from what it sees, so it never asks for revision 0. *)
LEMMA PanelKeeps ==
    ASSUME ConfigInv, NEW quality \in Qualities, PanelAsks(quality)
    PROVE  ConfigInv'
<1> USE Revisions DEF ConfigInv
<1> DEFINE newest == IF shown.requested > shown.applied THEN shown.requested ELSE shown.applied
<1>1. newest \in 0..MaxRevision /\ newest < MaxRevision
  BY DEF PanelAsks, ConfigFits
<1>2. newest + 1 \in 0..MaxRevision /\ newest + 1 # 0
  BY <1>1
<1>3. asking' = [revision |-> newest + 1, quality |-> quality]
  BY DEF PanelAsks, PanelRequest
<1> HIDE DEF newest
<1>4. Sent(asking')
  BY <1>2, <1>3 DEF Sent, Requests
<1>5. UNCHANGED <<file, server, daily, shown>>
  BY DEF PanelAsks
<1> QED BY <1>4, <1>5 DEF ConfigFits, QualityIsAgreed, InOrder

(* What there is of an instance that does not run. *)
LEMMA AtRest ==
    /\ Closed \in [requested : Requests, applied : Requests, pending : Requests \cup {NoRequest}]
    /\ Down \in [up : BOOLEAN, requested : Requests, applied : Requests,
                 playing : Requests \cup {NoRequest}]
    /\ Sent(NoRequest) /\ Sent(Closed.pending) /\ ~Down.up
    /\ Down.playing = NoRequest /\ Closed.pending = NoRequest
    /\ Held(Closed.requested) /\ Held(Down.requested) /\ Held(Down.applied)
    /\ [requested |-> 0, applied |-> 0] \in [requested : 0..MaxRevision, applied : 0..MaxRevision]
<1>1. Initial \in Requests /\ 0 \in 0..MaxRevision
  BY ConfigAssumption DEF Initial, Requests
<1> QED BY <1>1, Revisions DEF Closed, Down, Sent

(* So it is an invariant. *)
LEMMA ConfigInvHolds == ConfigSpec => []ConfigInv
<1>1. ConfigInit => ConfigInv
  <2> SUFFICES ASSUME ConfigInit PROVE ConfigInv
    OBVIOUS
  <2> QED BY AtRest DEF ConfigInit, ConfigInv, ConfigFits, QualityIsAgreed, InOrder
<1>2. ConfigInv /\ [ConfigNext]_configVars => ConfigInv'
  <2> SUFFICES ASSUME ConfigInv, [ConfigNext]_configVars PROVE ConfigInv'
    OBVIOUS
  <2>1. CASE DailyEnds
    <3>1. server' = Closed /\ daily' = Down /\ UNCHANGED <<file, shown, asking>>
      BY <2>1 DEF DailyEnds
    <3> QED BY <3>1, AtRest DEF ConfigInv, ConfigFits, QualityIsAgreed, InOrder
  <2>2. CASE UNCHANGED configVars
    BY <2>2 DEF configVars, ConfigInv, ConfigFits, QualityIsAgreed, InOrder
  <2> QED BY <2>1, <2>2, DailyStartsKeep, HandleKeeps, LoopTakesKeeps, LoopMarksKeeps, EnginesKeep,
             PanelKeeps DEF ConfigNext, LoopSteps
<1> QED BY <1>1, <1>2, PTL DEF ConfigSpec

(* V1DailyConfigServer (v1_daily_config_ipc.cpp) and the daily loop agree on the quality that *)
(* is applied and played, whatever the panel asks for in between and whenever an instance     *)
(* ends and is started again, for every number of revisions.                                  *)
THEOREM QualityStaysAgreed == ConfigSpec => []QualityIsAgreed
BY ConfigInvHolds, PTL DEF ConfigInv

---------------------------------------------------------------------------
(* The monitors.  While nothing has set the refresh event since the watcher  *)
(* subscribed, what it has read so far is still so.                         *)

MonitorSpec == MonitorInit /\ [][MonitorNext]_monitorVars

MonitorPlaces == {"starts", "refresh", "binds", "lists", "reads", "hears", "plays", "waits", "over"}
Identities == {"matched", "ambiguous", "absent", "untrusted"}

Watchers == [kind : MonitorKinds, pc : MonitorPlaces, devices : BOOLEAN, manager : BOOLEAN,
             heard : SUBSET Sessions, deaf : SUBSET Sessions, todo : SUBSET Sessions,
             counted : SUBSET Sessions, chosen : SUBSET Sessions, identity : Identities,
             active : BOOLEAN, ready : BOOLEAN, missed : BOOLEAN]

MonitorFits ==
    /\ monitor \in Watchers
    /\ refresh \in BOOLEAN
    /\ world \in [named : 0..MaxMatching, matched : 0..MaxMatching, sessions : SUBSET Sessions,
                  active : SUBSET Sessions]
    /\ world.active \subseteq world.sessions
    /\ monitor.pc \notin {"starts", "over"} => monitor.devices

\* The media session that is followed is the current one.
FollowsCurrent ==
    monitor.kind = "media" =>
      /\ monitor.pc \in {"starts", "refresh", "plays", "waits", "over"}
      /\ (monitor.pc \in {"plays", "waits"} /\ ~refresh) => 
            monitor.chosen = CurrentSession(world) /\ monitor.heard = monitor.chosen
      /\ (monitor.pc = "waits" /\ ~refresh) =>
            monitor.active = (monitor.chosen \cap world.active # {})
      /\ monitor.pc = "waits" => monitor.identity = AbsentEndpoint

\* The sessions the capture watcher has looked at, and which of them it counted.
Looked == monitor.heard \cup monitor.deaf \cup monitor.chosen
Bound == monitor.pc = "waits" /\ monitor.ready /\ monitor.identity = "matched"
CountsCurrent ==
    monitor.kind = "capture" =>
      /\ monitor.pc # "plays"
      /\ monitor.pc # "hears" => monitor.chosen = {}
      /\ monitor.pc \in {"lists", "reads", "hears"} \/ Bound =>
            /\ monitor.manager
            /\ ~refresh => Identity(world) = "matched"
      /\ monitor.pc = "lists" => monitor.heard = {} /\ monitor.deaf = {} /\ monitor.counted = {}
      /\ monitor.pc = "binds" => monitor.heard = {} /\ monitor.deaf = {} /\ monitor.counted = {}
      /\ (monitor.pc \in {"reads", "hears"} /\ ~refresh /\ ~monitor.missed) =>
            /\ world.sessions \subseteq monitor.todo \cup Looked
            /\ monitor.counted = world.active \cap Looked
      /\ (Bound /\ ~refresh /\ ~monitor.missed) =>
            /\ world.sessions \subseteq Looked
            /\ monitor.active = (world.active # {})
      /\ (monitor.pc = "waits" /\ monitor.ready /\ monitor.identity # "matched" /\ ~refresh) =>
            monitor.identity = Identity(world) /\ ~monitor.active

\* The render watcher knows the endpoint.
SeesEndpoint ==
    monitor.kind = "render" =>
      /\ monitor.pc \in {"starts", "refresh", "waits", "over"}
      /\ (monitor.pc = "waits" /\ monitor.ready /\ ~refresh) =>
            monitor.identity = Identity(world) /\ ~monitor.active

MonitorInv == MonitorFits /\ FollowsCurrent /\ CountsCurrent /\ SeesEndpoint

(* The current session depends on the sessions alone, and is one of them. *)
LEMMA CurrentIsThere ==
    ASSUME NEW w, NEW v, w.sessions = v.sessions
    PROVE  CurrentSession(w) = CurrentSession(v) /\ CurrentSession(w) \subseteq w.sessions
<1>1. CurrentSession(w) \subseteq w.sessions
  <2>1. CASE w.sessions = {}
    BY <2>1 DEF CurrentSession
  <2>2. CASE w.sessions # {}
    <3>1. (CHOOSE s \in w.sessions : TRUE) \in w.sessions
      BY <2>2
    <3> QED BY <2>2, <3>1 DEF CurrentSession
  <2> QED BY <2>1, <2>2
<1> QED BY <1>1 DEF CurrentSession

(* The endpoint's identity is one of four. *)
LEMMA IdentityFits ==
    ASSUME NEW w PROVE Identity(w) \in Identities
BY DEF Identity, Identities, AbsentEndpoint

(* A snapshot is published as it is, and changes nothing else. *)
SnapshotOf(p, m, identity, active, ok) ==
    /\ p \in Watchers /\ p.pc = "waits" /\ p.identity = identity
    /\ p.active = active /\ p.ready = ok
    /\ p.kind = m.kind /\ p.devices = m.devices /\ p.manager = m.manager
    /\ p.heard = m.heard /\ p.deaf = m.deaf /\ p.todo = m.todo
    /\ p.counted = m.counted /\ p.chosen = m.chosen /\ p.missed = m.missed

(* What is published changes nothing else of the monitor. *)
LEMMA PublishedFits ==
    ASSUME NEW m \in Watchers, NEW identity \in Identities, NEW active \in BOOLEAN, NEW ok \in BOOLEAN
    PROVE  SnapshotOf(Published(m, identity, active, ok), m, identity, active, ok)
BY DEF Published, SnapshotOf, Watchers, MonitorPlaces

(* One that fails says nothing that can be relied on, and ends. *)
LEMMA ErrorFits ==
    ASSUME NEW m \in Watchers
    PROVE  LET p == PublishesError(m)
           IN  p \in Watchers /\ p.pc = "over" /\ p.kind = m.kind /\ p.chosen = m.chosen
<1>1. AbsentEndpoint \in Identities
  BY DEF AbsentEndpoint, Identities
<1> DEFINE q == Published(m, AbsentEndpoint, FALSE, FALSE)
<1>2. q \in Watchers /\ q.kind = m.kind /\ q.chosen = m.chosen
  BY <1>1, PublishedFits, Zenon DEF SnapshotOf
<1>3. PublishesError(m) = [q EXCEPT !.pc = "over"]
  BY DEF PublishesError
<1> HIDE DEF q
<1> QED BY <1>2, <1>3 DEF Watchers, MonitorPlaces

(* The snapshot of a watcher that sleeps is the state of the world. *)
LEMMA MonitorInvIsEnough ==
    ASSUME MonitorInv
    PROVE  SleeperIsCurrent
<1> SUFFICES ASSUME monitor.pc = "waits", monitor.ready, ~refresh, ~monitor.missed
             PROVE  monitor.active = Actual.active /\ monitor.identity = Actual.identity
  BY DEF SleeperIsCurrent
<1> USE DEF MonitorInv
<1>1. monitor.kind \in {"media", "capture", "render"}
  BY DEF MonitorFits, Watchers, MonitorKinds
<1>2. CASE monitor.kind = "media"
  BY <1>2 DEF FollowsCurrent, Actual
<1>3. CASE monitor.kind = "render"
  <2>1. Actual = [identity |-> Identity(world), active |-> FALSE]
    BY <1>3 DEF Actual
  <2>2. monitor.identity = Identity(world) /\ ~monitor.active /\ monitor.active \in BOOLEAN
    BY <1>3 DEF SeesEndpoint, MonitorFits, Watchers
  <2> QED BY <2>1, <2>2
<1>4. CASE monitor.kind = "capture"
  <2>1. Actual = [identity |-> Identity(world),
                  active |-> Identity(world) = "matched" /\ world.active # {}]
    BY <1>4 DEF Actual
  <2>2. monitor.active \in BOOLEAN
    BY DEF MonitorFits, Watchers
  <2>3. CASE monitor.identity = "matched"
    <3>1. Identity(world) = "matched" /\ monitor.active = (world.active # {})
      BY <1>4, <2>3 DEF CountsCurrent, Bound
    <3> QED BY <2>1, <2>3, <3>1
  <2>4. CASE monitor.identity # "matched"
    <3>1. monitor.identity = Identity(world) /\ ~monitor.active
      BY <1>4, <2>4 DEF CountsCurrent
    <3> QED BY <2>1, <2>2, <2>4, <3>1
  <2> QED BY <2>3, <2>4
<1> QED BY <1>1, <1>2, <1>3, <1>4

(* The device and manager notifications, and the end. *)
LEMMA MonitorStartsKeep ==
    ASSUME MonitorInv, Registers \/ MonitorStops
    PROVE  MonitorInv'
<1> USE DEF MonitorInv
<1>1. world' = world /\ refresh' = refresh
  BY DEF Registers, MonitorStops
<1>2. /\ MonitorFits' /\ monitor'.pc \in {"refresh", "over"}
      /\ monitor'.kind = monitor.kind
      /\ monitor'.chosen = monitor.chosen
  <2>1. CASE monitor' = PublishesError(monitor)
    BY <1>1, <2>1, ErrorFits DEF MonitorFits
  <2>2. CASE monitor' = [monitor EXCEPT !.devices = TRUE, !.pc = "refresh"]
    BY <1>1, <2>2 DEF MonitorFits, Watchers, MonitorPlaces
  <2>3. CASE monitor' = [monitor EXCEPT !.pc = "over", !.devices = FALSE, !.manager = FALSE,
                                        !.heard = {}]
    BY <1>1, <2>3 DEF MonitorFits, Watchers, MonitorPlaces
  <2> QED BY <2>1, <2>2, <2>3 DEF Registers, MonitorStops
<1>3. monitor.kind = "capture" => monitor.chosen = {}
  BY DEF CountsCurrent, Registers, MonitorStops
<1> QED BY <1>1, <1>2, <1>3 DEF FollowsCurrent, CountsCurrent, SeesEndpoint, Bound

(* A refresh begins: what was bound is given up. *)
LEMMA EnumeratesKeeps ==
    ASSUME MonitorInv, Enumerates
    PROVE  MonitorInv'
<1> USE DEF MonitorInv
<1> DEFINE m == [monitor EXCEPT !.manager = FALSE, !.heard = {}, !.deaf = {},
                                !.counted = {}, !.missed = FALSE]
<1>1. world' = world /\ refresh' = refresh /\ monitor.pc = "refresh" /\ monitor.kind # "media"
  BY DEF Enumerates
<1>2. \/ monitor' = Published(m, AbsentEndpoint, FALSE, FALSE)
      \/ /\ monitor.kind = "capture" /\ Identity(world) = "matched"
         /\ monitor' = [m EXCEPT !.pc = "binds"]
      \/ /\ ~(monitor.kind = "capture" /\ Identity(world) = "matched")
         /\ monitor' = Published(m, Identity(world), FALSE, TRUE)
  BY DEF Enumerates
<1>3. Identity(world) \in Identities /\ AbsentEndpoint \in Identities
  BY IdentityFits DEF Identities, AbsentEndpoint
<1>4. /\ MonitorFits' /\ monitor'.kind = monitor.kind /\ monitor'.chosen = monitor.chosen
      /\ monitor'.heard = {} /\ monitor'.deaf = {} /\ monitor'.counted = {} /\ ~monitor'.missed
      /\ \/ monitor'.pc = "waits" /\ ~monitor'.ready
         \/ monitor'.pc = "binds" /\ monitor.kind = "capture"
         \/ /\ monitor'.pc = "waits" /\ monitor'.ready
            /\ monitor'.identity = Identity(world) /\ ~monitor'.active
            /\ monitor.kind = "capture" => Identity(world) # "matched"
  <2>1. /\ m \in Watchers /\ m.kind = monitor.kind /\ m.chosen = monitor.chosen /\ m.devices
        /\ m.heard = {} /\ m.deaf = {} /\ m.counted = {} /\ ~m.missed
    BY <1>1 DEF MonitorFits, Watchers
  <2> HIDE DEF m
  <2>2. CASE monitor' = Published(m, AbsentEndpoint, FALSE, FALSE)
    <3>1. SnapshotOf(monitor', m, AbsentEndpoint, FALSE, FALSE)
      BY <1>3, <2>1, <2>2, PublishedFits, Zenon
    <3> QED BY <1>1, <2>1, <3>1 DEF SnapshotOf, MonitorFits
  <2>3. CASE /\ monitor.kind = "capture" /\ Identity(world) = "matched"
             /\ monitor' = [m EXCEPT !.pc = "binds"]
    BY <1>1, <2>1, <2>3 DEF MonitorFits, Watchers, MonitorPlaces
  <2>4. CASE /\ ~(monitor.kind = "capture" /\ Identity(world) = "matched")
             /\ monitor' = Published(m, Identity(world), FALSE, TRUE)
    <3>1. SnapshotOf(monitor', m, Identity(world), FALSE, TRUE)
      BY <1>3, <2>1, <2>4, PublishedFits, Zenon
    <3> QED BY <1>1, <2>1, <2>4, <3>1 DEF SnapshotOf, MonitorFits
  <2> QED BY <1>2, <2>2, <2>3, <2>4
<1>5. monitor.kind = "capture" => monitor.chosen = {}
  BY <1>1 DEF CountsCurrent
<1>6. FollowsCurrent' /\ SeesEndpoint'
  BY <1>1, <1>4 DEF FollowsCurrent, SeesEndpoint, MonitorFits, Watchers, MonitorKinds
<1>7. CountsCurrent'
  BY <1>1, <1>4, <1>5 DEF CountsCurrent, Bound
<1> QED BY <1>4, <1>6, <1>7

(* A manager is bound and its sessions are listed. *)
LEMMA BindingKeeps ==
    ASSUME MonitorInv, BindsManager \/ ListsSessions
    PROVE  MonitorInv'
<1> USE DEF MonitorInv
<1>1. world' = world /\ refresh' = refresh /\ monitor.pc \in {"binds", "lists"}
      /\ monitor.kind = "capture"
  BY DEF BindsManager, ListsSessions, FollowsCurrent, SeesEndpoint, MonitorFits, Watchers, MonitorKinds
<1>2. /\ MonitorFits' /\ monitor'.kind = "capture" /\ monitor'.chosen = {}
      /\ monitor'.heard = {} /\ monitor'.deaf = {} /\ monitor'.counted = {}
      /\ \/ monitor'.pc = "waits" /\ ~monitor'.ready
         \/ monitor'.pc = "lists" /\ monitor'.manager /\ Identity(world) = "matched"
         \/ /\ monitor'.pc = "reads" /\ monitor'.todo = world.sessions /\ monitor'.manager
            /\ ~refresh => Identity(world) = "matched"
  <2>1. monitor \in Watchers /\ monitor.devices /\ "matched" \in Identities
    BY <1>1 DEF MonitorFits, Identities
  <2>2. /\ monitor.chosen = {}
        /\ monitor.heard = {} /\ monitor.deaf = {} /\ monitor.counted = {}
    BY <1>1 DEF CountsCurrent
  <2>3. CASE /\ Identity(world) = "matched"
             /\ monitor' = [monitor EXCEPT !.manager = TRUE, !.pc = "lists"]
    <3>1. monitor' \in Watchers /\ monitor'.pc = "lists" /\ monitor'.manager
      BY <2>1, <2>3 DEF Watchers, MonitorPlaces
    <3>2. /\ monitor'.kind = "capture" /\ monitor'.chosen = {} /\ monitor'.devices
          /\ monitor'.heard = {} /\ monitor'.deaf = {} /\ monitor'.counted = {}
      BY <1>1, <2>1, <2>2, <2>3 DEF Watchers
    <3> QED BY <1>1, <2>3, <3>1, <3>2 DEF MonitorFits
  <2>4. CASE monitor' = Published(monitor, "matched", FALSE, FALSE)
    <3>1. SnapshotOf(monitor', monitor, "matched", FALSE, FALSE)
      BY <2>1, <2>4, PublishedFits, Zenon
    <3> QED BY <1>1, <2>1, <2>2, <3>1 DEF SnapshotOf, MonitorFits
  <2>5. CASE ListsSessions
    <3>1. world.sessions \in SUBSET Sessions
      BY DEF MonitorFits
    <3>2. monitor.manager /\ (~refresh => Identity(world) = "matched")
      BY <1>1, <2>5 DEF CountsCurrent, ListsSessions
    <3>3. monitor' = [monitor EXCEPT !.todo = world.sessions, !.pc = "reads"]
      BY <2>5 DEF ListsSessions
    <3> QED BY <1>1, <2>1, <2>2, <3>1, <3>2, <3>3 DEF MonitorFits, Watchers, MonitorPlaces
  <2> QED BY <2>3, <2>4, <2>5 DEF BindsManager
<1>3. FollowsCurrent' /\ SeesEndpoint'
  BY <1>2 DEF FollowsCurrent, SeesEndpoint
<1>4. CountsCurrent'
  BY <1>1, <1>2 DEF CountsCurrent, Bound, Looked
<1> QED BY <1>2, <1>3, <1>4

(* Each session is read, then heard or not. *)
LEMMA ReadsStateKeeps ==
    ASSUME MonitorInv, NEW s \in Sessions, ReadsState(s)
    PROVE  MonitorInv'
<1> USE DEF MonitorInv
<1>1. world' = world /\ refresh' = refresh /\ monitor.pc = "reads" /\ s \in monitor.todo
      /\ monitor.kind = "capture" /\ monitor.chosen = {}
  BY DEF ReadsState, FollowsCurrent, SeesEndpoint, CountsCurrent, MonitorFits, Watchers, MonitorKinds
<1>2. CASE monitor' = [monitor EXCEPT !.todo = monitor.todo \ {s}, !.missed = TRUE]
  <2>1. MonitorFits'
    BY <1>1, <1>2 DEF MonitorFits, Watchers
  <2>2. FollowsCurrent' /\ SeesEndpoint' /\ CountsCurrent'
    BY <1>1, <1>2 DEF MonitorFits, Watchers, FollowsCurrent, SeesEndpoint, CountsCurrent, Bound
  <2> QED BY <2>1, <2>2
<1>3. CASE monitor' = [monitor EXCEPT !.chosen = {s}, !.pc = "hears",
                          !.counted = monitor.counted \cup ({s} \cap world.active)]
  <2>1. MonitorFits'
    BY <1>1, <1>3 DEF MonitorFits, Watchers, MonitorPlaces
  <2>2. /\ monitor'.chosen = {s} /\ monitor'.pc = "hears" /\ monitor'.kind = "capture"
        /\ monitor'.counted = monitor.counted \cup ({s} \cap world.active)
        /\ monitor'.heard = monitor.heard /\ monitor'.deaf = monitor.deaf
        /\ monitor'.todo = monitor.todo /\ monitor'.missed = monitor.missed
        /\ monitor'.manager = monitor.manager
    BY <1>1, <1>3 DEF MonitorFits, Watchers
  <2>3. FollowsCurrent' /\ SeesEndpoint'
    BY <2>2 DEF FollowsCurrent, SeesEndpoint
  <2>4. Looked' = Looked \cup {s}
    BY <1>1, <2>2 DEF Looked
  <2>5. CountsCurrent'
    BY <1>1, <2>2, <2>4 DEF CountsCurrent, Bound
  <2> QED BY <2>1, <2>3, <2>5
<1>4. CASE monitor' = [monitor EXCEPT !.chosen = {s}, !.pc = "hears", !.missed = TRUE]
  <2>1. MonitorFits'
    BY <1>1, <1>4 DEF MonitorFits, Watchers, MonitorPlaces
  <2>2. /\ monitor'.chosen = {s} /\ monitor'.pc = "hears" /\ monitor'.kind = "capture"
        /\ monitor'.counted = monitor.counted
        /\ monitor'.heard = monitor.heard /\ monitor'.deaf = monitor.deaf
        /\ monitor'.todo = monitor.todo /\ monitor'.missed
        /\ monitor'.manager = monitor.manager
    BY <1>1, <1>4 DEF MonitorFits, Watchers
  <2>3. FollowsCurrent' /\ SeesEndpoint'
    BY <2>2 DEF FollowsCurrent, SeesEndpoint
  <2>4. CountsCurrent'
    BY <1>1, <2>2 DEF CountsCurrent, Bound
  <2> QED BY <2>1, <2>3, <2>4
<1> QED BY <1>2, <1>3, <1>4 DEF ReadsState

(* A session is subscribed to. *)
LEMMA SubscribesKeeps ==
    ASSUME MonitorInv, Subscribes
    PROVE  MonitorInv'
<1> USE DEF MonitorInv
<1>1. world' = world /\ refresh' = refresh /\ monitor.pc = "hears" /\ monitor.kind = "capture"
  BY DEF Subscribes, FollowsCurrent, SeesEndpoint, MonitorFits, Watchers, MonitorKinds
<1>2. PICK heard \in {monitor.chosen, {}} :
        monitor' = [monitor EXCEPT !.heard = @ \cup heard, !.deaf = @ \cup (monitor.chosen \ heard),
                                   !.todo = @ \ monitor.chosen, !.chosen = {}, !.pc = "reads"]
  BY DEF Subscribes
<1>3. MonitorFits'
  BY <1>1, <1>2 DEF MonitorFits, Watchers, MonitorPlaces
<1>4. /\ monitor'.kind = "capture" /\ monitor'.pc = "reads" /\ monitor'.chosen = {}
      /\ monitor'.heard = monitor.heard \cup heard
      /\ monitor'.deaf = monitor.deaf \cup (monitor.chosen \ heard)
      /\ monitor'.todo = monitor.todo \ monitor.chosen
      /\ monitor'.counted = monitor.counted /\ monitor'.missed = monitor.missed
      /\ monitor'.manager = monitor.manager
  BY <1>1, <1>2 DEF MonitorFits, Watchers
<1>5. Looked' = Looked
  BY <1>2, <1>4 DEF Looked
<1>6. monitor.todo \cup Looked \subseteq monitor'.todo \cup Looked'
  BY <1>4, <1>5 DEF Looked
<1>7. FollowsCurrent' /\ SeesEndpoint'
  BY <1>4 DEF FollowsCurrent, SeesEndpoint
<1>8. CountsCurrent'
  BY <1>1, <1>4, <1>5, <1>6 DEF CountsCurrent, Bound
<1> QED BY <1>3, <1>7, <1>8

(* The capture monitor reads its sessions and publishes. *)
LEMMA PublishesSessionsKeeps ==
    ASSUME MonitorInv, PublishesSessions
    PROVE  MonitorInv'
<1> USE DEF MonitorInv
<1>1. world' = world /\ refresh' = refresh /\ monitor.pc = "reads" /\ monitor.kind = "capture"
      /\ monitor.todo = {} /\ monitor.chosen = {}
      /\ monitor' = Published(monitor, "matched", monitor.counted # {}, TRUE)
  BY DEF PublishesSessions, FollowsCurrent, SeesEndpoint, CountsCurrent, MonitorFits, Watchers, MonitorKinds
<1>2. MonitorFits'
  BY <1>1 DEF MonitorFits, Watchers, MonitorPlaces, Published, Identities
<1>3. /\ monitor'.kind = "capture" /\ monitor'.pc = "waits" /\ monitor'.chosen = {}
      /\ monitor'.heard = monitor.heard /\ monitor'.deaf = monitor.deaf
      /\ monitor'.missed = monitor.missed /\ monitor'.manager = monitor.manager
      /\ monitor'.identity = "matched" /\ monitor'.active = (monitor.counted # {})
  BY <1>1 DEF MonitorFits, Watchers, Published
<1>4. Looked' = Looked
  BY <1>1, <1>3 DEF Looked
<1>5. world.active \subseteq world.sessions
  BY DEF MonitorFits, Watchers
<1>6. ~refresh /\ ~monitor.missed =>
        world.sessions \subseteq Looked /\ (monitor.counted # {} <=> world.active # {})
  BY <1>1, <1>5 DEF CountsCurrent
<1>7. FollowsCurrent' /\ SeesEndpoint'
  BY <1>3 DEF FollowsCurrent, SeesEndpoint
<1>8. CountsCurrent'
  BY <1>1, <1>3, <1>4, <1>6 DEF CountsCurrent, Bound
<1> QED BY <1>2, <1>7, <1>8

(* The media monitor follows the current session and reads its state. *)
LEMMA MediaKeeps ==
    ASSUME MonitorInv, FollowsSession \/ ReadsPlayback
    PROVE  MonitorInv'
<1> USE DEF MonitorInv
<1>1. world' = world /\ refresh' = refresh /\ monitor.kind = "media"
  BY DEF FollowsSession, ReadsPlayback, CountsCurrent, SeesEndpoint, MonitorFits, Watchers, MonitorKinds
<1>2. CurrentSession(world) \subseteq Sessions
  BY CurrentIsThere DEF MonitorFits, Watchers
<1>3. /\ MonitorFits' /\ monitor'.kind = "media"
      /\ \/ monitor'.pc = "over"
         \/ /\ monitor'.pc = "plays" /\ monitor'.chosen = CurrentSession(world)
            /\ monitor'.heard = CurrentSession(world)
         \/ /\ monitor.pc = "plays" /\ monitor'.pc = "waits"
            /\ monitor'.chosen = monitor.chosen /\ monitor'.heard = monitor.heard
            /\ monitor'.active = (monitor.chosen \cap world.active # {})
            /\ monitor'.identity = AbsentEndpoint
  <2>1. monitor \in Watchers /\ AbsentEndpoint \in Identities
    BY DEF MonitorFits, Identities, AbsentEndpoint
  <2>2. monitor.pc \in {"refresh", "plays"} /\ monitor.devices
    BY DEF FollowsSession, ReadsPlayback, MonitorFits
  <2>3. CASE monitor' = PublishesError(monitor)
    BY <1>1, <2>1, <2>3, ErrorFits DEF MonitorFits
  <2>4. CASE monitor' = [monitor EXCEPT !.manager = TRUE, !.chosen = CurrentSession(world),
                                        !.heard = CurrentSession(world), !.pc = "plays"]
    BY <1>1, <1>2, <2>1, <2>2, <2>4 DEF MonitorFits, Watchers, MonitorPlaces
  <2>5. CASE /\ monitor.pc = "plays"
             /\ monitor' = Published(monitor, AbsentEndpoint, monitor.chosen \cap world.active # {}, TRUE)
    <3> DEFINE active == monitor.chosen \cap world.active # {}
    <3>1. active \in BOOLEAN
      OBVIOUS
    <3> HIDE DEF active
    <3>2. SnapshotOf(monitor', monitor, AbsentEndpoint, active, TRUE)
      BY <2>1, <2>5, <3>1, PublishedFits, Zenon DEF active
    <3>3. /\ MonitorFits' /\ monitor'.kind = "media" /\ monitor'.pc = "waits"
          /\ monitor'.chosen = monitor.chosen /\ monitor'.heard = monitor.heard
          /\ monitor'.active = active /\ monitor'.identity = AbsentEndpoint
      BY <1>1, <2>1, <2>2, <2>5, <3>2 DEF SnapshotOf, MonitorFits
    <3> QED BY <2>5, <3>3 DEF active
  <2> QED BY <2>3, <2>4, <2>5 DEF FollowsSession, ReadsPlayback
<1>4. FollowsCurrent'
  BY <1>1, <1>3, CurrentIsThere DEF FollowsCurrent
<1>5. CountsCurrent' /\ SeesEndpoint'
  BY <1>3 DEF CountsCurrent, SeesEndpoint
<1> QED BY <1>3, <1>4, <1>5

(* A sleeper that was signalled begins a round. *)
LEMMA WakesKeeps ==
    ASSUME MonitorInv, Wakes
    PROVE  MonitorInv'
<1> USE DEF MonitorInv
<1>1. world' = world /\ refresh' = FALSE /\ monitor.pc = "waits"
      /\ monitor' = [monitor EXCEPT !.pc = "refresh"]
  BY DEF Wakes
<1>2. MonitorFits' /\ monitor'.pc = "refresh" /\ monitor'.chosen = monitor.chosen
      /\ monitor'.kind = monitor.kind
  BY <1>1 DEF MonitorFits, Watchers, MonitorPlaces
<1> QED BY <1>1, <1>2 DEF FollowsCurrent, CountsCurrent, SeesEndpoint, Bound

(* Windows: endpoints, sessions and their states change. *)
LEMMA EndpointsChangeKeeps ==
    ASSUME MonitorInv, EndpointsChange
    PROVE  MonitorInv'
<1> USE DEF MonitorInv
<1>1. PICK named \in 0..MaxMatching : \E matched \in 0..named :
        world' = [world EXCEPT !.named = named, !.matched = matched,
                !.sessions = IF Stays(matched) THEN @ ELSE {},
                !.active = IF Stays(matched) THEN @ ELSE {}]
  BY DEF EndpointsChange
<1>2. PICK matched \in 0..named :
        world' = [world EXCEPT !.named = named, !.matched = matched,
                !.sessions = IF Stays(matched) THEN @ ELSE {},
                !.active = IF Stays(matched) THEN @ ELSE {}]
  BY <1>1
<1>3. monitor' = monitor /\ refresh' = (refresh \/ (monitor.devices /\ monitor.kind # "media"))
  BY DEF EndpointsChange
<1>4. /\ MonitorFits'
      /\ monitor.kind = "media" => world'.sessions = world.sessions /\ world'.active = world.active
  <2> DEFINE sessions == IF Stays(matched) THEN world.sessions ELSE {}
             active == IF Stays(matched) THEN world.active ELSE {}
  <2>1. named \in 0..MaxMatching /\ matched \in 0..MaxMatching
    BY MonitorsAssumption
  <2>2. /\ sessions \in SUBSET Sessions /\ active \in SUBSET Sessions /\ active \subseteq sessions
        /\ monitor.kind = "media" => sessions = world.sessions /\ active = world.active
    BY DEF MonitorFits, Stays
  <2>3. world' = [world EXCEPT !.named = named, !.matched = matched, !.sessions = sessions,
                               !.active = active]
    BY <1>2
  <2> HIDE DEF sessions, active
  <2>4. /\ world' \in [named : 0..MaxMatching, matched : 0..MaxMatching, sessions : SUBSET Sessions,
                       active : SUBSET Sessions]
        /\ world'.sessions = sessions /\ world'.active = active
    BY <2>1, <2>2, <2>3 DEF MonitorFits
  <2>5. refresh' \in BOOLEAN
    BY <1>3 DEF MonitorFits
  <2> QED BY <1>3, <2>2, <2>4, <2>5 DEF MonitorFits
<1>5. monitor.kind # "media" /\ monitor.pc \notin {"starts", "over"} => refresh'
  BY <1>3 DEF MonitorFits, Watchers
<1>6. FollowsCurrent'
  BY <1>3, <1>4, CurrentIsThere DEF FollowsCurrent, MonitorFits, Watchers
<1>7. CountsCurrent' /\ SeesEndpoint'
  BY <1>3, <1>5 DEF CountsCurrent, SeesEndpoint, Bound
<1> QED BY <1>4, <1>6, <1>7

(* A session comes or goes: a monitor that would miss it is signalled, or not yet asleep. *)
LEMMA SessionsChangeKeeps ==
    ASSUME MonitorInv, NEW s \in Sessions, SessionsChange(s)
    PROVE  MonitorInv'
<1> USE DEF MonitorInv
<1>1. /\ monitor.kind # "render"
      /\ world' = [world EXCEPT !.sessions = IF s \in @ THEN @ \ {s} ELSE @ \cup {s},
                                !.active = @ \ {s}]
      /\ monitor' = [monitor EXCEPT !.missed = @ \/ Unheard(s)]
  BY DEF SessionsChange
<1>2. /\ world'.sessions = IF s \in world.sessions THEN world.sessions \ {s} ELSE world.sessions \cup {s}
      /\ world'.active = world.active \ {s}
      /\ world'.named = world.named /\ world'.matched = world.matched
      /\ world.active \subseteq world.sessions
      /\ monitor'.missed = (monitor.missed \/ Unheard(s))
  BY <1>1 DEF MonitorFits, Watchers
<1>3. /\ monitor'.kind = monitor.kind /\ monitor'.pc = monitor.pc /\ monitor'.devices = monitor.devices
      /\ monitor'.manager = monitor.manager /\ monitor'.heard = monitor.heard
      /\ monitor'.deaf = monitor.deaf /\ monitor'.todo = monitor.todo
      /\ monitor'.counted = monitor.counted /\ monitor'.chosen = monitor.chosen
      /\ monitor'.identity = monitor.identity /\ monitor'.active = monitor.active
      /\ monitor'.ready = monitor.ready
  BY <1>1 DEF MonitorFits, Watchers
<1>4. refresh' \in BOOLEAN /\ (refresh => refresh')
  BY DEF SessionsChange, MonitorFits, Watchers
<1>5. MonitorFits'
  BY <1>1, <1>2, <1>4 DEF MonitorFits, Watchers, Unheard
<1>6. Identity(world') = Identity(world)
  BY <1>2 DEF Identity
<1>7. CASE monitor.kind = "media"
  <2>1. refresh' = (refresh \/ (monitor.devices /\ CurrentSession(world') # CurrentSession(world)))
    BY <1>7 DEF SessionsChange
  <2>2. CurrentSession(world') = CurrentSession(world) => s \notin CurrentSession(world)
    BY <1>2, CurrentIsThere
  <2>3. FollowsCurrent'
    BY <1>2, <1>3, <1>7, <2>1, <2>2 DEF FollowsCurrent, MonitorFits, Watchers
  <2>4. CountsCurrent' /\ SeesEndpoint'
    BY <1>3, <1>7 DEF CountsCurrent, SeesEndpoint
  <2> QED BY <1>5, <2>3, <2>4
<1>8. CASE monitor.kind = "capture"
  <2>1. Looked' = Looked /\ Bound' = Bound
    BY <1>3 DEF Looked, Bound
  <2>2. Identity(world) = "matched"
    BY <1>8 DEF SessionsChange
  <2>3. /\ s \in world.sessions => refresh' = (refresh \/ s \in monitor.heard)
        /\ s \notin world.sessions => refresh' = (refresh \/ monitor.manager)
    <3>1. CASE s \in world.sessions
      BY <1>8, <3>1 DEF SessionsChange
    <3>2. CASE s \notin world.sessions
      BY <1>8, <3>2 DEF SessionsChange
    <3> QED BY <3>1, <3>2
  <2>4. s \in monitor.chosen \cup monitor.deaf => monitor'.missed
    BY <1>2, <1>8 DEF Unheard
  <2>5. FollowsCurrent' /\ SeesEndpoint'
    BY <1>3, <1>8 DEF FollowsCurrent, SeesEndpoint
  <2>6. s \in world.sessions /\ s \in Looked => refresh' \/ monitor'.missed
    BY <2>3, <2>4 DEF Looked
  <2>7. monitor.manager /\ s \notin world.sessions => refresh'
    BY <2>3
  <2>8. ASSUME ~refresh', ~monitor'.missed, s \in world.sessions
        PROVE  world'.sessions \subseteq world.sessions /\ world'.active \cap Looked = world.active \cap Looked
    BY <1>2, <2>6, <2>8
  <2>9. CountsCurrent'
    <3>1. CASE s \in world.sessions
      BY <1>2, <1>3, <1>4, <1>6, <1>8, <2>1, <2>2, <2>6, <2>8, <3>1 DEF CountsCurrent
    <3>2. CASE s \notin world.sessions
      BY <1>2, <1>3, <1>4, <1>6, <1>8, <2>1, <2>2, <2>7, <3>2 DEF CountsCurrent
    <3> QED BY <3>1, <3>2
  <2> QED BY <1>5, <2>5, <2>9
<1> QED BY <1>1, <1>7, <1>8 DEF MonitorFits, Watchers, MonitorKinds

(* A session becomes active or inactive. *)
LEMMA StateChangesKeeps ==
    ASSUME MonitorInv, NEW s \in Sessions, StateChanges(s)
    PROVE  MonitorInv'
<1> USE DEF MonitorInv
<1>1. /\ s \in world.sessions
      /\ world' = [world EXCEPT !.active = IF s \in @ THEN @ \ {s} ELSE @ \cup {s}]
      /\ refresh' = (refresh \/ s \in monitor.heard)
      /\ monitor' = [monitor EXCEPT !.missed = @ \/ Unheard(s)]
  BY DEF StateChanges
<1>2. /\ world'.sessions = world.sessions
      /\ world'.active = IF s \in world.active THEN world.active \ {s} ELSE world.active \cup {s}
      /\ world'.named = world.named /\ world'.matched = world.matched
      /\ monitor'.missed = (monitor.missed \/ Unheard(s))
  BY <1>1 DEF MonitorFits, Watchers
<1>3. /\ monitor'.kind = monitor.kind /\ monitor'.pc = monitor.pc /\ monitor'.devices = monitor.devices
      /\ monitor'.manager = monitor.manager /\ monitor'.heard = monitor.heard
      /\ monitor'.deaf = monitor.deaf /\ monitor'.todo = monitor.todo
      /\ monitor'.counted = monitor.counted /\ monitor'.chosen = monitor.chosen
      /\ monitor'.identity = monitor.identity /\ monitor'.active = monitor.active
      /\ monitor'.ready = monitor.ready
  BY <1>1 DEF MonitorFits, Watchers
<1>4. MonitorFits'
  BY <1>1, <1>2 DEF MonitorFits, Watchers, Unheard
<1>5. Identity(world') = Identity(world) /\ CurrentSession(world') = CurrentSession(world)
  BY <1>2, CurrentIsThere DEF Identity
<1>6. CASE monitor.kind = "media"
  <2>1. FollowsCurrent'
    <3>1. CASE s \in monitor.heard
      <4>1. refresh'
        BY <1>1, <3>1
      <4> QED BY <1>3, <1>6, <4>1 DEF FollowsCurrent
    <3>2. CASE s \notin monitor.heard
      <4>1. refresh' = refresh
        BY <1>1, <3>2 DEF MonitorFits
      <4>2. s \notin monitor.chosen \/ monitor.chosen # monitor.heard
        BY <3>2
      <4>3. s \notin monitor.chosen => monitor.chosen \cap world'.active = monitor.chosen \cap world.active
        BY <1>2
      <4> QED BY <1>3, <1>5, <1>6, <4>1, <4>2, <4>3 DEF FollowsCurrent
    <3> QED BY <3>1, <3>2
  <2>2. CountsCurrent' /\ SeesEndpoint'
    BY <1>3, <1>6 DEF CountsCurrent, SeesEndpoint
  <2> QED BY <1>4, <2>1, <2>2
<1>7. CASE monitor.kind = "render"
  <2>1. SeesEndpoint'
    BY <1>1, <1>3, <1>5, <1>7 DEF SeesEndpoint
  <2>2. CountsCurrent' /\ FollowsCurrent'
    BY <1>3, <1>7 DEF CountsCurrent, FollowsCurrent
  <2> QED BY <1>4, <2>1, <2>2
<1>8. CASE monitor.kind = "capture"
  <2>1. Looked' = Looked /\ Bound' = Bound
    BY <1>3 DEF Looked, Bound
  <2>2. s \in Looked => refresh' \/ monitor'.missed
    BY <1>1, <1>2, <1>8 DEF Looked, Unheard
  <2>3. ~refresh' /\ ~monitor'.missed => world'.active \cap Looked = world.active \cap Looked
    BY <1>2, <2>2
  <2>4. Bound /\ ~refresh' /\ ~monitor'.missed => FALSE
    BY <1>1, <1>2, <1>8, <2>2 DEF CountsCurrent
  <2>5. CountsCurrent'
    BY <1>1, <1>2, <1>3, <1>5, <1>8, <2>1, <2>3, <2>4 DEF CountsCurrent
  <2>6. FollowsCurrent' /\ SeesEndpoint'
    BY <1>3, <1>8 DEF FollowsCurrent, SeesEndpoint
  <2> QED BY <1>4, <2>5, <2>6
<1> QED BY <1>6, <1>7, <1>8 DEF MonitorFits, Watchers, MonitorKinds

(* So it is an invariant. *)
LEMMA MonitorInvHolds == MonitorSpec => []MonitorInv
<1>1. MonitorInit => MonitorInv
  <2> SUFFICES ASSUME MonitorInit PROVE MonitorInv
    OBVIOUS
  <2>1. monitor.pc = "starts" /\ monitor.chosen = {} /\ MonitorFits
    <3>1. PICK kind \in MonitorKinds :
            monitor = [kind |-> kind, pc |-> "starts", devices |-> FALSE, manager |-> FALSE,
                       heard |-> {}, deaf |-> {}, todo |-> {}, counted |-> {}, chosen |-> {},
                       identity |-> AbsentEndpoint, active |-> FALSE, ready |-> FALSE, missed |-> FALSE]
      BY DEF MonitorInit
    <3>2. AbsentEndpoint \in Identities /\ "starts" \in MonitorPlaces /\ {} \in SUBSET Sessions
      BY DEF MonitorPlaces, Identities, AbsentEndpoint
    <3>3. monitor \in Watchers
      <4> SUFFICES [kind |-> kind, pc |-> "starts", devices |-> FALSE, manager |-> FALSE,
                    heard |-> {}, deaf |-> {}, todo |-> {}, counted |-> {}, chosen |-> {},
                    identity |-> AbsentEndpoint, active |-> FALSE, ready |-> FALSE,
                    missed |-> FALSE] \in Watchers
        BY <3>1, Zenon
      <4> QED BY <3>2 DEF Watchers
    <3>4. monitor.pc = "starts" /\ monitor.chosen = {}
      BY <3>1
    <3>5. 0 \in 0..MaxMatching /\ refresh = FALSE
          /\ world = [named |-> 0, matched |-> 0, sessions |-> {}, active |-> {}]
      BY MonitorsAssumption DEF MonitorInit
    <3>6. /\ world \in [named : 0..MaxMatching, matched : 0..MaxMatching, sessions : SUBSET Sessions,
                        active : SUBSET Sessions]
          /\ world.active \subseteq world.sessions
      BY <3>5
    <3>7. refresh \in BOOLEAN
      BY <3>5
    <3> QED BY <3>3, <3>4, <3>6, <3>7 DEF MonitorFits
  <2> QED BY <2>1 DEF MonitorInv, FollowsCurrent, CountsCurrent, SeesEndpoint, Bound
<1>2. MonitorInv /\ [MonitorNext]_monitorVars => MonitorInv'
  <2> SUFFICES ASSUME MonitorInv, [MonitorNext]_monitorVars PROVE MonitorInv'
    OBVIOUS
  <2>1. CASE MonitorSteps
    BY <2>1, MonitorStartsKeep, EnumeratesKeeps, BindingKeeps, SubscribesKeeps, ReadsStateKeeps,
       PublishesSessionsKeeps, MediaKeeps, WakesKeeps DEF MonitorSteps
  <2>2. CASE \E s \in Sessions : SessionsChange(s) \/ StateChanges(s)
    BY <2>2, SessionsChangeKeeps, StateChangesKeeps
  <2>3. CASE UNCHANGED monitorVars
    BY <2>3 DEF monitorVars, MonitorInv, MonitorFits, Watchers, FollowsCurrent, CountsCurrent, SeesEndpoint,
       Bound, Looked
  <2> QED BY <2>1, <2>2, <2>3, MonitorStartsKeep, EndpointsChangeKeeps DEF MonitorNext
<1> QED BY <1>1, <1>2, PTL DEF MonitorSpec

(* The three monitors' threads (v1_media_session_monitor.cpp, v1_hfp_*_monitor.cpp): one that *)
(* sleeps with a snapshot it relies on knows the state of the world, for every number of      *)
(* sessions and endpoints and every order of subscribing, reading and changing.               *)
THEOREM SleepersAreCurrent == MonitorSpec => []SleeperIsCurrent
BY MonitorInvHolds, MonitorInvIsEnough, PTL

---------------------------------------------------------------------------
(* The signaling channel and its two clients.  Nobody opens the channel       *)
(* without its lease, but the dispatcher's worker whose wait the stop cuts,   *)
(* and that only when the diagnostic is gone.                                 *)

SharedSpec == SharedInit /\ [][SharedNext]_sharedVars

Chores == {"none", "open", "opening", "discover", "close", "cancel"}
Leases == [client : {"none", "diagnostic", "render"}, demand : BOOLEAN]
Diagnostics == [started : BOOLEAN,
                state : {"offline", "idle", "opening", "discovering", "closing", "stopping",
                         "complete", "faulted"},
                pending : Chores \ {"opening"}, active : Chores, worker : BOOLEAN, cancel : BOOLEAN,
                stop : BOOLEAN, found : BOOLEAN, closed : BOOLEAN, held : BOOLEAN]

SharedFits ==
    /\ lease \in Leases /\ diag \in Diagnostics
    /\ channel \in [state : {"closed", "opening", "open", "faulted"},
                    by : {"none", "diagnostic", "render"}]
    /\ render \in [pc : {"rest", "rejected", "preempt", "closing", "waiting", "retry", "refused",
                         "owner", "session"},
                   held : BOOLEAN, cut : BOOLEAN, by : {"none", "diagnostic", "render"}]

\* The channel and the lease.
LeaseIsKept(l, c, d, r) ==
    /\ c.state # "closed" => c.by # "none"
    /\ (c.state # "closed" /\ d.started) => l.client = c.by
    /\ r.held => l.client = "render"
    /\ d.held => l.client = "diagnostic"
    /\ r.pc = "owner" => r.held \/ r.cut
    /\ r.cut => ~d.started

\* The diagnostic: who opens has the lease, what is to be cancelled is so.
DiagnosticIsKept(d) ==
    /\ (d.pending = "open" \/ d.active \in {"open", "opening"}) => d.held
    /\ (d.pending # "none" \/ d.active # "none") => d.worker
    /\ d.stop <=> d.state = "stopping"
    /\ d.cancel => d.state = "closing" /\ d.worker /\ (d.pending = "cancel" \/ d.active # "none")
    /\ d.worker => d.started

SharedInv ==
    /\ SharedFits /\ LeaseIsKept(lease, channel, diag, render) /\ DiagnosticIsKept(diag)
    /\ diag.started <=> pnp \in {"started", "closing", "waiting"}

(* A close leaves the channel free, or faulted with the client it had. *)
LEMMA ClosingsKeep ==
    ASSUME SharedFits, LeaseIsKept(lease, channel, diag, render), channel' \in Closings(channel)
    PROVE  /\ channel' \in [state : {"closed", "opening", "open", "faulted"},
                            by : {"none", "diagnostic", "render"}]
           /\ channel'.state # "closed" => channel.state # "closed" /\ channel'.by = channel.by
BY DEF Closings, Unused, SharedFits

(* An open takes a closed channel only. *)
LEMMA OpensKeep ==
    ASSUME SharedFits, NEW client \in {"diagnostic", "render"}, channel' = OpensFor(client)
    PROVE  /\ channel' \in [state : {"closed", "opening", "open", "faulted"},
                            by : {"none", "diagnostic", "render"}]
           /\ channel'.state # "closed"
           /\ channel'.by = (IF channel.state = "closed" THEN client ELSE channel.by)
BY DEF OpensFor, SharedFits

(* The completion of an action leaves the lease and the worker to Takes. *)
LEMMA CompletedKeeps ==
    ASSUME NEW d \in Diagnostics, DiagnosticIsKept(d), NEW succeeded \in BOOLEAN,
           NEW action \in {"open", "discover", "close", "cancel"},
           d.active = action \/ (d.active = "opening" /\ action = "open")
    PROVE  LET e == Completed(d, action, succeeded)
           IN  /\ e \in Diagnostics /\ DiagnosticIsKept(e)
               /\ e.started = d.started /\ e.held = d.held
<1> DEFINE e == Completed(d, action, succeeded)
<1> SUFFICES /\ e \in Diagnostics /\ DiagnosticIsKept(e)
             /\ e.started = d.started /\ e.held = d.held
  OBVIOUS
<1>1. d.worker
  BY DEF DiagnosticIsKept
<1>2. CASE d.stop /\ action # "cancel"
  <2>1. e = [d EXCEPT !.active = "none", !.state = "stopping", !.pending = "cancel"]
    BY <1>2 DEF Completed
  <2>2. /\ e \in Diagnostics /\ e.started = d.started /\ e.held = d.held
        /\ e.worker = d.worker /\ e.active = "none"
        /\ e.state = "stopping" /\ e.pending = "cancel"
        /\ e.cancel = d.cancel /\ e.stop = d.stop
    BY <2>1 DEF Diagnostics, Chores
  <2> HIDE DEF e
  <2> QED BY <1>1, <1>2, <2>2 DEF DiagnosticIsKept
<1>3. CASE ~d.stop /\ d.cancel /\ action # "cancel"
  <2>1. e = [d EXCEPT !.active = "none", !.state = "closing", !.pending = "cancel"]
    BY <1>3 DEF Completed
  <2>2. /\ e \in Diagnostics /\ e.started = d.started /\ e.held = d.held
        /\ e.worker = d.worker /\ e.active = "none"
        /\ e.state = "closing" /\ e.pending = "cancel"
        /\ e.cancel = d.cancel /\ e.stop = d.stop
    BY <2>1 DEF Diagnostics, Chores
  <2> HIDE DEF e
  <2> QED BY <1>1, <1>3, <2>2 DEF DiagnosticIsKept
<1>4. CASE action = "cancel" /\ d.cancel
  <2> DEFINE state == IF succeeded THEN "idle" ELSE "faulted"
  <2>1. e = [d EXCEPT !.active = "none", !.state = state, !.cancel = FALSE, !.pending = "none",
                      !.closed = succeeded]
    BY <1>4 DEF Completed
  <2>2. ~d.stop /\ state \in {"idle", "faulted"}
    BY <1>4 DEF DiagnosticIsKept
  <2> HIDE DEF state
  <2>3. /\ e \in Diagnostics /\ e.started = d.started /\ e.held = d.held
        /\ e.worker = d.worker /\ e.active = "none"
        /\ e.state = state /\ e.pending = "none" /\ e.cancel = FALSE
        /\ e.stop = d.stop
    BY <2>1, <2>2 DEF Diagnostics, Chores
  <2> HIDE DEF e
  <2> QED BY <1>1, <1>4, <2>2, <2>3 DEF DiagnosticIsKept
<1>5. CASE action = "cancel" /\ ~d.cancel
  <2>1. e = [d EXCEPT !.active = "none", !.state = "offline", !.stop = FALSE, !.pending = "none",
                      !.closed = succeeded]
    BY <1>5 DEF Completed
  <2>2. /\ e \in Diagnostics /\ e.started = d.started /\ e.held = d.held
        /\ e.worker = d.worker /\ e.active = "none"
        /\ e.state = "offline" /\ e.pending = "none" /\ e.stop = FALSE
        /\ e.cancel = d.cancel
    BY <2>1 DEF Diagnostics, Chores
  <2> HIDE DEF e
  <2> QED BY <1>1, <1>5, <2>2 DEF DiagnosticIsKept
<1>6. CASE ~d.stop /\ ~d.cancel /\ action = "open" /\ succeeded
  <2>1. e = [d EXCEPT !.active = "none", !.state = "discovering", !.pending = "discover"]
    BY <1>6 DEF Completed
  <2>2. /\ e \in Diagnostics /\ e.started = d.started /\ e.held = d.held
        /\ e.worker = d.worker /\ e.active = "none"
        /\ e.state = "discovering" /\ e.pending = "discover"
        /\ e.cancel = d.cancel /\ e.stop = d.stop
    BY <2>1 DEF Diagnostics, Chores
  <2> HIDE DEF e
  <2> QED BY <1>1, <1>6, <2>2 DEF DiagnosticIsKept
<1>7. CASE ~d.stop /\ ~d.cancel /\ action = "open" /\ ~succeeded
  <2>1. e = [d EXCEPT !.active = "none", !.state = "faulted"]
    BY <1>7 DEF Completed
  <2>2. /\ e \in Diagnostics /\ e.started = d.started /\ e.held = d.held
        /\ e.worker = d.worker /\ e.active = "none"
        /\ e.state = "faulted"
        /\ e.pending = d.pending /\ e.cancel = d.cancel /\ e.stop = d.stop
    BY <2>1 DEF Diagnostics, Chores
  <2> HIDE DEF e
  <2> QED BY <1>1, <1>7, <2>2 DEF DiagnosticIsKept
<1>8. CASE ~d.stop /\ ~d.cancel /\ action = "discover"
  <2>1. e = [d EXCEPT !.active = "none", !.state = "closing", !.pending = "close", !.found = succeeded]
    BY <1>8 DEF Completed
  <2>2. /\ e \in Diagnostics /\ e.started = d.started /\ e.held = d.held
        /\ e.worker = d.worker /\ e.active = "none"
        /\ e.state = "closing" /\ e.pending = "close"
        /\ e.cancel = d.cancel /\ e.stop = d.stop
    BY <2>1 DEF Diagnostics, Chores
  <2> HIDE DEF e
  <2> QED BY <1>1, <1>8, <2>2 DEF DiagnosticIsKept
<1>9. CASE ~d.stop /\ ~d.cancel /\ action = "close"
  <2> DEFINE state == IF succeeded /\ d.found THEN "complete" ELSE "faulted"
  <2>1. e = [d EXCEPT !.active = "none", !.state = state, !.closed = succeeded]
    BY <1>9 DEF Completed
  <2>2. state \in {"complete", "faulted"}
    OBVIOUS
  <2> HIDE DEF state
  <2>3. /\ e \in Diagnostics /\ e.started = d.started /\ e.held = d.held
        /\ e.worker = d.worker /\ e.active = "none"
        /\ e.state = state
        /\ e.pending = d.pending /\ e.cancel = d.cancel /\ e.stop = d.stop
    BY <2>1, <2>2 DEF Diagnostics, Chores
  <2> HIDE DEF e
  <2> QED BY <1>1, <1>9, <2>2, <2>3 DEF DiagnosticIsKept
<1> QED BY <1>2, <1>3, <1>4, <1>5, <1>6, <1>7, <1>8, <1>9

(* The request of the diagnostic, and what its worker takes next. *)
LEMMA DiagnosticTakesKeep ==
    ASSUME SharedInv, RequestDiscover \/ Takes
    PROVE  SharedInv'
<1> USE DEF SharedInv
<1>1. channel' = channel /\ render' = render /\ pnp' = pnp
  BY DEF RequestDiscover, Takes
<1>2. CASE RequestDiscover
  <2>1. lease' = [lease EXCEPT !.client = "diagnostic"] /\ lease.client \in {"none", "diagnostic"}
    BY <1>2 DEF RequestDiscover, MayAcquire
  <2>2. /\ diag' = [diag EXCEPT !.held = TRUE, !.worker = TRUE, !.state = "opening",
                                !.pending = "open", !.found = FALSE]
        /\ diag.started /\ ~diag.stop /\ ~diag.cancel /\ diag.active = "none"
    BY <1>2 DEF RequestDiscover
  <2>3. lease' \in Leases /\ lease'.client = "diagnostic"
    BY <2>1 DEF SharedFits, Leases
  <2>4. diag' \in Diagnostics /\ DiagnosticIsKept(diag') /\ diag'.started /\ diag'.held
    BY <2>2 DEF SharedFits, Diagnostics, Chores, DiagnosticIsKept
  <2>5. LeaseIsKept(lease', channel', diag', render')
    BY <1>1, <2>1, <2>2, <2>3, <2>4 DEF LeaseIsKept, SharedFits
  <2> QED BY <1>1, <2>2, <2>3, <2>4, <2>5 DEF SharedFits
<1>3. CASE Takes /\ diag.pending # "none"
  <2>1. diag' = [diag EXCEPT !.active = diag.pending, !.pending = "none"] /\ lease' = lease
        /\ diag.worker
    BY <1>3 DEF Takes
  <2>2. diag' \in Diagnostics /\ DiagnosticIsKept(diag') /\ diag'.started = diag.started
        /\ diag'.held = diag.held
    <3>1. diag.active = "none" /\ diag.pending # "opening"
      BY <1>3 DEF Takes, SharedFits, Diagnostics
    <3>2. /\ diag' \in Diagnostics /\ diag'.started = diag.started /\ diag'.held = diag.held
          /\ diag'.active = diag.pending /\ diag'.pending = "none" /\ diag'.worker
          /\ diag'.state = diag.state /\ diag'.stop = diag.stop /\ diag'.cancel = diag.cancel
      BY <2>1 DEF SharedFits, Diagnostics, Chores
    <3> QED BY <1>3, <3>1, <3>2 DEF DiagnosticIsKept
  <2> QED BY <1>1, <2>1, <2>2 DEF SharedFits, LeaseIsKept
<1>4. CASE Takes /\ diag.pending = "none"
  <2> DEFINE free == diag.held /\ channel.state = "closed"
  <2>1. diag.active = "none" /\ ~diag.cancel
    BY <1>4 DEF Takes, DiagnosticIsKept
  <2>2. diag' = [diag EXCEPT !.worker = FALSE, !.held = diag.held /\ ~free]
        /\ lease' = IF free THEN Returned(lease, "diagnostic") ELSE lease
    BY <1>4 DEF Takes, Rests
  <2>3. CASE free
    <3>1. lease' = [lease EXCEPT !.client = "none"]
      BY <2>2, <2>3 DEF Returned, LeaseIsKept
    <3>2. diag' = [diag EXCEPT !.worker = FALSE, !.held = FALSE]
      BY <2>2, <2>3
    <3>3. lease' \in Leases /\ lease'.client = "none"
      BY <3>1 DEF SharedFits, Leases
    <3>4. /\ diag' \in Diagnostics /\ DiagnosticIsKept(diag') /\ ~diag'.held
          /\ diag'.started = diag.started
      BY <1>4, <2>1, <3>2 DEF SharedFits, Diagnostics, DiagnosticIsKept
    <3> QED BY <1>1, <2>3, <3>3, <3>4 DEF SharedFits, LeaseIsKept
  <2>4. CASE ~free
    <3> DEFINE held == diag.held /\ ~free
    <3>1. diag.held \in BOOLEAN
      BY DEF SharedFits, Diagnostics
    <3>2. held = diag.held /\ held \in BOOLEAN
      BY <2>4, <3>1
    <3>3. diag' = [diag EXCEPT !.worker = FALSE, !.held = held]
      BY <2>2
    <3>4. lease' = lease
      BY <2>2, <2>4
    <3> HIDE DEF held
    <3>5. /\ diag' \in Diagnostics /\ DiagnosticIsKept(diag') /\ diag'.held = diag.held
          /\ diag'.started = diag.started
      BY <1>4, <2>1, <3>2, <3>3 DEF SharedFits, Diagnostics, DiagnosticIsKept
    <3> QED BY <1>1, <3>4, <3>5 DEF SharedFits, LeaseIsKept
  <2> QED BY <2>3, <2>4
<1> QED BY <1>2, <1>3, <1>4

(* What the worker executes. *)
LEMMA DiagnosticExecutesKeep ==
    ASSUME SharedInv, SubmitsOpen \/ JudgesOpen \/ Discovers \/ Closes
    PROVE  SharedInv'
<1> USE DEF SharedInv
<1>1. lease' = lease /\ render' = render /\ pnp' = pnp
  BY DEF SubmitsOpen, JudgesOpen, Discovers, Closes
<1>2. CASE SubmitsOpen
  <2>1. diag' = [diag EXCEPT !.active = "opening"] /\ diag.active = "open"
        /\ channel' = OpensFor("diagnostic")
    BY <1>2 DEF SubmitsOpen
  <2>2. diag' \in Diagnostics /\ DiagnosticIsKept(diag') /\ diag'.held /\ diag.held
        /\ diag'.started = diag.started
    BY <2>1 DEF SharedFits, Diagnostics, Chores, DiagnosticIsKept
  <2> QED BY <1>1, <2>1, <2>2, OpensKeep DEF SharedFits, LeaseIsKept
<1>3. CASE JudgesOpen
  <2>1. diag.active = "opening"
    BY <1>3 DEF JudgesOpen
  <2>2. \/ diag' = Completed(diag, "open", TRUE) /\ channel' = channel
        \/ diag' = Completed(diag, "open", FALSE) /\ channel' \in Closings(channel)
    BY <1>3 DEF JudgesOpen
  <2>3. diag' \in Diagnostics /\ DiagnosticIsKept(diag') /\ diag'.held = diag.held
        /\ diag'.started = diag.started
    <3>1. PICK succeeded \in BOOLEAN : diag' = Completed(diag, "open", succeeded)
      BY <2>2
    <3> QED BY <2>1, <3>1, CompletedKeeps DEF SharedFits
  <2>4. CASE channel' = channel
    BY <1>1, <2>3, <2>4 DEF SharedFits, LeaseIsKept
  <2>5. CASE channel' \in Closings(channel)
    BY <1>1, <2>3, <2>5, ClosingsKeep DEF SharedFits, LeaseIsKept
  <2> QED BY <2>2, <2>4, <2>5
<1>4. CASE Discovers
  <2>1. PICK found \in BOOLEAN : diag' = Completed(diag, "discover", found)
    BY <1>4 DEF Discovers
  <2>2. diag.active = "discover" /\ channel' = channel
    BY <1>4 DEF Discovers
  <2>3. diag' \in Diagnostics /\ DiagnosticIsKept(diag') /\ diag'.held = diag.held
        /\ diag'.started = diag.started
    BY <2>1, <2>2, CompletedKeeps DEF SharedFits
  <2> QED BY <1>1, <2>2, <2>3 DEF SharedFits, LeaseIsKept
<1>5. CASE Closes
  <2>1. diag.active \in {"close", "cancel"} /\ channel' \in Closings(channel)
    BY <1>5 DEF Closes
  <2>2. PICK succeeded \in BOOLEAN : diag' = Completed(diag, diag.active, succeeded)
    BY <1>5 DEF Closes
  <2>3. diag' \in Diagnostics /\ DiagnosticIsKept(diag') /\ diag'.held = diag.held
        /\ diag'.started = diag.started
    BY <2>1, <2>2, CompletedKeeps DEF SharedFits
  <2> QED BY <1>1, <2>1, <2>3, ClosingsKeep DEF SharedFits, LeaseIsKept
<1> QED BY <1>2, <1>3, <1>4, <1>5

(* Where the worker goes next; only an acquisition makes it the owner. *)
LEMMA RenderToKeeps ==
    ASSUME SharedFits,
           NEW pc \in {"rest", "rejected", "preempt", "closing", "waiting", "retry", "refused"},
           RenderTo(pc)
    PROVE  /\ render' \in [pc : {"rest", "rejected", "preempt", "closing", "waiting", "retry", "refused",
                                "owner", "session"},
                           held : BOOLEAN, cut : BOOLEAN, by : {"none", "diagnostic", "render"}]
           /\ render'.held = render.held /\ render'.cut = render.cut /\ render'.pc = pc
<1> DEFINE by == IF pc = "refused" THEN lease.client ELSE "none"
<1>1. render' = [render EXCEPT !.pc = pc, !.by = by]
  BY DEF RenderTo
<1>2. by \in {"none", "diagnostic", "render"}
  BY DEF SharedFits, Leases
<1> HIDE DEF by
<1> QED BY <1>1, <1>2 DEF SharedFits

(* An adapter that has just started. *)
LEMMA AtStart ==
    ASSUME SharedInit
    PROVE  SharedInv
<1>1. diag \in Diagnostics /\ DiagnosticIsKept(diag) /\ diag.started /\ ~diag.held
  BY DEF SharedInit, DiagnosticUp, DiagnosticDown, Diagnostics, Chores, DiagnosticIsKept
<1>2. SharedFits
  BY <1>1 DEF SharedInit, SharedFits, Free, Unused, Leases
<1> QED BY <1>1, <1>2 DEF SharedInit, SharedInv, LeaseIsKept, Unused

(* The dispatcher's worker, while it waits for the channel. *)
LEMMA RenderAcquiresKeeps ==
    ASSUME SharedInv, Acquires \/ Retries
    PROVE  SharedInv'
<1> USE DEF SharedInv
<1>1. channel' = channel /\ diag' = diag /\ pnp' = pnp
  BY DEF Acquires, Retries
<1>2. CASE render.cut /\ Retries
  <2>1. lease' = lease /\ render' = [render EXCEPT !.pc = "owner", !.by = "none"]
    BY <1>2 DEF Retries, RenderTo
  <2> QED BY <1>1, <1>2, <2>1 DEF SharedFits, LeaseIsKept
<1>3. CASE MayAcquire("render") /\ ~(render.cut /\ Retries)
  <2>1. /\ lease' = [lease EXCEPT !.client = "render"]
        /\ render' = [render EXCEPT !.pc = "owner", !.held = TRUE]
    BY <1>3 DEF Acquires, Retries, TriesToAcquire
  <2>2. lease.client \in {"none", "render"} /\ lease' \in Leases /\ lease'.client = "render"
        /\ ~diag.held
    BY <1>3, <2>1 DEF MayAcquire, SharedFits, Leases, LeaseIsKept
  <2> QED BY <1>1, <2>1, <2>2 DEF SharedFits, LeaseIsKept
<1>4. CASE ~MayAcquire("render") /\ ~(render.cut /\ Retries)
  <2>1. lease' = lease /\ (RenderTo("rejected") \/ RenderTo("refused"))
    BY <1>4 DEF Acquires, Retries, TriesToAcquire
  <2> QED BY <1>1, <2>1, RenderToKeeps DEF SharedFits, LeaseIsKept
<1> QED BY <1>2, <1>3, <1>4

(* The render client waits for the diagnostic owner, or sets it aside. *)
LEMMA RenderWaitsKeeps ==
    ASSUME SharedInv, LooksAtOwner \/ Preempts \/ PreemptCloses \/ Waited \/ GivesUp
    PROVE  SharedInv'
<1> USE DEF SharedInv
<1>1. /\ lease' = lease /\ pnp' = pnp
      /\ \E pc \in {"rest", "preempt", "closing", "waiting", "retry", "refused"} : RenderTo(pc)
  BY DEF LooksAtOwner, Preempts, PreemptCloses, Waited, GivesUp
<1>2. PICK pc \in {"rest", "preempt", "closing", "waiting", "retry", "refused"} : RenderTo(pc)
  BY <1>1
<1>3. /\ render' \in [pc : {"rest", "rejected", "preempt", "closing", "waiting", "retry", "refused",
                          "owner", "session"},
                     held : BOOLEAN, cut : BOOLEAN, by : {"none", "diagnostic", "render"}]
      /\ render'.held = render.held /\ render'.cut = render.cut /\ render'.pc # "owner"
  BY <1>2, RenderToKeeps
<1>4. CASE UNCHANGED <<channel, diag>>
  BY <1>1, <1>3, <1>4 DEF SharedFits, LeaseIsKept
<1>5. CASE PreemptCloses
  <2>1. channel' \in Closings(channel) /\ diag' = diag
    BY <1>5 DEF PreemptCloses
  <2> QED BY <1>1, <1>3, <2>1, ClosingsKeep DEF SharedFits, LeaseIsKept
<1>6. CASE Preempts
  <2>1. channel' = channel
    BY <1>6 DEF Preempts
  <2>2. CASE diag' = diag
    BY <1>4, <2>1, <2>2
  <2>3. CASE /\ diag.started /\ ~diag.stop /\ ~diag.cancel /\ diag.worker
             /\ diag' = [diag EXCEPT !.cancel = TRUE, !.state = "closing", !.pending = "cancel"]
    <3>1. diag' \in Diagnostics /\ DiagnosticIsKept(diag') /\ diag'.held = diag.held
          /\ diag'.started = diag.started
      BY <2>3 DEF SharedFits, Diagnostics, Chores, DiagnosticIsKept
    <3> QED BY <1>1, <1>3, <2>1, <3>1 DEF SharedFits, LeaseIsKept
  <2> QED BY <1>6, <2>2, <2>3 DEF Preempts
<1> QED BY <1>4, <1>5, <1>6 DEF LooksAtOwner, Waited, GivesUp

(* A render session opens a channel and closes it. *)
LEMMA RenderSessionKeeps ==
    ASSUME SharedInv, RenderOpens \/ RenderCloses
    PROVE  SharedInv'
<1> USE DEF SharedInv
<1>1. diag' = diag /\ pnp' = pnp
  BY DEF RenderOpens, RenderCloses
<1>2. CASE RenderOpens
  <2>1. lease' = lease /\ channel' = OpensFor("render") /\ render.pc = "owner"
        /\ render' = [render EXCEPT !.pc = "session", !.by = "none"]
    BY <1>2 DEF RenderOpens, RenderTo
  <2>2. diag.started => render.held /\ lease.client = "render"
    BY <2>1 DEF LeaseIsKept
  <2> QED BY <1>1, <2>1, <2>2, OpensKeep DEF SharedFits, LeaseIsKept
<1>3. CASE RenderCloses
  <2> DEFINE free == render.held /\ channel'.state = "closed"
             pc == IF channel'.state = "closed" THEN "rest" ELSE "session"
  <2>1. /\ channel' \in Closings(channel)
        /\ lease' = IF free THEN Returned(lease, "render") ELSE lease
        /\ render' = [render EXCEPT !.pc = pc, !.held = render.held /\ ~free]
    BY <1>3 DEF RenderCloses
  <2>2. pc \in {"rest", "session"}
    OBVIOUS
  <2>3. CASE free
    <3>1. lease' = [lease EXCEPT !.client = "none"] /\ ~diag.held
      BY <2>1, <2>3 DEF Returned, LeaseIsKept
    <3>2. render' = [render EXCEPT !.pc = pc, !.held = FALSE]
      BY <2>1, <2>3
    <3>3. lease' \in Leases /\ lease'.client = "none"
      BY <3>1 DEF SharedFits, Leases
    <3> HIDE DEF pc
    <3>4. ~render'.held /\ render'.pc \in {"rest", "session"} /\ render'.cut = render.cut
          /\ render'.by = render.by /\ render' = [render EXCEPT !.pc = pc, !.held = FALSE]
      BY <2>2, <3>2 DEF SharedFits
    <3> QED BY <1>1, <2>1, <2>2, <2>3, <3>1, <3>3, <3>4, ClosingsKeep DEF SharedFits, LeaseIsKept
  <2>4. CASE ~free
    <3>1. lease' = lease /\ render' = [render EXCEPT !.pc = pc]
      BY <2>1, <2>4 DEF SharedFits
    <3> HIDE DEF pc
    <3> QED BY <1>1, <2>1, <2>2, <3>1, ClosingsKeep DEF SharedFits, LeaseIsKept
  <2> QED BY <2>3, <2>4
<1> QED BY <1>2, <1>3

(* The stop of the adapter, and its next start. *)
LEMMA StopKeeps ==
    ASSUME SharedInv, StopSteps
    PROVE  SharedInv'
<1> USE DEF SharedInv
<1>1. CASE StopsDiagnostic
  <2>1. /\ UNCHANGED <<lease, channel, render>> /\ diag.started
        /\ diag' = [diag EXCEPT !.stop = TRUE, !.cancel = FALSE, !.state = "stopping",
                                !.pending = "cancel", !.worker = TRUE]
        /\ pnp' \in {"closing", "waiting"}
    BY <1>1 DEF StopsDiagnostic
  <2>2. diag' \in Diagnostics /\ DiagnosticIsKept(diag') /\ diag'.held = diag.held /\ diag'.started
    BY <2>1 DEF SharedFits, Diagnostics, Chores, DiagnosticIsKept
  <2> QED BY <2>1, <2>2 DEF SharedFits, LeaseIsKept
<1>2. CASE StopCloses
  <2>1. channel' \in Closings(channel) /\ UNCHANGED <<lease, diag, render>> /\ diag.started
        /\ pnp' = "waiting"
    BY <1>2 DEF StopCloses
  <2> QED BY <2>1, ClosingsKeep DEF SharedFits, LeaseIsKept
<1>3. CASE DiagnosticStopped
  <2>1. /\ UNCHANGED <<channel, render>> /\ ~diag.worker /\ pnp' = "dispatcher"
        /\ lease' = IF diag.held THEN Returned(lease, "diagnostic") ELSE lease
        /\ diag' = [diag EXCEPT !.started = FALSE, !.held = FALSE]
    BY <1>3 DEF DiagnosticStopped
  <2>2. diag' \in Diagnostics /\ DiagnosticIsKept(diag') /\ ~diag'.held /\ ~diag'.started
    BY <2>1 DEF SharedFits, Diagnostics, DiagnosticIsKept
  <2>3. lease' \in Leases /\ (render.held => lease'.client = "render")
    BY <2>1 DEF SharedFits, Leases, LeaseIsKept, Returned
  <2> QED BY <2>1, <2>2, <2>3 DEF SharedFits, LeaseIsKept
<1>4. CASE StopsDispatcher
  <2>1. /\ UNCHANGED <<channel, diag>> /\ pnp' = "resting" /\ pnp = "dispatcher"
        /\ lease' = [lease EXCEPT !.demand = FALSE]
        /\ render' = [render EXCEPT !.cut = TRUE]
    BY <1>4 DEF StopsDispatcher
  <2>2. lease' \in Leases /\ lease'.client = lease.client
    BY <2>1 DEF SharedFits, Leases
  <2>3. ~diag.started
    BY <2>1
  <2> QED BY <2>1, <2>2, <2>3 DEF SharedFits, LeaseIsKept
<1>5. CASE Stopped
  <2>1. /\ lease' = Free /\ channel' = Unused /\ pnp' = "started" /\ diag' = DiagnosticUp
        /\ render' = [pc |-> "rest", held |-> FALSE, cut |-> FALSE, by |-> "none"]
    BY <1>5 DEF Stopped
  <2>2. diag' \in Diagnostics /\ DiagnosticIsKept(diag') /\ diag'.started /\ ~diag'.held
    BY <2>1 DEF DiagnosticUp, DiagnosticDown, Diagnostics, Chores, DiagnosticIsKept
  <2>3. SharedFits'
    BY <2>1, <2>2 DEF SharedFits, Free, Unused, Leases
  <2> QED BY <2>1, <2>2, <2>3 DEF LeaseIsKept, Unused
<1> QED BY <1>1, <1>2, <1>3, <1>4, <1>5 DEF StopSteps

(* So it is an invariant. *)
LEMMA SharedInvHolds == SharedSpec => []SharedInv
<1>1. SharedInit => SharedInv
  BY AtStart DEF SharedInit, SharedInv
<1>2. SharedInv /\ [SharedNext]_sharedVars => SharedInv'
  <2> SUFFICES ASSUME SharedInv, [SharedNext]_sharedVars PROVE SharedInv'
    OBVIOUS
  <2>1. CASE OpenCompletes
    <3>1. /\ UNCHANGED <<lease, diag, render, pnp>> /\ channel.state = "opening"
          /\ channel' = [channel EXCEPT !.state = "open"] \/ channel' = Unused
      BY <2>1 DEF OpenCompletes
    <3> QED BY <3>1 DEF SharedInv, SharedFits, LeaseIsKept, Unused
  <2>2. CASE DemandChanges
    <3>1. /\ UNCHANGED <<channel, diag, render, pnp>>
          /\ lease' = [lease EXCEPT !.demand = ~lease.demand]
      BY <2>2 DEF DemandChanges
    <3>2. lease' \in Leases /\ lease'.client = lease.client
      BY <3>1 DEF SharedInv, SharedFits, Leases
    <3> QED BY <3>1, <3>2 DEF SharedInv, SharedFits, LeaseIsKept
  <2>3. CASE UNCHANGED sharedVars
    BY <2>3 DEF sharedVars, SharedInv, SharedFits
  <2> QED BY <2>1, <2>2, <2>3, DiagnosticTakesKeep, DiagnosticExecutesKeep, RenderAcquiresKeeps,
             RenderWaitsKeeps, RenderSessionKeeps, StopKeeps
          DEF SharedNext, DiagnosticSteps, RenderSteps
<1> QED BY <1>1, <1>2, PTL DEF SharedSpec

(* NldDirectPdoArbiter and the two owners (direct-pdo): while the diagnostic lives, a channel *)
(* that is not closed is that of the client that holds the lease, and the diagnostic owner is *)
(* consistent, whatever is cancelled, preempted or stopped beside it.                         *)
THEOREM ChannelStaysWithItsClient == SharedSpec => []ChannelHasOneClient
<1>1. SharedInv => ChannelHasOneClient
  BY DEF SharedInv, LeaseIsKept, DiagnosticIsKept, ChannelHasOneClient
<1> QED BY <1>1, SharedInvHolds, PTL

---------------------------------------------------------------------------
(* The installed agent.  A session that ended by itself is either not heard   *)
(* of yet, or its gate is armed and stays so while the interface is there; a  *)
(* recovery takes a disconnect that the loop has seen and not used yet.       *)

LegacySpec == AgentInit /\ [][AgentNext]_legacyVars

Transports == [state : {"absent", "ready", "open", "faulted", "failed"}, session : 0..MaxSessions,
               reason : {"timeout", "remote", "backend", "other", NoFault}]
Views == {"connected", "disconnected", "failed"}
Loops == [path : Paths,
          pc : {"idle", "looking", "start", "recover", "running", "stopping", "restarting", "ended"},
          config : Files,
          seen : [paired : Views, link : {"absent", "ready", "open", "faulted", "failed"}],
          info : Transports, disconnected : BOOLEAN, gate : {NoGate, "armed", "waiting"},
          paired : Views]

LegacyFits ==
    /\ agent \in Loops /\ transport \in Transports /\ media \in {"none", "running", "ended"}
    /\ paired \in BOOLEAN /\ told \in BOOLEAN /\ owed \in BOOLEAN /\ saved \in Files
    /\ edges \in Nat /\ recoveries \in Nat

\* Where a session that ended by itself is remembered.
EndIsRemembered ==
    \/ media = "ended" /\ agent.pc \in {"running", "stopping"}
    \/ media = "none" /\ agent.pc = "ended"
    \/ media = "none" /\ agent.gate = "armed" /\ agent.pc \in {"idle", "looking"}
OwesAbsence ==
    owed => agent.path = "legacy" /\ transport.state # "absent" /\ EndIsRemembered

\* A disconnect that was seen and one that was not are worth a recovery each.
SeenLoss(a) == IF a.disconnected THEN 1 ELSE 0
EdgesSuffice ==
    /\ recoveries + SeenLoss(agent) <= edges
    /\ ~paired => recoveries + 1 <= edges
    /\ (agent.pc = "looking" /\ agent.paired = "disconnected") => recoveries + 1 <= edges
    /\ (agent.pc \in {"looking", "recover"} /\ agent.paired = "connected" /\ ~paired) =>
          recoveries + SeenLoss(agent) + 1 <= edges
RecoversSeen ==
    (agent.pc = "recover" /\ agent.info.reason # "timeout") =>
        agent.disconnected /\ agent.paired = "connected"

LegacyInv == LegacyFits /\ OwesAbsence /\ EdgesSuffice /\ RecoversSeen

(* An agent that has just started. *)
LEMMA NewAgentFits ==
    ASSUME NEW path \in Paths
    PROVE  /\ NewAgent(path) \in Loops
           /\ NewAgent(path).pc = "idle" /\ ~NewAgent(path).disconnected
<1>1. Absent \in Transports
  BY AgentAssumption DEF Absent, Transports
<1> QED BY <1>1 DEF NewAgent, Loops, Files, Unseen, Views, NoGate

(* The configuration, then the headset. *)
LEMMA TurnsKeep ==
    ASSUME LegacyInv, Turns
    PROVE  LegacyInv'
<1> USE DEF LegacyInv
<1>1. UNCHANGED <<media, paired, transport, saved, told, owed, edges, recoveries>> /\ agent.pc = "idle"
  BY DEF Turns, World, Ghosts
<1>2. CASE /\ agent.path = "unattended"
           /\ agent' = [agent EXCEPT !.config = saved, !.pc = "start"]
  <2>1. LegacyFits' /\ agent'.path = agent.path /\ agent'.pc = "start"
        /\ agent'.disconnected = agent.disconnected
    BY <1>1, <1>2 DEF LegacyFits, Loops
  <2> QED BY <1>1, <1>2, <2>1 DEF OwesAbsence, EdgesSuffice, SeenLoss, RecoversSeen
<1>3. CASE \/ agent' = [agent EXCEPT !.pc = "ended"]
           \/ agent' = [agent EXCEPT !.config = saved]
  <2>1. /\ LegacyFits' /\ agent'.path = agent.path /\ agent'.pc \in {"idle", "ended"}
        /\ agent'.disconnected = agent.disconnected /\ agent'.gate = agent.gate
    BY <1>1, <1>3 DEF LegacyFits, Loops
  <2> QED BY <1>1, <2>1 DEF OwesAbsence, EndIsRemembered, EdgesSuffice, SeenLoss, RecoversSeen
<1>4. CASE \E seen \in HeadsetSeen :
             agent' = [agent EXCEPT !.config = saved, !.paired = seen, !.pc = "looking"]
  <2>1. PICK seen \in HeadsetSeen :
          agent' = [agent EXCEPT !.config = saved, !.paired = seen, !.pc = "looking"]
    BY <1>4
  <2>2. seen \in Views /\ (seen = "connected" => paired) /\ (seen = "disconnected" => ~paired)
    BY DEF HeadsetSeen, Views
  <2>3. /\ LegacyFits' /\ agent'.path = agent.path /\ agent'.pc = "looking"
        /\ agent'.disconnected = agent.disconnected /\ agent'.gate = agent.gate
        /\ agent'.paired = seen
    BY <1>1, <2>1, <2>2 DEF LegacyFits, Loops
  <2> QED BY <1>1, <2>2, <2>3 DEF OwesAbsence, EndIsRemembered, EdgesSuffice, SeenLoss, RecoversSeen
<1> QED BY <1>2, <1>3, <1>4 DEF Turns

(* The transport, and what follows from it. *)
LEMMA LooksKeep ==
    ASSUME LegacyInv, Looks
    PROVE  LegacyInv'
<1> USE DEF LegacyInv
<1>1. UNCHANGED <<media, paired, transport, saved, told, owed, edges, recoveries>>
      /\ agent.pc = "looking"
  BY DEF Looks, World, Ghosts
<1> DEFINE connected == agent.paired = "connected"
           disconnected == agent.disconnected \/ agent.paired = "disconnected"
           direct == agent.path = "direct"
           now(seen) == [paired |-> agent.paired, link |-> seen.state]
           gate(seen) == IF direct THEN agent.gate ELSE Gate(agent.gate, connected, seen)
           plan(seen) == IF direct THEN DirectPlan(connected, seen, RecoveryAllowed(seen, disconnected))
                         ELSE LegacyPlan(connected, seen, now(seen) # agent.seen, gate(seen))
           becameReady(seen) == Usable(seen) /\ agent.seen.link \notin {"ready", "open"}
<1>2. PICK seen \in LinkSeen :
        agent' = [agent EXCEPT !.seen = now(seen), !.gate = gate(seen),
                    !.info = IF direct /\ plan(seen) # "idle" THEN seen ELSE Absent,
                    !.disconnected = disconnected /\ ~becameReady(seen),
                    !.pc = plan(seen)]
  BY DEF Looks
<1> DEFINE info == IF direct /\ plan(seen) # "idle" THEN seen ELSE Absent
           kept == disconnected /\ ~becameReady(seen)
<1>3. seen \in Transports /\ Absent \in Transports
      /\ (agent.gate # NoGate => seen.state = transport.state \/ seen.state = "failed")
  BY AgentAssumption DEF LinkSeen, Transports, Absent, NoFault, LegacyFits
<1>4. gate(seen) \in {NoGate, "armed", "waiting"}
      /\ (~direct /\ agent.gate = "armed" /\ seen.state # "absent" => gate(seen) = "armed")
  BY DEF Gate, LegacyFits, Loops, NoGate
<1>5. /\ plan(seen) \in {"idle", "start", "recover"}
      /\ plan(seen) = "recover" =>
            /\ direct /\ seen.state = "faulted"
            /\ seen.reason # "timeout" => disconnected /\ connected
      /\ (~direct /\ gate(seen) # NoGate) => plan(seen) = "idle"
  BY DEF DirectPlan, LegacyPlan, RecoveryAllowed
<1>6. now(seen) \in [paired : Views, link : {"absent", "ready", "open", "faulted", "failed"}]
  BY <1>3 DEF Transports, LegacyFits, Loops
<1>7. info \in Transports /\ (plan(seen) = "recover" => info = seen)
  BY <1>3, <1>5
<1>8. kept \in BOOLEAN /\ (kept => disconnected)
      /\ (plan(seen) = "recover" /\ disconnected => kept)
  BY <1>5 DEF Usable
<1> HIDE DEF now, gate, plan, info, kept
<1>9. /\ agent' \in Loops /\ agent'.path = agent.path /\ agent'.paired = agent.paired
      /\ agent'.pc = plan(seen) /\ agent'.gate = gate(seen) /\ agent'.info = info
      /\ agent'.disconnected = kept
  <2>1. agent' = [agent EXCEPT !.seen = now(seen), !.gate = gate(seen), !.info = info,
                               !.disconnected = kept, !.pc = plan(seen)]
    BY <1>2 DEF info, kept
  <2> QED BY <1>4, <1>5, <1>6, <1>7, <1>8, <2>1 DEF LegacyFits, Loops
<1>10. LegacyFits'
  BY <1>1, <1>9 DEF LegacyFits
<1>11. OwesAbsence'
  <2> SUFFICES ASSUME owed PROVE OwesAbsence'
    BY <1>1 DEF OwesAbsence
  <2>1. ~direct /\ agent.gate = "armed" /\ media = "none" /\ transport.state # "absent"
    BY <1>1 DEF OwesAbsence, EndIsRemembered
  <2>2. seen.state # "absent" /\ gate(seen) = "armed"
    BY <1>3, <1>4, <2>1 DEF NoGate
  <2>3. plan(seen) = "idle"
    BY <1>5, <2>1, <2>2 DEF NoGate
  <2> QED BY <1>1, <1>9, <2>1, <2>2, <2>3 DEF OwesAbsence, EndIsRemembered
<1>12. EdgesSuffice' /\ RecoversSeen'
  <2>1. SeenLoss(agent') = (IF kept THEN 1 ELSE 0) /\ SeenLoss(agent) = (IF agent.disconnected THEN 1 ELSE 0)
    BY <1>9 DEF SeenLoss
  <2>2. kept => agent.disconnected \/ agent.paired = "disconnected"
    BY <1>8
  <2>3. recoveries + SeenLoss(agent') <= edges
    BY <1>1, <2>1, <2>2 DEF EdgesSuffice, LegacyFits
  <2>4. (agent'.pc = "recover" /\ agent'.paired = "connected" /\ ~paired) =>
           recoveries + SeenLoss(agent') + 1 <= edges
    BY <1>1, <1>9, <2>1, <2>2 DEF EdgesSuffice, LegacyFits
  <2>5. RecoversSeen'
    BY <1>5, <1>7, <1>8, <1>9 DEF RecoversSeen
  <2>6. agent'.pc # "looking"
    BY <1>5, <1>9
  <2> QED BY <1>1, <2>3, <2>4, <2>5, <2>6 DEF EdgesSuffice
<1> QED BY <1>10, <1>11, <1>12

(* A recovery uses up the disconnect that it needed. *)
LEMMA RecoversKeep ==
    ASSUME LegacyInv, Recovers
    PROVE  LegacyInv'
<1> USE DEF LegacyInv
<1>1. UNCHANGED <<media, paired, saved, told, owed, edges>> /\ agent.pc = "recover"
  BY DEF Recovers
<1>2. ~owed
  BY <1>1 DEF OwesAbsence, EndIsRemembered
<1>3. CASE agent' = [agent EXCEPT !.pc = "idle"] /\ UNCHANGED <<transport, recoveries>>
  <2>1. LegacyFits' /\ agent'.pc = "idle" /\ agent'.disconnected = agent.disconnected
    BY <1>1, <1>3 DEF LegacyFits, Loops
  <2> QED BY <1>1, <1>2, <1>3, <2>1 DEF OwesAbsence, EdgesSuffice, SeenLoss, RecoversSeen
<1>4. CASE /\ transport = agent.info
           /\ transport' = [transport EXCEPT !.state = "ready", !.reason = NoFault]
           /\ agent' = Recovered(agent)
           /\ recoveries' = IF transport.reason = "timeout" THEN recoveries ELSE recoveries + 1
  <2>1. transport' \in Transports
    BY <1>4 DEF LegacyFits, Transports
  <2> DEFINE view == [agent.seen EXCEPT !.link = "failed"]
  <2>2. view \in [paired : Views, link : {"absent", "ready", "open", "faulted", "failed"}]
    BY DEF LegacyFits, Loops
  <2>3. agent' = [agent EXCEPT !.pc = "idle", !.seen = view, !.disconnected = FALSE]
    BY <1>4 DEF Recovered, LegacyFits, Loops
  <2> HIDE DEF view
  <2>4. agent' \in Loops /\ agent'.pc = "idle" /\ ~agent'.disconnected
    BY <2>2, <2>3 DEF LegacyFits, Loops
  <2>5. SeenLoss(agent') = 0 /\ recoveries' \in Nat /\ edges \in Nat /\ recoveries \in Nat
    BY <1>4, <2>4 DEF SeenLoss, LegacyFits
  <2>6. CASE agent.info.reason = "timeout"
    <3>1. recoveries' = recoveries
      BY <1>4, <2>6
    <3> QED BY <1>1, <1>2, <2>1, <2>4, <2>5, <3>1
         DEF LegacyFits, OwesAbsence, EdgesSuffice, RecoversSeen, SeenLoss
  <2>7. CASE agent.info.reason # "timeout"
    <3>1. recoveries' = recoveries + 1 /\ SeenLoss(agent) = 1 /\ agent.paired = "connected"
      BY <1>1, <1>4, <2>7 DEF RecoversSeen, SeenLoss
    <3>2. recoveries + 1 <= edges /\ (~paired => recoveries + 1 + 1 <= edges)
      BY <1>1, <2>5, <3>1 DEF EdgesSuffice
    <3> QED BY <1>1, <1>2, <2>1, <2>4, <2>5, <3>1, <3>2
         DEF LegacyFits, OwesAbsence, EdgesSuffice, RecoversSeen
  <2> QED BY <2>6, <2>7
<1> QED BY <1>3, <1>4 DEF Recovers

(* A media process starts, and is stopped, beside no session that ended by itself. *)
LEMMA ProcessKeeps ==
    ASSUME LegacyInv, Starts \/ Waits \/ StopsMedia \/ HearsEnd
    PROVE  LegacyInv'
<1> USE DEF LegacyInv
<1>1. UNCHANGED <<paired, transport, saved, told, owed, edges, recoveries>>
  BY DEF Starts, Waits, StopsMedia, HearsEnd, World, Ghosts
<1>2. CASE Starts
  <2>1. ~owed
    BY <1>2 DEF Starts, OwesAbsence, EndIsRemembered
  <2>2. /\ media' \in {"none", "running", "ended"}
        /\ agent' = [agent EXCEPT !.pc = "running"] \/ agent' = [agent EXCEPT !.pc = "idle"]
    BY <1>2 DEF Starts, StartProbe, LegacyFits
  <2>3. LegacyFits' /\ agent'.pc \in {"running", "idle"} /\ agent'.disconnected = agent.disconnected
    BY <1>1, <2>2 DEF LegacyFits, Loops
  <2> QED BY <1>1, <2>1, <2>3 DEF OwesAbsence, EdgesSuffice, SeenLoss, RecoversSeen
<1>3. CASE Waits
  <2>1. /\ media' = media /\ agent.pc = "running"
        /\ \/ agent' = [agent EXCEPT !.pc = "stopping"]
           \/ media # "ended" /\ agent' = [agent EXCEPT !.pc = "restarting"]
    BY <1>3 DEF Waits
  <2>2. /\ LegacyFits' /\ agent'.disconnected = agent.disconnected /\ agent'.path = agent.path
        /\ agent'.pc = "stopping" \/ (media # "ended" /\ agent'.pc = "restarting")
    BY <1>1, <2>1 DEF LegacyFits, Loops
  <2> QED BY <1>1, <2>1, <2>2 DEF OwesAbsence, EndIsRemembered, EdgesSuffice, SeenLoss, RecoversSeen
<1>4. CASE StopsMedia
  <2>1. /\ media' = "none" /\ agent.pc \in {"stopping", "restarting"}
        /\ agent' = [agent EXCEPT !.pc = IF agent.pc = "stopping" THEN "ended" ELSE "idle"]
    BY <1>4 DEF StopsMedia
  <2>2. /\ LegacyFits' /\ agent'.disconnected = agent.disconnected /\ agent'.path = agent.path
        /\ agent'.pc = (IF agent.pc = "stopping" THEN "ended" ELSE "idle")
    BY <1>1, <2>1 DEF LegacyFits, Loops
  <2> QED BY <1>1, <2>1, <2>2 DEF OwesAbsence, EndIsRemembered, EdgesSuffice, SeenLoss, RecoversSeen
<1>5. CASE HearsEnd /\ agent.path = "legacy"
  <2>1. /\ media' = "none" /\ media = "ended"
        /\ agent' = [agent EXCEPT !.pc = "idle", !.gate = "armed"]
    BY <1>5 DEF HearsEnd
  <2>2. /\ LegacyFits' /\ agent'.disconnected = agent.disconnected /\ agent'.path = agent.path
        /\ agent'.pc = "idle" /\ agent'.gate = "armed"
    BY <1>1, <2>1 DEF LegacyFits, Loops
  <2> QED BY <1>1, <2>1, <2>2 DEF OwesAbsence, EndIsRemembered, EdgesSuffice, SeenLoss, RecoversSeen
<1>6. CASE HearsEnd /\ agent.path # "legacy"
  <2>1. PICK view \in {agent.seen, Unseen} :
          agent' = [agent EXCEPT !.pc = "idle", !.seen = IF agent.path = "direct" THEN view ELSE agent.seen]
    BY <1>6 DEF HearsEnd
  <2> DEFINE seen == IF agent.path = "direct" THEN view ELSE agent.seen
  <2>2. seen \in [paired : Views, link : {"absent", "ready", "open", "faulted", "failed"}]
    BY DEF LegacyFits, Loops, Unseen, Views
  <2> HIDE DEF seen
  <2>3. agent' = [agent EXCEPT !.pc = "idle", !.seen = seen]
    BY <2>1 DEF seen
  <2>4. media' = "none" /\ ~owed
    BY <1>6 DEF HearsEnd, OwesAbsence
  <2>5. LegacyFits' /\ agent'.disconnected = agent.disconnected /\ agent'.pc = "idle"
    BY <1>1, <2>2, <2>3, <2>4 DEF LegacyFits, Loops
  <2> QED BY <1>1, <2>4, <2>5 DEF OwesAbsence, EdgesSuffice, SeenLoss, RecoversSeen
<1> QED BY <1>2, <1>3, <1>4, <1>5, <1>6

(* The agent starts afresh. *)
LEMMA RestartsKeep ==
    ASSUME LegacyInv, Restarts
    PROVE  LegacyInv'
<1> USE DEF LegacyInv
<1>1. /\ agent' = NewAgent(agent.path) /\ media' = "none" /\ told' = FALSE /\ owed' = FALSE
      /\ recoveries' = 0 /\ edges' = (IF paired THEN 0 ELSE 1)
      /\ UNCHANGED <<paired, transport, saved>>
  BY DEF Restarts
<1>2. agent' \in Loops /\ agent'.pc = "idle" /\ ~agent'.disconnected
  <2>1. agent.path \in Paths
    BY DEF LegacyFits, Loops
  <2> QED BY <1>1, <2>1, NewAgentFits
<1>3. SeenLoss(agent') = 0
  BY <1>2 DEF SeenLoss
<1>4. LegacyFits'
  <2>1. /\ paired' \in BOOLEAN /\ transport' \in Transports /\ saved' \in Files
        /\ edges' \in {0, 1}
    BY <1>1 DEF LegacyFits
  <2> QED BY <1>1, <1>2, <2>1 DEF LegacyFits
<1>5. OwesAbsence' /\ RecoversSeen'
  BY <1>1, <1>2 DEF OwesAbsence, RecoversSeen
<1>6. EdgesSuffice'
  BY <1>1, <1>2, <1>3 DEF EdgesSuffice, SeenLoss
<1> QED BY <1>4, <1>5, <1>6

(* The media process, the headset, the transport, the panel and the stop. *)
LEMMA WorldKeeps ==
    ASSUME LegacyInv, MediaEnds \/ HeadsetChanges \/ LinkChanges \/ PanelSaves \/ AsksStop
    PROVE  LegacyInv'
<1> USE DEF LegacyInv
<1>1. agent' = agent /\ recoveries' = recoveries /\ SeenLoss(agent) \in 0..1
  BY DEF MediaEnds, HeadsetChanges, LinkChanges, PanelSaves, AsksStop, Ghosts, SeenLoss
<1>2. CASE MediaEnds
  <2>1. /\ media = "running" /\ media' = "ended" /\ ~owed
        /\ UNCHANGED <<paired, transport, saved, told, edges>>
    BY <1>2 DEF MediaEnds, World, OwesAbsence, EndIsRemembered
  <2>2. owed' \in BOOLEAN
        /\ (owed' => agent.path = "legacy" /\ agent.pc = "running" /\ transport.state # "absent")
    BY <1>2, <2>1 DEF MediaEnds, LegacyFits
  <2> QED BY <1>1, <2>1, <2>2
       DEF LegacyFits, OwesAbsence, EndIsRemembered, EdgesSuffice, RecoversSeen
<1>3. CASE HeadsetChanges
  <2>1. /\ UNCHANGED <<media, transport, saved, told, owed>> /\ paired' = ~paired
        /\ edges' = IF paired THEN edges + 1 ELSE edges
    BY <1>3 DEF HeadsetChanges
  <2> QED BY <1>1, <2>1 DEF LegacyFits, OwesAbsence, EndIsRemembered, EdgesSuffice, RecoversSeen
<1>4. CASE LinkChanges
  <2>1. /\ UNCHANGED <<media, paired, saved, told, edges>>
        /\ owed' = (owed /\ transport'.state # "absent")
    BY <1>4 DEF LinkChanges
  <2>2. transport' \in Transports
    <3>0. transport \in Transports
      BY DEF LegacyFits
    <3>1. CASE transport' = [transport EXCEPT !.state = "ready"]
      BY <3>0, <3>1 DEF Transports
    <3>2. CASE /\ transport' = [transport EXCEPT !.state = "ready", !.session = transport.session + 1]
               /\ transport.session < MaxSessions
      <4>1. transport.session + 1 \in 0..MaxSessions
        BY <3>0, <3>2, AgentAssumption DEF Transports
      <4> DEFINE next == transport.session + 1
      <4>2. next \in 0..MaxSessions /\ transport' = [transport EXCEPT !.state = "ready", !.session = next]
        BY <3>2, <4>1
      <4> HIDE DEF next
      <4> QED BY <3>0, <4>2 DEF Transports
    <3>3. CASE transport' = [transport EXCEPT !.state = "absent", !.reason = NoFault]
      BY <3>0, <3>3 DEF Transports
    <3>4. CASE transport' = [transport EXCEPT !.state = "open"]
      BY <3>0, <3>4 DEF Transports
    <3>5. CASE \E reason \in {"timeout", "remote", "backend", "other"} :
                 transport' = [transport EXCEPT !.state = "faulted", !.reason = reason]
      BY <3>0, <3>5 DEF Transports
    <3> QED BY <1>4, <3>1, <3>2, <3>3, <3>4, <3>5 DEF LinkChanges
  <2> QED BY <1>1, <2>1, <2>2 DEF LegacyFits, OwesAbsence, EndIsRemembered, EdgesSuffice, RecoversSeen
<1>5. CASE PanelSaves \/ AsksStop
  <2>1. /\ UNCHANGED <<media, paired, transport, owed, edges>>
        /\ told' \in BOOLEAN /\ saved' \in Files
    BY <1>5 DEF PanelSaves, AsksStop, LegacyFits, Ghosts
  <2> QED BY <1>1, <2>1 DEF LegacyFits, OwesAbsence, EndIsRemembered, EdgesSuffice, RecoversSeen
<1> QED BY <1>2, <1>3, <1>4, <1>5

(* So it is an invariant. *)
LEMMA LegacyInvHolds == LegacySpec => []LegacyInv
<1>1. AgentInit => LegacyInv
  <2> SUFFICES ASSUME AgentInit PROVE LegacyInv
    OBVIOUS
  <2>1. agent \in Loops /\ agent.pc = "idle" /\ ~agent.disconnected
    BY NewAgentFits DEF AgentInit
  <2>2. SeenLoss(agent) = 0 /\ Absent \in Transports
    BY <2>1, AgentAssumption DEF SeenLoss, Absent, Transports
  <2>3. LegacyFits
    BY <2>1, <2>2 DEF AgentInit, LegacyFits, Files
  <2>4. OwesAbsence /\ RecoversSeen
    BY <2>1 DEF AgentInit, OwesAbsence, RecoversSeen
  <2>5. EdgesSuffice
    BY <2>1, <2>2 DEF AgentInit, EdgesSuffice
  <2> QED BY <2>3, <2>4, <2>5 DEF LegacyInv
<1>2. LegacyInv /\ [AgentNext]_legacyVars => LegacyInv'
  <2> SUFFICES ASSUME LegacyInv, [AgentNext]_legacyVars PROVE LegacyInv'
    OBVIOUS
  <2>1. CASE UNCHANGED legacyVars
    BY <2>1 DEF legacyVars, LegacyInv, LegacyFits, OwesAbsence, EndIsRemembered, EdgesSuffice, SeenLoss,
       RecoversSeen
  <2> QED BY <2>1, TurnsKeep, LooksKeep, RecoversKeep, ProcessKeeps, RestartsKeep, WorldKeeps
          DEF AgentNext, LoopTurns
<1> QED BY <1>1, <1>2, PTL DEF LegacySpec

(* ldac_agent.cpp: after a session of the watched legacy path ended by itself no media process *)
(* runs until the interface was gone, and a fault of the link is recovered at most once for a  *)
(* disconnect of the headset, however many disconnects and sessions there are.                 *)
THEOREM ReconnectsStayFresh == LegacySpec => []ReconnectsAfresh
<1>1. LegacyInv => ReconnectsAfresh
  BY DEF LegacyInv, LegacyFits, OwesAbsence, EndIsRemembered, EdgesSuffice, SeenLoss, ReconnectsAfresh
<1> QED BY <1>1, LegacyInvHolds, PTL

---------------------------------------------------------------------------
(* The AVRCP filter's host.  The trace is emptied when a connection that is *)
(* new to the mapper begins, and no key below the filter is older than the  *)
(* connection the host has heard of.                                        *)

FilterSpec == FilterInit /\ [][FilterNext]_filterVars

Playbacks == {"paused", "playing"}
KeyRecords == [gen : Nat, from : {"none", "paused", "playing"}, id : Nat]
TraceRecords == [type : {"other", "completion"}, key : KeyRecords]
Drivers == [up : BOOLEAN, control : BOOLEAN, below : {"nothing", "tracked", "untracked"},
            trace : Seq(TraceRecords)]
Airs == [gen : Nat, link : BOOLEAN, sent : Nat, handed : Seq(KeyRecords),
         news : Seq({"connected", "disconnected"}), playback : Playbacks, published : Playbacks]
Fallbacks == [gen : Nat, pending : BOOLEAN, age : Nat, key : KeyRecords]
Injections == [key : KeyRecords, at : Playbacks]
Bridges == [pc : {"idle", "polls"}, handle : {"none", "live", "dead"}, session : BOOLEAN, gen : Nat,
            heard : Nat, present : BOOLEAN, calling : BOOLEAN, media : Playbacks,
            fallback : Fallbacks, stale : BOOLEAN, injected : SUBSET Injections]

FilterFits == filter \in Drivers /\ air \in Airs /\ bridge \in Bridges

\* The connections that are reported and not heard of yet.
ReportsIn(news) == {i \in DOMAIN news : news[i] = "connected"}
HeardInTurn ==
    /\ bridge.gen <= bridge.heard
    /\ bridge.heard + Cardinality(ReportsIn(air.news)) <= air.gen

TraceIsOurs == \A k \in Keys(filter.trace) : k.gen >= bridge.gen /\ k.id <= air.sent
PendingIsNew ==
    bridge.fallback.pending =>
        /\ bridge.fallback.key.id <= air.sent
        /\ bridge.fallback.key \notin Keys(filter.trace)
        /\ \A i \in bridge.injected : i.key # bridge.fallback.key
AnsweredAreGone == \A i \in bridge.injected : i.key.id <= air.sent /\ i.key \notin Keys(filter.trace)

FilterInv ==
    FilterFits /\ HeardInTurn /\ TraceIsOurs /\ PendingIsNew /\ AnsweredAreGone /\ FeedsThisConnection

(* A nonempty set of numbers has a smallest one. *)
LEMMA SmallestIsThere ==
    ASSUME NEW T, T \subseteq Nat, T # {}
    PROVE  \E x \in T : \A y \in T : x <= y
<1> DEFINE R == {ss \in Nat \X Nat : ss[1] < ss[2]}
<1>1. IsWellFoundedOn(R, Nat)
  BY NatLessThanWellFounded, Zenon DEF OpToRel
<1> HIDE DEF R
<1>2. PICK x \in T : \A y \in T : <<y, x>> \notin R
  BY <1>1, WFMin, Zenon
<1>3. ASSUME NEW y \in T PROVE x <= y
  <2>1. <<y, x>> \in Nat \X Nat /\ <<y, x>>[1] = y /\ <<y, x>>[2] = x
    OBVIOUS
  <2>2. ~(y < x)
    <3>1. <<y, x>> \notin R
      BY <1>2
    <3> QED BY <3>1, <2>1 DEF R
  <2> QED BY <2>2
<1> QED BY <1>3

(* What a trace gives is keys. *)
LEMMA KeysAreKeys ==
    ASSUME NEW f \in Drivers
    PROVE  Keys(f.trace) \subseteq KeyRecords
<1>1. f.trace \in Seq(TraceRecords)
  BY DEF Drivers
<1>2. \A i \in DOMAIN f.trace : f.trace[i] \in TraceRecords
  BY <1>1
<1>3. \A r \in TraceRecords : r.key \in KeyRecords
  BY DEF TraceRecords
<1> QED BY <1>2, <1>3 DEF Keys

(* So the first of several keys is one of them. *)
LEMMA FirstKeyIsOne ==
    ASSUME NEW keys, keys \subseteq KeyRecords, keys # {}
    PROVE  (CHOOSE k \in keys : \A l \in keys : k.id <= l.id) \in keys
<1> DEFINE T == {k.id : k \in keys}
<1>1. T \subseteq Nat /\ T # {}
  BY DEF KeyRecords
<1>2. PICK x \in T : \A y \in T : x <= y
  <2> HIDE DEF T
  <2> QED BY <1>1, SmallestIsThere
<1>3. PICK k \in keys : k.id = x
  BY <1>2
<1>4. \A l \in keys : k.id <= l.id
  BY <1>2, <1>3
<1> QED BY <1>4

(* What is recorded adds at most its own key. *)
LEMMA TracedKeys ==
    ASSUME NEW f \in Drivers, NEW event \in TraceRecords
    PROVE  /\ Traced(f, event) \in Drivers
           /\ Keys(Traced(f, event).trace) \subseteq Keys(f.trace) \cup ({event.key} \ {Nobody})
<1> DEFINE old == IF Len(f.trace) = TraceCapacity THEN Tail(f.trace) ELSE f.trace
<1>1. f.trace \in Seq(TraceRecords)
  BY DEF Drivers
<1>2. old \in Seq(TraceRecords) /\ Keys(old) \subseteq Keys(f.trace)
  <2>1. CASE Len(f.trace) = TraceCapacity
    <3>1. f.trace # <<>>
      BY <1>1, <2>1, FilterAssumption
    <3>2. Tail(f.trace) \in Seq(TraceRecords)
          /\ \A i \in DOMAIN Tail(f.trace) : i + 1 \in DOMAIN f.trace /\ Tail(f.trace)[i] = f.trace[i + 1]
      BY <1>1, <3>1
    <3> QED BY <2>1, <3>2 DEF Keys
  <2>2. CASE Len(f.trace) # TraceCapacity
    BY <1>1, <2>2
  <2> QED BY <2>1, <2>2
<1> HIDE DEF old
<1> DEFINE new == Append(old, event)
<1>3. new \in Seq(TraceRecords)
      /\ \A i \in DOMAIN new : new[i] = event \/ (i \in DOMAIN old /\ new[i] = old[i])
  BY <1>2
<1> HIDE DEF new
<1>4. Traced(f, event) = [f EXCEPT !.trace = new]
  BY DEF Traced, new, old
<1>5. Traced(f, event) \in Drivers /\ Traced(f, event).trace = new
  BY <1>3, <1>4 DEF Drivers
<1>6. Keys(new) \subseteq Keys(old) \cup ({event.key} \ {Nobody})
  BY <1>3 DEF Keys
<1> QED BY <1>2, <1>5, <1>6

(* Noise has no key. *)
LEMMA NoiseHasNoKey ==
    /\ Noise \in TraceRecords /\ Noise.key = Nobody
    /\ Keys(<<>>) = {} /\ Keys(<<Noise>>) = {}
<1>1. Noise \in TraceRecords /\ Noise.key = Nobody
  BY DEF Noise, Nobody, TraceRecords, KeyRecords
<1>2. \A i \in DOMAIN <<Noise>> : <<Noise>>[i] = Noise
  OBVIOUS
<1> QED BY <1>1, <1>2 DEF Keys

(* Noise that is recorded adds no key. *)
LEMMA NoiseTraced ==
    ASSUME NEW f \in Drivers
    PROVE  Traced(f, Noise) \in Drivers /\ Keys(Traced(f, Noise).trace) \subseteq Keys(f.trace)
BY TracedKeys, NoiseHasNoKey

(* So does a request that is completed. *)
LEMMA CompletionKeys ==
    ASSUME FilterFits, NEW event \in TraceRecords
    PROVE  /\ RequestCompletion(event) \in Drivers
           /\ Keys(RequestCompletion(event).trace) \subseteq
                Keys(filter.trace) \cup ({event.key} \ {Nobody})
<1> DEFINE base == IF filter.below = "tracked" THEN Traced(filter, event) ELSE filter
<1>1. base \in Drivers
      /\ Keys(base.trace) \subseteq Keys(filter.trace) \cup ({event.key} \ {Nobody})
  BY TracedKeys DEF FilterFits
<1> HIDE DEF base
<1>2. RequestCompletion(event) = [base EXCEPT !.below = "nothing"]
  BY DEF RequestCompletion, base
<1>3. RequestCompletion(event) \in Drivers /\ RequestCompletion(event).trace = base.trace
  BY <1>1, <1>2 DEF Drivers
<1> QED BY <1>1, <1>3

(* Counting the reports. *)
LEMMA ReportsAreFinite ==
    ASSUME NEW w \in Seq({"connected", "disconnected"})
    PROVE  IsFiniteSet(ReportsIn(w)) /\ Cardinality(ReportsIn(w)) \in Nat
<1>1. ReportsIn(w) \in SUBSET (1..Len(w))
  BY DEF ReportsIn
<1>2. IsFiniteSet(1..Len(w))
  BY FS_Interval
<1>3. IsFiniteSet(ReportsIn(w))
  BY <1>1, <1>2, FS_Subset
<1> QED BY <1>3, FS_CardinalityType

(* A report that is added counts if it is a connection's. *)
LEMMA ReportCounts ==
    ASSUME NEW w \in Seq({"connected", "disconnected"}), NEW r \in {"connected", "disconnected"}
    PROVE  /\ Append(w, r) \in Seq({"connected", "disconnected"})
           /\ Cardinality(ReportsIn(Append(w, r))) <=
                Cardinality(ReportsIn(w)) + (IF r = "connected" THEN 1 ELSE 0)
<1>1. CASE r = "connected"
  <2> DEFINE S == ReportsIn(w)
  <2>1. ReportsIn(Append(w, r)) = S \cup {Len(w) + 1}
    BY <1>1 DEF ReportsIn
  <2>2. IsFiniteSet(S) /\ Cardinality(S) \in Nat
    BY ReportsAreFinite
  <2> HIDE DEF S
  <2>3. Cardinality(S \cup {Len(w) + 1}) =
          IF Len(w) + 1 \in S THEN Cardinality(S) ELSE Cardinality(S) + 1
    BY <2>2, FS_AddElement
  <2>4. Cardinality(ReportsIn(Append(w, r))) <= Cardinality(S) + 1
    BY <2>1, <2>2, <2>3
  <2> QED BY <1>1, <2>4 DEF S
<1>2. CASE r # "connected"
  <2>1. ReportsIn(Append(w, r)) = ReportsIn(w)
    BY <1>2 DEF ReportsIn
  <2>2. Cardinality(ReportsIn(w)) \in Nat
    BY ReportsAreFinite
  <2> QED BY <1>2, <2>1, <2>2
<1> QED BY <1>1, <1>2

(* A report that is heard no longer counts. *)
LEMMA HeardCounts ==
    ASSUME NEW w \in Seq({"connected", "disconnected"}), w # <<>>
    PROVE  /\ Tail(w) \in Seq({"connected", "disconnected"})
           /\ Cardinality(ReportsIn(Tail(w))) + (IF Head(w) = "connected" THEN 1 ELSE 0) <=
                Cardinality(ReportsIn(w))
<1> DEFINE S == ReportsIn(w)
           T == ReportsIn(Tail(w))
           f == [i \in T |-> i + 1]
<1>1. /\ \A i \in T : i \in Nat /\ i + 1 \in S /\ i + 1 # 1
      /\ 1 \in S <=> Head(w) = "connected"
  BY DEF ReportsIn
<1>2. IsFiniteSet(S) /\ Cardinality(S) \in Nat /\ IsFiniteSet(S \ {1})
      /\ Cardinality(S \ {1}) = IF 1 \in S THEN Cardinality(S) - 1 ELSE Cardinality(S)
  BY ReportsAreFinite, FS_RemoveElement
<1>3. f \in Injection(T, S \ {1})
  BY <1>1 DEF Injection, IsInjective
<1>4. Tail(w) \in Seq({"connected", "disconnected"})
  OBVIOUS
<1>5. Cardinality(T) <= Cardinality(S \ {1}) /\ Cardinality(T) \in Nat
  BY <1>2, <1>3, <1>4, FS_Injection, ReportsAreFinite
<1> HIDE DEF S, T
<1>6. Cardinality(T) + (IF Head(w) = "connected" THEN 1 ELSE 0) <= Cardinality(S)
  BY <1>1, <1>2, <1>5
<1> QED BY <1>4, <1>6 DEF S, T

(* A trace that gained no key leaves the rest as it was. *)
LEMMA TraceKeepsFeed ==
    ASSUME FilterInv, filter' \in Drivers, Keys(filter'.trace) \subseteq Keys(filter.trace),
           UNCHANGED <<air, bridge>>
    PROVE  FilterInv'
<1>1. FilterFits' /\ HeardInTurn' /\ FeedsThisConnection'
  BY DEF FilterInv, FilterFits, HeardInTurn, FeedsThisConnection
<1>2. TraceIsOurs'
  BY DEF FilterInv, TraceIsOurs
<1>3. PendingIsNew' /\ AnsweredAreGone'
  BY DEF FilterInv, PendingIsNew, AnsweredAreGone
<1> QED BY <1>1, <1>2, <1>3 DEF FilterInv

(* The driver records no key of its own. *)
LEMMA DriverKeepsFeed ==
    ASSUME FilterInv, DeviceAdd \/ SelfManagedIo \/ Forward \/ RequestFails
    PROVE  FilterInv'
<1>0. filter \in Drivers /\ FilterFits
  BY DEF FilterInv, FilterFits
<1>1. CASE DeviceAdd
  <2>1. PICK control \in BOOLEAN :
          filter' = ControlDevice([filter EXCEPT !.up = TRUE], control)
    BY <1>1 DEF DeviceAdd
  <2> DEFINE trace == IF control THEN <<>> ELSE <<Noise>>
  <2>2. trace \in Seq(TraceRecords) /\ Keys(trace) = {}
    BY NoiseHasNoKey
  <2> HIDE DEF trace
  <2>3. filter' = [[filter EXCEPT !.up = TRUE] EXCEPT !.control = control, !.trace = trace]
    BY <2>1 DEF ControlDevice, trace
  <2>4. filter' \in Drivers /\ filter'.trace = trace
    BY <1>0, <2>1, <2>2, <2>3 DEF Drivers
  <2>5. UNCHANGED <<air, bridge>>
    BY <1>1 DEF DeviceAdd
  <2> QED BY <2>2, <2>4, <2>5, TraceKeepsFeed
<1>2. CASE SelfManagedIo
  BY <1>0, <1>2, NoiseTraced, TraceKeepsFeed DEF SelfManagedIo
<1>3. CASE Forward
  <2> DEFINE once == Traced(filter, Noise)
             twice == Traced(once, Noise)
  <2>1. once \in Drivers /\ Keys(once.trace) \subseteq Keys(filter.trace)
    BY <1>0, NoiseTraced
  <2>2. twice \in Drivers /\ Keys(twice.trace) \subseteq Keys(once.trace)
    <3> HIDE DEF once
    <3> QED BY <2>1, NoiseTraced
  <2>3. /\ filter' = [once EXCEPT !.below = "tracked"] \/ filter' = [twice EXCEPT !.below = "untracked"]
              \/ filter' = twice
        /\ UNCHANGED <<air, bridge>>
    BY <1>3 DEF Forward
  <2> HIDE DEF once, twice
  <2>4. filter' \in Drivers /\ (filter'.trace = once.trace \/ filter'.trace = twice.trace)
    BY <2>1, <2>2, <2>3 DEF Drivers
  <2> QED BY <2>1, <2>2, <2>3, <2>4, TraceKeepsFeed
<1>4. CASE RequestFails
  <2>1. /\ RequestCompletion(Noise) \in Drivers
        /\ Keys(RequestCompletion(Noise).trace) \subseteq Keys(filter.trace)
    BY <1>0, CompletionKeys, NoiseHasNoKey
  <2> QED BY <1>4, <2>1, TraceKeepsFeed DEF RequestFails
<1> QED BY <1>1, <1>2, <1>3, <1>4

(* The parts of the host that the properties are about. *)
Fed == <<bridge.gen, bridge.heard, bridge.stale, bridge.injected>>

(* A host step that answers no key, and at most forgets the pending one. *)
LEMMA HostKeepsFeed ==
    ASSUME FilterInv, bridge' \in Bridges, UNCHANGED Fed,
           bridge'.fallback.pending => bridge'.fallback.key = bridge.fallback.key /\ bridge.fallback.pending,
           filter' \in Drivers, Keys(filter'.trace) \subseteq Keys(filter.trace), air' = air
    PROVE  FilterInv'
<1>1. /\ bridge'.gen = bridge.gen /\ bridge'.heard = bridge.heard /\ bridge'.stale = bridge.stale
      /\ bridge'.injected = bridge.injected
  BY DEF Fed
<1>2. FilterFits' /\ HeardInTurn' /\ FeedsThisConnection'
  BY <1>1 DEF FilterInv, FilterFits, HeardInTurn, FeedsThisConnection
<1>3. TraceIsOurs' /\ AnsweredAreGone'
  BY <1>1 DEF FilterInv, TraceIsOurs, AnsweredAreGone
<1>4. PendingIsNew'
  BY <1>1 DEF FilterInv, PendingIsNew
<1> QED BY <1>2, <1>3, <1>4 DEF FilterInv

(* A fallback that has nothing to do. *)
LEMMA NoFallbackFits ==
    ASSUME NEW gen \in Nat
    PROVE  NoFallback(gen) \in Fallbacks /\ ~NoFallback(gen).pending
BY DEF NoFallback, Fallbacks, Nobody, KeyRecords

(* The end of a session. *)
LEMMA EndSessionFits ==
    ASSUME NEW b \in Bridges
    PROVE  /\ EndSession(b) \in Bridges /\ ~EndSession(b).fallback.pending
           /\ EndSession(b).gen = b.gen /\ EndSession(b).heard = b.heard
           /\ EndSession(b).stale = b.stale /\ EndSession(b).injected = b.injected
<1> DEFINE f == NoFallback(0)
<1>1. f \in Fallbacks /\ ~f.pending
  BY NoFallbackFits
<1> HIDE DEF f
<1>2. EndSession(b) = [b EXCEPT !.session = FALSE, !.fallback = f, !.pc = "idle"]
  BY DEF EndSession, f
<1> QED BY <1>1, <1>2 DEF Bridges

(* The device goes with its trace. *)
LEMMA CleanupKeepsFeed ==
    ASSUME FilterInv, SelfManagedIoCleanup
    PROVE  FilterInv'
<1>0. filter \in Drivers /\ bridge \in Bridges
  BY DEF FilterInv, FilterFits
<1>1. /\ filter' = [filter EXCEPT !.up = FALSE, !.control = FALSE, !.trace = <<>>] /\ air' = air
      /\ bridge' = [bridge EXCEPT !.handle = IF bridge.handle = "live" THEN "dead" ELSE bridge.handle]
  BY DEF SelfManagedIoCleanup
<1>2. filter' \in Drivers /\ filter'.trace = <<>>
  <2> DEFINE trace == <<>>
  <2>1. trace \in Seq(TraceRecords)
    OBVIOUS
  <2> HIDE DEF trace
  <2>2. filter' = [filter EXCEPT !.up = FALSE, !.control = FALSE, !.trace = trace]
    BY <1>1 DEF trace
  <2>3. filter' \in Drivers /\ filter'.trace = trace
    BY <1>0, <2>1, <2>2 DEF Drivers
  <2> QED BY <2>3 DEF trace
<1>3. Keys(filter'.trace) = {}
  BY <1>2, NoiseHasNoKey
<1>4. bridge' \in Bridges /\ UNCHANGED Fed /\ bridge'.fallback = bridge.fallback
  BY <1>0, <1>1 DEF Bridges, Fed
<1> QED BY <1>1, <1>2, <1>3, <1>4, HostKeepsFeed

(* The connection's reports, and what Microsoft does with the keys. *)
LEMMA AirKeepsFeed ==
    ASSUME FilterInv, Connects \/ Disconnects \/ MicrosoftHandles \/ MonitorPublishes
    PROVE  FilterInv'
<1>0. air \in Airs /\ filter \in Drivers /\ bridge \in Bridges /\ FilterFits
  BY DEF FilterInv, FilterFits
<1>1. air' \in Airs /\ air'.sent = air.sent
      /\ bridge.heard + Cardinality(ReportsIn(air'.news)) <= air'.gen
  <2>0. /\ bridge.heard + Cardinality(ReportsIn(air.news)) <= air.gen
        /\ Cardinality(ReportsIn(air.news)) \in Nat /\ bridge.heard \in Nat /\ air.gen \in Nat
        /\ air.news \in Seq({"connected", "disconnected"})
    BY <1>0, ReportsAreFinite DEF FilterInv, HeardInTurn, Airs, Bridges
  <2>1. CASE Connects
    <3> DEFINE news == Append(air.news, "connected")
    <3>1. /\ news \in Seq({"connected", "disconnected"})
          /\ Cardinality(ReportsIn(news)) <= Cardinality(ReportsIn(air.news)) + 1
      BY <2>0, ReportCounts
    <3>2. Cardinality(ReportsIn(news)) \in Nat
      BY <3>1, ReportsAreFinite
    <3> DEFINE gen == air.gen + 1
    <3> HIDE DEF news
    <3>3. air' = [air EXCEPT !.link = TRUE, !.gen = gen, !.news = news] /\ gen \in Nat
      BY <2>0, <2>1 DEF Connects, news
    <3> HIDE DEF gen
    <3>5. air' \in Airs /\ air'.gen = gen /\ air'.news = news /\ air'.sent = air.sent
      BY <1>0, <3>1, <3>3 DEF Airs
    <3>4. air'.gen = air.gen + 1 /\ air' \in Airs /\ air'.news = news /\ air'.sent = air.sent
      BY <3>5 DEF gen
    <3> QED BY <2>0, <3>1, <3>2, <3>4
  <2>2. CASE Disconnects
    <3> DEFINE news == Append(air.news, "disconnected")
    <3>1. /\ news \in Seq({"connected", "disconnected"})
          /\ Cardinality(ReportsIn(news)) <= Cardinality(ReportsIn(air.news)) + 0
      BY <2>0, ReportCounts
    <3>2. Cardinality(ReportsIn(news)) \in Nat
      BY <3>1, ReportsAreFinite
    <3> HIDE DEF news
    <3>3. air' = [air EXCEPT !.link = FALSE, !.news = news]
      BY <2>2 DEF Disconnects, news
    <3>4. air' \in Airs /\ air'.gen = air.gen /\ air'.news = news /\ air'.sent = air.sent
      BY <1>0, <3>1, <3>3 DEF Airs
    <3> QED BY <2>0, <3>1, <3>2, <3>4
  <2>3. CASE MicrosoftHandles
    <3>1. PICK playback \in {air.playback, Other(air.playback)} :
            air' = [air EXCEPT !.handed = Tail(air.handed), !.playback = playback]
      BY <2>3 DEF MicrosoftHandles
    <3>2. playback \in Playbacks /\ Tail(air.handed) \in Seq(KeyRecords)
      BY <1>0, <2>3 DEF Airs, Other, Playbacks, MicrosoftHandles
    <3>3. air' \in Airs /\ air'.gen = air.gen /\ air'.news = air.news /\ air'.sent = air.sent
      BY <1>0, <3>1, <3>2 DEF Airs
    <3> QED BY <2>0, <3>3
  <2>4. CASE MonitorPublishes
    <3>1. air' = [air EXCEPT !.published = air.playback]
      BY <2>4 DEF MonitorPublishes
    <3>2. air' \in Airs /\ air'.gen = air.gen /\ air'.news = air.news /\ air'.sent = air.sent
      BY <1>0, <3>1 DEF Airs
    <3> QED BY <2>0, <3>2
  <2> QED BY <2>1, <2>2, <2>3, <2>4
<1>2. bridge' = bridge
  BY DEF Connects, Disconnects, MicrosoftHandles, MonitorPublishes
<1>3. filter' \in Drivers /\ Keys(filter'.trace) \subseteq Keys(filter.trace)
  <2>1. CASE Disconnects
    BY <1>0, <2>1, CompletionKeys, NoiseHasNoKey DEF Disconnects
  <2>2. CASE ~Disconnects
    BY <1>0, <2>2 DEF Connects, MicrosoftHandles, MonitorPublishes
  <2> QED BY <2>1, <2>2
<1>4. FilterFits' /\ HeardInTurn' /\ FeedsThisConnection'
  BY <1>1, <1>2, <1>3 DEF FilterInv, FilterFits, HeardInTurn, FeedsThisConnection
<1>5. TraceIsOurs'
  BY <1>1, <1>2, <1>3 DEF FilterInv, TraceIsOurs
<1>6. PendingIsNew' /\ AnsweredAreGone'
  BY <1>1, <1>2, <1>3 DEF FilterInv, PendingIsNew, AnsweredAreGone
<1> QED BY <1>4, <1>5, <1>6 DEF FilterInv

(* A key is of the connection that is up, and the latest of all. *)
LEMMA SendingKeepsFeed ==
    ASSUME FilterInv, HeadsetSends
    PROVE  FilterInv'
<1> DEFINE key == [gen |-> air.gen, from |-> air.playback, id |-> air.sent + 1]
           event == [type |-> "completion", key |-> key]
<1>0. air \in Airs /\ bridge \in Bridges /\ FilterFits
  BY DEF FilterInv, FilterFits
<1>1. /\ key \in KeyRecords /\ key.id = air.sent + 1 /\ key.gen = air.gen
      /\ air.gen \in Nat /\ air.sent \in Nat
  BY <1>0 DEF Airs, KeyRecords, Playbacks
<1>2. event \in TraceRecords /\ event.key = key
  <2> HIDE DEF key
  <2> QED BY <1>1 DEF TraceRecords
<1>3. /\ filter' = RequestCompletion(event) /\ bridge' = bridge
      /\ air' = [air EXCEPT !.sent = key.id, !.handed = Append(air.handed, key)]
  BY DEF HeadsetSends
<1> HIDE DEF event, key
<1>4. filter' \in Drivers /\ Keys(filter'.trace) \subseteq Keys(filter.trace) \cup {key}
  BY <1>0, <1>2, <1>3, CompletionKeys
<1>5. air' \in Airs /\ air'.sent = air.sent + 1 /\ air'.gen = air.gen /\ air'.news = air.news
  <2>1. air.handed \in Seq(KeyRecords)
    BY <1>0 DEF Airs
  <2> DEFINE handed == Append(air.handed, key)
             id == key.id
  <2>2. handed \in Seq(KeyRecords) /\ id \in Nat /\ id = air.sent + 1
    BY <1>1, <2>1
  <2>3. air' = [air EXCEPT !.sent = id, !.handed = handed]
    BY <1>3
  <2> HIDE DEF handed, id
  <2>4. air' \in Airs /\ air'.sent = id /\ air'.gen = air.gen /\ air'.news = air.news
    BY <1>0, <2>2, <2>3 DEF Airs
  <2> QED BY <2>2, <2>4
<1>6. bridge.gen <= air.gen
  <2>1. /\ Cardinality(ReportsIn(air.news)) \in Nat /\ bridge.gen \in Nat /\ bridge.heard \in Nat
    BY <1>0, ReportsAreFinite DEF Airs, Bridges
  <2> QED BY <1>1, <2>1 DEF FilterInv, HeardInTurn
<1>7. FilterFits' /\ HeardInTurn' /\ FeedsThisConnection'
  BY <1>0, <1>3, <1>4, <1>5 DEF FilterInv, FilterFits, HeardInTurn, FeedsThisConnection
<1>8. TraceIsOurs'
  <2>1. \A k \in Keys(filter.trace) : k.id \in Nat
    BY <1>0, KeysAreKeys DEF FilterFits, KeyRecords
  <2>2. TraceIsOurs
    BY DEF FilterInv
  <2>3. ASSUME NEW k \in Keys(filter'.trace) PROVE k.gen >= bridge.gen /\ k.id <= air.sent + 1
    <3>1. CASE k \in Keys(filter.trace)
      BY <1>1, <2>1, <2>2, <3>1 DEF TraceIsOurs
    <3>2. CASE k = key
      BY <1>0, <1>1, <1>6, <3>2 DEF Bridges
    <3> QED BY <1>4, <3>1, <3>2
  <2> QED BY <1>3, <1>5, <2>3 DEF TraceIsOurs
<1>9. PendingIsNew'
  <2>1. PendingIsNew /\ bridge.fallback.key.id \in Nat
    BY <1>0 DEF FilterInv, Bridges, Fallbacks, KeyRecords
  <2> SUFFICES ASSUME bridge.fallback.pending
               PROVE  /\ bridge.fallback.key.id <= air.sent + 1
                      /\ bridge.fallback.key \notin Keys(filter'.trace)
                      /\ \A i \in bridge.injected : i.key # bridge.fallback.key
    BY <1>3, <1>5 DEF PendingIsNew
  <2>2. bridge.fallback.key.id <= air.sent /\ bridge.fallback.key \notin Keys(filter.trace)
        /\ \A i \in bridge.injected : i.key # bridge.fallback.key
    BY <2>1 DEF PendingIsNew
  <2>3. bridge.fallback.key # key
    BY <1>1, <2>1, <2>2
  <2> QED BY <1>1, <1>4, <2>1, <2>2, <2>3
<1>10. AnsweredAreGone'
  <2>1. AnsweredAreGone
    BY DEF FilterInv
  <2>2. ASSUME NEW i \in bridge.injected
        PROVE  i.key.id <= air.sent + 1 /\ i.key \notin Keys(filter'.trace)
    <3>1. i.key.id \in Nat
      BY <1>0 DEF Bridges, Injections, KeyRecords
    <3>2. i.key.id <= air.sent /\ i.key \notin Keys(filter.trace)
      BY <2>1 DEF AnsweredAreGone
    <3>3. i.key # key
      BY <1>1, <3>1, <3>2
    <3> QED BY <1>1, <1>4, <3>1, <3>2, <3>3
  <2> QED BY <1>3, <1>5, <2>2 DEF AnsweredAreGone
<1> QED BY <1>7, <1>8, <1>9, <1>10 DEF FilterInv

(* The watcher's reports, a call and the clock. *)
LEMMA HearsKeepsFeed ==
    ASSUME FilterInv, HearsLink
    PROVE  FilterInv'
<1>0. filter \in Drivers /\ air \in Airs /\ bridge \in Bridges /\ FilterFits
  BY DEF FilterInv, FilterFits
<1>1. /\ air.news # <<>> /\ air' = [air EXCEPT !.news = Tail(air.news)] /\ filter' = filter
      /\ air.news \in Seq({"connected", "disconnected"})
  BY <1>0 DEF HearsLink, Airs
<1> DEFINE news == Tail(air.news)
<1>2. /\ news \in Seq({"connected", "disconnected"})
      /\ Cardinality(ReportsIn(news)) + (IF Head(air.news) = "connected" THEN 1 ELSE 0) <=
           Cardinality(ReportsIn(air.news))
  BY <1>1, HeardCounts
<1>3. Cardinality(ReportsIn(news)) \in Nat /\ Cardinality(ReportsIn(air.news)) \in Nat
  BY <1>1, <1>2, ReportsAreFinite
<1> HIDE DEF news
<1>4. air' \in Airs /\ air'.gen = air.gen /\ air'.news = news /\ air'.sent = air.sent
  BY <1>0, <1>1, <1>2 DEF Airs, news
<1>5. bridge' \in Bridges /\ bridge'.gen = bridge.gen /\ bridge'.stale = bridge.stale
      /\ bridge'.injected = bridge.injected
      /\ bridge'.heard = (IF Head(air.news) = "connected" THEN bridge.heard + 1 ELSE bridge.heard)
      /\ (bridge'.fallback = bridge.fallback \/ ~bridge'.fallback.pending)
  <2>1. CASE Head(air.news) = "connected"
    <3> DEFINE heard == bridge.heard + 1
    <3>1. bridge' = [bridge EXCEPT !.present = TRUE, !.heard = heard] /\ heard \in Nat
      BY <1>0, <2>1 DEF HearsLink, Bridges
    <3> HIDE DEF heard
    <3>2. bridge' \in Bridges /\ bridge'.gen = bridge.gen /\ bridge'.stale = bridge.stale
          /\ bridge'.injected = bridge.injected /\ bridge'.heard = heard
          /\ bridge'.fallback = bridge.fallback
      BY <1>0, <3>1 DEF Bridges
    <3> QED BY <2>1, <3>2 DEF heard
  <2>2. CASE Head(air.news) # "connected"
    <3> DEFINE b == [bridge EXCEPT !.present = FALSE, !.calling = FALSE]
    <3>1. b \in Bridges /\ b.gen = bridge.gen /\ b.stale = bridge.stale
          /\ b.injected = bridge.injected /\ b.heard = bridge.heard
      BY <1>0 DEF Bridges
    <3>2. bridge' = EndSession(b)
      BY <2>2 DEF HearsLink
    <3> HIDE DEF b
    <3> QED BY <2>2, <3>1, <3>2, EndSessionFits
  <2> QED BY <2>1, <2>2
<1>6. HeardInTurn'
  <2>1. /\ bridge.heard \in Nat /\ bridge.gen \in Nat /\ air.gen \in Nat
        /\ bridge.gen <= bridge.heard
        /\ bridge.heard + Cardinality(ReportsIn(air.news)) <= air.gen
    BY <1>0 DEF FilterInv, HeardInTurn, Bridges, Airs
  <2> QED BY <1>2, <1>3, <1>4, <1>5, <2>1 DEF HeardInTurn
<1>7. FilterFits' /\ FeedsThisConnection'
  BY <1>0, <1>1, <1>4, <1>5 DEF FilterInv, FilterFits, FeedsThisConnection
<1>8. TraceIsOurs' /\ AnsweredAreGone'
  BY <1>1, <1>4, <1>5 DEF FilterInv, TraceIsOurs, AnsweredAreGone
<1>9. PendingIsNew'
  BY <1>1, <1>4, <1>5 DEF FilterInv, PendingIsNew
<1> QED BY <1>6, <1>7, <1>8, <1>9 DEF FilterInv

(* A call, and the clock. *)
LEMMA CallsKeepFeed ==
    ASSUME FilterInv, Calls \/ TimePassesForKeys
    PROVE  FilterInv'
<1>0. filter \in Drivers /\ bridge \in Bridges
  BY DEF FilterInv, FilterFits
<1>1. filter' = filter /\ air' = air
  BY DEF Calls, TimePassesForKeys
<1>2. CASE Calls
  <2> DEFINE calling == ~bridge.calling
  <2>1. calling \in BOOLEAN
    OBVIOUS
  <2>2. bridge' = [bridge EXCEPT !.calling = calling]
    BY <1>2 DEF Calls
  <2> HIDE DEF calling
  <2>3. bridge' \in Bridges /\ UNCHANGED Fed /\ bridge'.fallback = bridge.fallback
    BY <1>0, <2>1, <2>2 DEF Bridges, Fed
  <2> QED BY <1>0, <1>1, <2>3, HostKeepsFeed
<1>3. CASE TimePassesForKeys
  <2> DEFINE f == [bridge.fallback EXCEPT !.age = bridge.fallback.age + 1]
  <2>1. bridge.fallback \in Fallbacks /\ bridge.fallback.age + 1 \in Nat
    BY <1>0 DEF Bridges, Fallbacks
  <2>2. f \in Fallbacks /\ f.key = bridge.fallback.key /\ f.pending = bridge.fallback.pending
    <3> DEFINE age == bridge.fallback.age + 1
    <3>1. age \in Nat /\ f = [bridge.fallback EXCEPT !.age = age]
      BY <2>1
    <3> HIDE DEF age, f
    <3> QED BY <2>1, <3>1 DEF Fallbacks
  <2>3. bridge' = [bridge EXCEPT !.fallback = f]
    BY <1>3 DEF TimePassesForKeys
  <2> HIDE DEF f
  <2>4. bridge' \in Bridges /\ UNCHANGED Fed /\ bridge'.fallback = f
    BY <1>0, <2>2, <2>3 DEF Bridges, Fed
  <2> QED BY <1>0, <1>1, <2>2, <2>4, HostKeepsFeed
<1> QED BY <1>2, <1>3

(* A connection that is new to the mapper begins with an empty trace. *)
LEMMA BeginsFeed ==
    ASSUME FilterInv, BeginSession, air' = air
    PROVE  FilterInv'
<1> DEFINE handle == IF bridge.handle = "none" /\ filter.control THEN "live" ELSE bridge.handle
           fresh == bridge.gen # bridge.heard
           none == NoFallback(bridge.heard)
           f == IF fresh /\ handle # "none" THEN none ELSE bridge.fallback
           b == [bridge EXCEPT !.handle = handle, !.fallback = f]
<1>0. filter \in Drivers /\ air \in Airs /\ bridge \in Bridges /\ FilterFits
  BY DEF FilterInv, FilterFits
<1>1. none \in Fallbacks /\ ~none.pending
  BY <1>0, NoFallbackFits DEF Bridges
<1> HIDE DEF none
<1>2. handle \in {"none", "live", "dead"} /\ f \in Fallbacks
      /\ (f = bridge.fallback \/ ~f.pending)
  BY <1>0, <1>1 DEF Bridges
<1>3. \/ bridge' = b /\ filter' = filter
      \/ /\ bridge' = [b EXCEPT !.session = TRUE, !.gen = bridge.heard, !.media = air.published,
                                !.pc = "polls"]
         /\ filter' = IF fresh THEN [filter EXCEPT !.trace = <<>>] ELSE filter
  BY DEF BeginSession, none
<1> HIDE DEF handle, f
<1>4. b \in Bridges /\ b.gen = bridge.gen /\ b.heard = bridge.heard /\ b.stale = bridge.stale
      /\ b.injected = bridge.injected /\ b.fallback = f
  BY <1>0, <1>2 DEF Bridges
<1> HIDE DEF b, fresh
<1>5. CASE bridge' = b /\ filter' = filter
  BY <1>0, <1>2, <1>4, <1>5, HostKeepsFeed DEF Fed
<1>6. CASE /\ bridge' = [b EXCEPT !.session = TRUE, !.gen = bridge.heard, !.media = air.published,
                                  !.pc = "polls"]
           /\ filter' = IF fresh THEN [filter EXCEPT !.trace = <<>>] ELSE filter
  <2>1. bridge.heard \in Nat /\ air.published \in Playbacks
    BY <1>0 DEF Bridges, Airs
  <2>2. bridge' \in Bridges /\ bridge'.gen = bridge.heard /\ bridge'.heard = bridge.heard
        /\ bridge'.stale = bridge.stale /\ bridge'.injected = bridge.injected /\ bridge'.fallback = f
    BY <1>4, <1>6, <2>1 DEF Bridges
  <2>3. filter' \in Drivers /\ Keys(filter'.trace) \subseteq Keys(filter.trace)
        /\ (fresh => Keys(filter'.trace) = {})
    <3>1. CASE fresh
      <4> DEFINE trace == <<>>
      <4>1. trace \in Seq(TraceRecords) /\ Keys(trace) = {}
        BY NoiseHasNoKey
      <4> HIDE DEF trace
      <4>2. filter' = [filter EXCEPT !.trace = trace]
        BY <1>6, <3>1 DEF trace
      <4>3. filter' \in Drivers /\ filter'.trace = trace
        BY <1>0, <4>1, <4>2 DEF Drivers
      <4> QED BY <4>1, <4>3
    <3>2. CASE ~fresh
      BY <1>0, <1>6, <3>2
    <3> QED BY <3>1, <3>2
  <2>4. FilterFits' /\ HeardInTurn' /\ FeedsThisConnection'
    BY <1>0, <2>1, <2>2, <2>3 DEF FilterInv, FilterFits, HeardInTurn, FeedsThisConnection
  <2>5. TraceIsOurs'
    <3>1. CASE fresh
      BY <2>3, <3>1 DEF TraceIsOurs
    <3>2. CASE ~fresh
      BY <2>2, <2>3, <3>2 DEF FilterInv, TraceIsOurs, fresh
    <3> QED BY <3>1, <3>2
  <2>6. AnsweredAreGone'
    BY <2>2, <2>3 DEF FilterInv, AnsweredAreGone
  <2>7. PendingIsNew'
    BY <1>2, <2>2, <2>3 DEF FilterInv, PendingIsNew
  <2> QED BY <2>4, <2>5, <2>6, <2>7 DEF FilterInv
<1> QED BY <1>3, <1>5, <1>6

(* A reconciliation, up to the poll. *)
LEMMA ReconcilesFeed ==
    ASSUME FilterInv, Reconcile
    PROVE  FilterInv'
<1>0. filter \in Drivers /\ air \in Airs /\ bridge \in Bridges
  BY DEF FilterInv, FilterFits
<1>1. air' = air
  BY DEF Reconcile
<1>2. \/ bridge' = EndSession(bridge) /\ filter' = filter
      \/ BeginSession
      \/ bridge' = [bridge EXCEPT !.media = air.published, !.pc = "polls"] /\ filter' = filter
  <2>1. CASE ~bridge.present \/ bridge.calling
    BY <2>1 DEF Reconcile
  <2>2. CASE bridge.present /\ ~bridge.calling /\ ~bridge.session
    BY <2>2 DEF Reconcile
  <2>3. CASE bridge.present /\ ~bridge.calling /\ bridge.session
    BY <2>3 DEF Reconcile
  <2> QED BY <2>1, <2>2, <2>3
<1>3. CASE bridge' = EndSession(bridge) /\ filter' = filter
  BY <1>0, <1>1, <1>3, EndSessionFits, HostKeepsFeed DEF Fed
<1>4. CASE BeginSession
  BY <1>1, <1>4, BeginsFeed
<1>5. CASE bridge' = [bridge EXCEPT !.media = air.published, !.pc = "polls"] /\ filter' = filter
  <2>1. bridge' \in Bridges /\ UNCHANGED Fed /\ bridge'.fallback = bridge.fallback
    BY <1>0, <1>5 DEF Bridges, Airs, Fed
  <2> QED BY <1>0, <1>1, <1>5, <2>1, HostKeepsFeed
<1> QED BY <1>2, <1>3, <1>4, <1>5

(* The fallback takes the first key of a poll, if it takes any. *)
LEMMA ObservedFits ==
    ASSUME FilterFits, NEW keys, keys \subseteq KeyRecords
    PROVE  /\ Observed(bridge, keys) \in Fallbacks
           /\ \/ Observed(bridge, keys) = bridge.fallback
              \/ Observed(bridge, keys).pending /\ Observed(bridge, keys).key \in keys
<1>1. bridge.fallback \in Fallbacks
  BY DEF FilterFits, Bridges
<1>2. CASE keys = {} \/ bridge.fallback.pending \/ bridge.media # "paused"
           \/ bridge.fallback.gen # bridge.heard
  BY <1>1, <1>2 DEF Observed
<1>3. CASE ~(keys = {} \/ bridge.fallback.pending \/ bridge.media # "paused"
             \/ bridge.fallback.gen # bridge.heard)
  <2> DEFINE key == CHOOSE k \in keys : \A l \in keys : k.id <= l.id
  <2>1. key \in keys
    BY <1>3, FirstKeyIsOne
  <2> HIDE DEF key
  <2>2. Observed(bridge, keys) = [bridge.fallback EXCEPT !.pending = TRUE, !.age = 0, !.key = key]
    BY <1>3 DEF Observed, key
  <2>3. key \in KeyRecords
    BY <2>1
  <2> DEFINE o == Observed(bridge, keys)
  <2> HIDE DEF o
  <2>4. o = [bridge.fallback EXCEPT !.pending = TRUE, !.age = 0, !.key = key]
    BY <2>2 DEF o
  <2>5. o \in Fallbacks /\ o.pending /\ o.key = key
    BY <1>1, <2>3, <2>4 DEF Fallbacks
  <2> QED BY <2>1, <2>5 DEF o
<1> QED BY <1>2, <1>3

(* A poll takes the whole trace; the key it answers was in it, or was taken before and is not *)
(* answered yet.                                                                              *)
LEMMA PollKeepsFeed ==
    ASSUME FilterInv, Poll
    PROVE  FilterInv'
<1>0. filter \in Drivers /\ air \in Airs /\ bridge \in Bridges /\ FilterFits
  BY DEF FilterInv, FilterFits
<1>1. CASE bridge' = EndSession(bridge) /\ UNCHANGED <<filter, air>>
  BY <1>0, <1>1, EndSessionFits, HostKeepsFeed DEF Fed
<1>2. CASE ~(bridge' = EndSession(bridge) /\ UNCHANGED <<filter, air>>)
  <2> DEFINE keys == Keys(filter.trace)
             f == Observed(bridge, keys)
             inject == f.pending /\ bridge.media = "paused" /\ f.age = PlayDelay
             none == NoFallback(f.gen)
             late == \E k \in keys : k.gen < bridge.gen
             one == [key |-> f.key, at |-> air.playback]
             stale == bridge.stale \/ late
             fallback == IF inject \/ (f.pending /\ bridge.media # "paused") THEN none ELSE f
             injected == IF inject THEN bridge.injected \cup {one} ELSE bridge.injected
             trace == <<>>
  <2>1. keys \subseteq KeyRecords /\ TraceIsOurs /\ PendingIsNew /\ AnsweredAreGone
        /\ FeedsThisConnection
    BY <1>0, KeysAreKeys DEF FilterInv
  <2>2. /\ f \in Fallbacks
        /\ f = bridge.fallback \/ (f.pending /\ f.key \in keys)
    BY <1>0, <2>1, ObservedFits
  <2>3. ~stale
    <3>1. \A k \in keys : ~(k.gen < bridge.gen)
      <4>1. \A k \in keys : k.gen \in Nat /\ k.gen >= bridge.gen
        BY <2>1 DEF TraceIsOurs, KeyRecords
      <4>2. bridge.gen \in Nat
        BY <1>0 DEF Bridges
      <4> HIDE DEF keys
      <4> QED BY <4>1, <4>2
    <3> QED BY <2>1, <3>1 DEF FeedsThisConnection
  <2>4. /\ filter' = [filter EXCEPT !.trace = trace]
        /\ bridge' = [bridge EXCEPT !.pc = "idle", !.stale = stale, !.fallback = fallback,
                                    !.injected = injected]
        /\ air' = IF inject THEN [air EXCEPT !.playback = Other(air.playback)] ELSE air
    BY <1>2, Zenon DEF Poll
  <2>5. trace \in Seq(TraceRecords) /\ Keys(trace) = {} /\ stale \in BOOLEAN
    BY NoiseHasNoKey
  <2> HIDE DEF keys, f
  <2>6. none \in Fallbacks /\ ~none.pending
    BY <2>2, NoFallbackFits DEF Fallbacks
  <2>7. one \in Injections /\ one.key = f.key
    BY <1>0, <2>2 DEF Injections, Fallbacks, Airs
  <2> HIDE DEF one, none, inject, stale, trace
  <2>8. fallback \in Fallbacks /\ injected \in SUBSET Injections
        /\ (fallback.pending => fallback = f /\ ~inject)
        /\ injected \subseteq bridge.injected \cup {one}
        /\ (inject => f.pending)
        /\ (~inject => injected = bridge.injected)
    BY <1>0, <2>2, <2>6, <2>7 DEF Bridges, inject
  <2> HIDE DEF fallback, injected
  <2>9. filter' \in Drivers /\ filter'.trace = trace
    BY <1>0, <2>4, <2>5 DEF Drivers
  <2>10. bridge' \in Bridges /\ bridge'.gen = bridge.gen /\ bridge'.heard = bridge.heard
         /\ bridge'.stale = stale /\ bridge'.fallback = fallback /\ bridge'.injected = injected
    BY <1>0, <2>4, <2>5, <2>8 DEF Bridges
  <2>11. air' \in Airs /\ air'.gen = air.gen /\ air'.news = air.news /\ air'.sent = air.sent
    <3>1. Other(air.playback) \in Playbacks
      BY DEF Other, Playbacks
    <3>2. CASE inject
      <4> DEFINE other == Other(air.playback)
      <4> HIDE DEF other
      <4>1. air' = [air EXCEPT !.playback = other] /\ other \in Playbacks
        BY <2>4, <3>1, <3>2 DEF other
      <4> QED BY <1>0, <4>1 DEF Airs
    <3>3. CASE ~inject
      BY <1>0, <2>4, <3>3
    <3> QED BY <3>2, <3>3
  <2>12. f.pending => /\ f.key.id <= air.sent
                      /\ \A i \in bridge.injected : i.key # f.key
    <3>1. CASE f = bridge.fallback
      BY <2>1, <3>1 DEF PendingIsNew
    <3>2. CASE f.key \in keys
      BY <2>1, <3>2 DEF TraceIsOurs, AnsweredAreGone, keys
    <3> QED BY <2>2, <3>1, <3>2
  <2>13. FilterFits' /\ HeardInTurn' /\ TraceIsOurs'
    BY <2>5, <2>9, <2>10, <2>11 DEF FilterInv, FilterFits, HeardInTurn, TraceIsOurs
  <2>14. FeedsThisConnection'
    <3>1. \A i, j \in bridge.injected : i.key = j.key => i = j
      BY <2>1 DEF FeedsThisConnection
    <3>2. \A i, j \in injected : i.key = j.key => i = j
      <4>1. CASE inject
        BY <2>7, <2>8, <2>12, <3>1, <4>1
      <4>2. CASE ~inject
        BY <2>8, <3>1, <4>2
      <4> QED BY <4>1, <4>2
    <3> QED BY <2>3, <2>10, <3>2 DEF FeedsThisConnection
  <2>15. PendingIsNew'
    BY <2>5, <2>8, <2>9, <2>10, <2>11, <2>12 DEF PendingIsNew
  <2>16. AnsweredAreGone'
    <3>1. \A i \in injected : i.key.id <= air.sent
      <4>1. \A i \in bridge.injected : i.key.id <= air.sent
        BY <2>1 DEF AnsweredAreGone
      <4>2. CASE inject
        BY <2>7, <2>8, <2>12, <4>1, <4>2
      <4>3. CASE ~inject
        BY <2>8, <4>1, <4>3
      <4> QED BY <4>2, <4>3
    <3> QED BY <2>5, <2>9, <2>10, <2>11, <3>1 DEF AnsweredAreGone
  <2> QED BY <2>13, <2>14, <2>15, <2>16 DEF FilterInv
<1> QED BY <1>1, <1>2

(* So it is an invariant. *)
LEMMA FilterInvHolds == FilterSpec => []FilterInv
<1>1. FilterInit => FilterInv
  <2> SUFFICES ASSUME FilterInit PROVE FilterInv
    OBVIOUS
  <2> DEFINE none == <<>>
             f == NoFallback(0)
  <2>1. /\ none \in Seq(TraceRecords) /\ none \in Seq(KeyRecords)
        /\ none \in Seq({"connected", "disconnected"}) /\ Keys(none) = {}
    BY NoiseHasNoKey
  <2>2. Cardinality(ReportsIn(none)) = 0
    <3>1. ReportsIn(none) = {}
      BY DEF ReportsIn
    <3> QED BY <3>1, FS_EmptySet
  <2>3. f \in Fallbacks /\ ~f.pending
    BY NoFallbackFits
  <2>4. /\ filter = [up |-> FALSE, control |-> FALSE, below |-> "nothing", trace |-> none]
        /\ bridge = [pc |-> "idle", handle |-> "none", session |-> FALSE, gen |-> 0, heard |-> 0,
                     present |-> FALSE, calling |-> FALSE, media |-> "paused",
                     fallback |-> f, stale |-> FALSE, injected |-> {}]
    BY DEF FilterInit
  <2>5. PICK p \in Playbacks :
          air = [gen |-> 0, link |-> FALSE, sent |-> 0, handed |-> none, news |-> none,
                 playback |-> p, published |-> p]
    BY DEF FilterInit, Playbacks
  <2> HIDE DEF none, f
  <2>6. filter \in Drivers /\ filter.trace = none
    BY <2>1, <2>4 DEF Drivers
  <2>7. bridge \in Bridges /\ bridge.gen = 0 /\ bridge.heard = 0 /\ ~bridge.stale
        /\ bridge.injected = {} /\ ~bridge.fallback.pending
    BY <2>3, <2>4 DEF Bridges, Playbacks
  <2>8. air \in Airs /\ air.gen = 0 /\ air.news = none
    BY <2>1, <2>5 DEF Airs
  <2> QED BY <2>1, <2>2, <2>6, <2>7, <2>8
       DEF FilterInv, FilterFits, HeardInTurn, TraceIsOurs, PendingIsNew, AnsweredAreGone,
           FeedsThisConnection
<1>2. FilterInv /\ [FilterNext]_filterVars => FilterInv'
  <2> SUFFICES ASSUME FilterInv, [FilterNext]_filterVars PROVE FilterInv'
    OBVIOUS
  <2>1. CASE UNCHANGED filterVars
    BY <2>1 DEF filterVars, FilterInv, FilterFits, HeardInTurn, TraceIsOurs, PendingIsNew,
       AnsweredAreGone, FeedsThisConnection
  <2>2. CASE DriverSteps
    BY <2>2, DriverKeepsFeed, CleanupKeepsFeed DEF DriverSteps
  <2>3. CASE HostSteps
    BY <2>3, HearsKeepsFeed, CallsKeepFeed, ReconcilesFeed, PollKeepsFeed DEF HostSteps
  <2>4. CASE HeadsetSends
    BY <2>4, SendingKeepsFeed
  <2>5. CASE Connects \/ Disconnects \/ MicrosoftHandles \/ MonitorPublishes
    BY <2>5, AirKeepsFeed
  <2>6. CASE TimePassesForKeys
    BY <2>6, CallsKeepFeed
  <2> QED BY <2>1, <2>2, <2>3, <2>4, <2>5, <2>6 DEF FilterNext
<1> QED BY <1>1, <1>2, PTL DEF FilterSpec

(* V1AvrcpFilterHost::BeginSession and Poll, and NldAvrcpFilterTracePush: the mapper of a       *)
(* connection is fed no key of an earlier one, and no key is answered twice, for every size of  *)
(* the trace and every number of connections and keys.                                          *)
THEOREM KeysFeedTheirConnection == FilterSpec => []FeedsThisConnection
<1>1. FilterInv => FeedsThisConnection
  BY DEF FilterInv
<1> QED BY <1>1, FilterInvHolds, PTL

---------------------------------------------------------------------------
(* The adaptive quality.  Of the windows since its last change the         *)
(* controller has spent the cooldown, or what is left of it, and the clean *)
(* ones it counts are the last of a clean run.                             *)

AbrSpec == AbrInit /\ [][AbrNext]_abr

Enough == Cooldown + CleanToRaise
AbrRecords ==
    [quality : 0..Lowest, warm : 0..Warmup, clean : 0..CleanToRaise - 1, cool : 0..Cooldown,
     changed : BOOLEAN, windows : 0..Enough, run : 0..Enough]

AbrFits(a) ==
    /\ a \in AbrRecords
    /\ a.clean <= a.run
    /\ a.changed => a.warm = 0 /\ a.windows + a.cool >= Cooldown + a.clean

(* The windows of the controller are numbers. *)
LEMMA AbrConstants == Warmup \in Nat /\ Cooldown \in Nat /\ CleanToRaise \in Nat \ {0} /\ Lowest = 2
<1>1. Warmup \in {Warmup, Cooldown} /\ Cooldown \in {Warmup, Cooldown}
  OBVIOUS
<1> QED BY <1>1, AbrAssumption DEF Lowest

(* A window of some load, counted. *)
LEMMA SeenCounts ==
    ASSUME NEW a, AbrFits(a), NEW load \in Loads
    PROVE  /\ Seen(a, load) \in AbrRecords
           /\ Seen(a, load).quality = a.quality /\ Seen(a, load).warm = a.warm
           /\ Seen(a, load).clean = a.clean /\ Seen(a, load).cool = a.cool
           /\ Seen(a, load).changed = a.changed
           /\ Seen(a, load).windows = (IF a.windows < Enough THEN a.windows + 1 ELSE a.windows)
           /\ Seen(a, load).run = (IF load = "clean"
                                   THEN IF a.run < Enough THEN a.run + 1 ELSE a.run ELSE 0)
<1> DEFINE windows == IF a.windows < Enough THEN a.windows + 1 ELSE a.windows
           run == IF load = "clean" THEN IF a.run < Enough THEN a.run + 1 ELSE a.run ELSE 0
<1>1. Seen(a, load) = [a EXCEPT !.windows = windows, !.run = run]
  BY DEF Seen, Enough
<1>2. windows \in 0..Enough /\ run \in 0..Enough
  BY AbrConstants DEF AbrFits, AbrRecords, Enough
<1> QED BY <1>1, <1>2 DEF AbrFits, AbrRecords

(* The judgement of a window keeps the account, and raises the bitrate only after a cooldown *)
(* and a clean run.                                                                          *)
LEMMA AdaptedKeeps ==
    ASSUME NEW a, AbrFits(a), NEW load \in Loads
    PROVE  /\ AbrFits(Adapted(Seen(a, load), load))
           /\ Adapted(Seen(a, load), load).quality < a.quality =>
                 /\ a.run + 1 >= CleanToRaise
                 /\ (a.changed => a.windows + 1 >= Cooldown + CleanToRaise)
<1> DEFINE s == Seen(a, load)
           t == Adapted(s, load)
<1> SUFFICES /\ AbrFits(t)
             /\ t.quality < a.quality =>
                   /\ a.run + 1 >= CleanToRaise
                   /\ (a.changed => a.windows + 1 >= Cooldown + CleanToRaise)
  OBVIOUS
<1>1. /\ s \in AbrRecords /\ s.quality = a.quality /\ s.warm = a.warm /\ s.clean = a.clean
      /\ s.cool = a.cool /\ s.changed = a.changed
      /\ s.windows = (IF a.windows < Enough THEN a.windows + 1 ELSE a.windows)
      /\ s.run = (IF load = "clean" THEN IF a.run < Enough THEN a.run + 1 ELSE a.run ELSE 0)
  BY SeenCounts
<1>2. /\ a.quality \in 0..2 /\ a.warm \in 0..Warmup /\ a.clean \in 0..CleanToRaise - 1
      /\ a.cool \in 0..Cooldown /\ a.windows \in 0..Enough /\ a.run \in 0..Enough
      /\ a.clean <= a.run /\ a.changed \in BOOLEAN
      /\ a.changed => a.warm = 0 /\ a.windows + a.cool >= Cooldown + a.clean
  BY AbrConstants DEF AbrFits, AbrRecords
<1>3. Warmup \in Nat /\ Cooldown \in Nat /\ CleanToRaise \in Nat \ {0} /\ Enough = Cooldown + CleanToRaise
  BY AbrConstants DEF Enough
<1> DEFINE congested == load \in {"congested", "severe"}
           cooling == s.cool > 0
           cool == IF cooling THEN s.cool - 1 ELSE s.cool
           rest == [s EXCEPT !.clean = 0, !.cool = cool]
           changed == [rest EXCEPT !.cool = Cooldown, !.changed = TRUE, !.windows = 0, !.run = 0]
           Lowers == congested /\ s.quality < Lowest /\ (~cooling \/ load = "severe")
<1>4. cool \in 0..Cooldown
  BY <1>1, <1>2, <1>3
<1>5. /\ rest \in AbrRecords /\ rest.clean = 0 /\ rest.cool = cool /\ rest.quality = s.quality
      /\ rest.run = s.run /\ rest.changed = s.changed /\ rest.windows = s.windows /\ rest.warm = s.warm
  <2>1. 0 \in 0..CleanToRaise - 1
    BY <1>3
  <2> HIDE DEF cool, s
  <2> QED BY <1>1, <1>4, <2>1 DEF AbrRecords
<1>6. /\ changed \in AbrRecords /\ changed.clean = 0 /\ changed.cool = Cooldown
      /\ changed.changed = TRUE /\ changed.windows = 0 /\ changed.run = 0
      /\ changed.quality = s.quality /\ changed.warm = s.warm
  <2>1. Cooldown \in 0..Cooldown /\ 0 \in 0..Enough
    BY <1>3
  <2> HIDE DEF rest, s
  <2> QED BY <1>5, <2>1 DEF AbrRecords
<1>7. CASE s.warm > 0
  <2>1. t = [s EXCEPT !.warm = s.warm - 1, !.clean = 0]
    BY <1>7 DEF Adapted
  <2>2. s.warm - 1 \in 0..Warmup /\ 0 \in 0..CleanToRaise - 1
    BY <1>1, <1>2, <1>3, <1>7
  <2>3. /\ t \in AbrRecords /\ t.clean = 0 /\ t.run = s.run /\ t.changed = s.changed
        /\ t.quality = s.quality
    <3> HIDE DEF s, t
    <3> QED BY <1>1, <2>1, <2>2 DEF AbrRecords
  <2> HIDE DEF s, t
  <2>4. ~s.changed /\ t.clean <= t.run
    BY <1>1, <1>2, <1>3, <1>7, <2>3 DEF AbrRecords
  <2> QED BY <1>1, <1>2, <2>3, <2>4 DEF AbrFits
<1>8. CASE s.warm = 0 /\ Lowers
  <2>1. t = [changed EXCEPT !.quality = s.quality + 1]
    BY <1>8 DEF Adapted
  <2>2. s.quality + 1 \in 0..Lowest
    BY <1>1, <1>2, <1>8, AbrConstants
  <2>3. /\ t \in AbrRecords /\ t.clean = 0 /\ t.run = 0 /\ t.windows = 0 /\ t.cool = Cooldown
        /\ t.warm = 0 /\ t.quality = s.quality + 1
    <3> HIDE DEF changed, s, t
    <3> QED BY <1>6, <1>8, <2>1, <2>2 DEF AbrRecords
  <2> HIDE DEF s, t
  <2> QED BY <1>1, <1>2, <1>3, <2>3 DEF AbrFits
<1>9. CASE s.warm = 0 /\ ~Lowers
  <2>1. t = IF cooling \/ load # "clean" \/ s.quality = 0 THEN rest
            ELSE IF s.clean + 1 < CleanToRaise THEN [rest EXCEPT !.clean = s.clean + 1]
            ELSE [changed EXCEPT !.quality = s.quality - 1]
    BY <1>9 DEF Adapted
  <2>2. CASE cooling \/ load # "clean" \/ s.quality = 0
    <3>1. t = rest
      BY <2>1, <2>2
    <3>2. rest.clean <= rest.run /\ (rest.changed => rest.warm = 0 /\ rest.windows + rest.cool >= Cooldown + rest.clean)
      BY <1>1, <1>2, <1>3, <1>5, <1>9
    <3> HIDE DEF rest, s, t
    <3> QED BY <1>1, <1>2, <1>5, <3>1, <3>2 DEF AbrFits
  <2>3. CASE ~cooling /\ load = "clean" /\ s.quality # 0 /\ s.clean + 1 < CleanToRaise
    <3>1. t = [rest EXCEPT !.clean = s.clean + 1]
      BY <2>1, <2>3
    <3>2. s.clean + 1 \in 0..CleanToRaise - 1
      BY <1>1, <1>2, <1>3, <2>3
    <3>3. /\ t \in AbrRecords /\ t.clean = s.clean + 1 /\ t.cool = cool /\ t.quality = s.quality
          /\ t.run = s.run /\ t.changed = s.changed /\ t.windows = s.windows /\ t.warm = 0
      <4> HIDE DEF rest, s, t, cool
      <4> QED BY <1>5, <1>9, <3>1, <3>2 DEF AbrRecords
    <3>4. s.clean + 1 <= s.run /\ (s.changed => s.windows + cool >= Cooldown + (s.clean + 1))
      BY <1>1, <1>2, <1>3, <2>3
    <3> HIDE DEF s, t, cool
    <3> QED BY <1>1, <1>2, <3>3, <3>4 DEF AbrFits
  <2>4. CASE ~cooling /\ load = "clean" /\ s.quality # 0 /\ ~(s.clean + 1 < CleanToRaise)
    <3>1. t = [changed EXCEPT !.quality = s.quality - 1]
      BY <2>1, <2>4
    <3>2. s.quality - 1 \in 0..Lowest
      BY <1>1, <1>2, <2>4, AbrConstants
    <3>3. /\ t \in AbrRecords /\ t.clean = 0 /\ t.run = 0 /\ t.windows = 0 /\ t.cool = Cooldown
          /\ t.warm = 0
      <4> HIDE DEF changed, s, t
      <4> QED BY <1>6, <1>9, <3>1, <3>2 DEF AbrRecords
    <3>4. a.run + 1 >= CleanToRaise /\ (a.changed => a.windows + 1 >= Cooldown + CleanToRaise)
      BY <1>1, <1>2, <1>3, <2>4
    <3> HIDE DEF s, t
    <3> QED BY <1>3, <3>3, <3>4 DEF AbrFits
  <2> HIDE DEF s, t
  <2> QED BY <2>2, <2>3, <2>4
<1>10. s.warm = 0 \/ s.warm > 0
  BY <1>1, <1>2
<1> QED BY <1>7, <1>8, <1>9, <1>10

(* So it is an invariant. *)
LEMMA AbrInvHolds == AbrSpec => []AbrFits(abr)
<1>1. ASSUME NEW quality \in 0..Lowest PROVE AbrFits(NewAbr(quality))
  <2>1. /\ Warmup \in 0..Warmup /\ 0 \in 0..CleanToRaise - 1 /\ 0 \in 0..Cooldown /\ 0 \in 0..Enough
        /\ quality \in 0..Lowest
    BY AbrConstants, <1>1 DEF Enough
  <2> QED BY <2>1 DEF NewAbr, AbrFits, AbrRecords
<1>2. AbrInit => AbrFits(abr)
  BY <1>1 DEF AbrInit
<1>3. AbrFits(abr) /\ [AbrNext]_abr => AbrFits(abr)'
  BY AdaptedKeeps DEF AbrNext
<1> QED BY <1>2, <1>3, PTL DEF AbrSpec

(* ldac_abr_update: the bitrate is raised only after a whole cooldown and enough clean windows *)
(* in a row, for every length of the two and of the warm-up.                                  *)
THEOREM BitrateAdaptsSlowly == AbrSpec => AdaptsSlowly
<1>1. AbrFits(abr) /\ [AbrNext]_abr =>
        [abr'.quality < abr.quality =>
            /\ abr.run + 1 >= CleanToRaise
            /\ (abr.changed => abr.windows + 1 >= Cooldown + CleanToRaise)]_abr
  BY AdaptedKeeps DEF AbrNext
<1> QED BY <1>1, AbrInvHolds, PTL DEF AbrSpec, AdaptsSlowly

---------------------------------------------------------------------------
(* The endpoint's stream and its ring.  The clock's rest is carried, so    *)
(* what one update plays depends on the milliseconds alone; a push moves   *)
(* both offsets of the ring by what it drops and keeps.                    *)

StreamSpec == StreamInit /\ [][StreamNext]_streamVars

(* The sizes of the stream are numbers. *)
LEMMA StreamConstants ==
    /\ Rate \in Nat \ {0} /\ Unit \in Nat \ {0} /\ Block \in Nat \ {0} /\ Capacity \in Nat \ {0}
    /\ MaximumRead \in Nat \ {0} /\ Interval \in Nat \ {0} /\ MaxPlayed \in Nat
<1>1. /\ {Rate, Unit, Block, Capacity, MaximumRead, Interval} \subseteq Nat \ {0}
      /\ {Latency, MaxPlayed, MaxEpochs} \subseteq Nat
  BY StreamAssumption
<1> QED BY <1>1

(* Quotients and remainders of numbers. *)
LEMMA Divides ==
    ASSUME NEW a \in Nat, NEW n \in Nat \ {0}
    PROVE  /\ a % n \in 0..n - 1 /\ a \div n \in Nat /\ a = n * (a \div n) + (a % n)
           /\ a < n => a % n = a /\ a \div n = 0
BY SMT

(* Whole turns change no remainder. *)
LEMMA WholeTurns ==
    ASSUME NEW a \in Nat, NEW q \in Nat, NEW n \in Nat \ {0}
    PROVE  (a + n * q) % n = a % n /\ (a + n * q) \div n = (a \div n) + q
BY SMT

(* A greater number has no smaller quotient. *)
LEMMA DivisionGrows ==
    ASSUME NEW a \in Nat, NEW b \in Nat, NEW n \in Nat \ {0}, a <= b
    PROVE  a \div n <= b \div n
BY SMT

(* A remainder may be taken before a sum or after it. *)
LEMMA RemainderOfSum ==
    ASSUME NEW a \in Nat, NEW b \in Nat, NEW n \in Nat \ {0}
    PROVE  ((a % n) + b) % n = (a + b) % n
<1> DEFINE q == a \div n
           r == a % n
<1>1. r \in Nat /\ q \in Nat /\ a = n * q + r
  BY Divides
<1> HIDE DEF q, r
<1>2. ((r + b) + n * q) % n = (r + b) % n
  <2> DEFINE c == r + b
  <2>1. c \in Nat
    BY <1>1
  <2> HIDE DEF c
  <2>2. (c + n * q) % n = c % n
    BY <1>1, <2>1, WholeTurns
  <2> QED BY <2>2 DEF c
<1>3. (r + b) + n * q = a + b
  BY <1>1
<1> QED BY <1>2, <1>3 DEF r

(* A step around the ring: at most one turn. *)
LEMMA OneTurn ==
    ASSUME NEW a \in Nat, NEW n \in Nat \ {0}, a < n, NEW b \in Nat, b <= n
    PROVE  (a + b) % n = IF a + b < n THEN a + b ELSE a + b - n
BY SMT

(* The byte m steps after offset w is m steps after it when counted from w. *)
LEMMA StepsAfter ==
    ASSUME NEW n \in Nat \ {0}, NEW w \in 0..n - 1, NEW m \in 0..n - 1
    PROVE  (((w + m) % n) + n - w) % n = m
<1> DEFINE i == (w + m) % n
<1>1. i = IF w + m < n THEN w + m ELSE w + m - n
  BY OneTurn
<1> HIDE DEF i
<1>2. CASE w + m < n
  <2>1. i + n - w = m + n * 1
    BY <1>1, <1>2
  <2>2. (m + n * 1) % n = m % n
    BY WholeTurns, 1 \in Nat, m \in Nat
  <2>3. m % n = m
    BY Divides
  <2> QED BY <2>1, <2>2, <2>3 DEF i
<1>3. CASE ~(w + m < n)
  <2>1. i + n - w = m
    BY <1>1, <1>3
  <2>2. m % n = m
    BY Divides
  <2> QED BY <2>1, <2>2 DEF i
<1> QED BY <1>2, <1>3

---------------------------------------------------------------------------

States == {"stop", "acquire", "pause", "run"}
StreamRecords ==
    [exists : BOOLEAN, buffer : BOOLEAN, ks : States, timer : BOOLEAN, linear : Nat,
     carry : 0..Unit - 1, late : Nat, due : Nat]
RingRecords ==
    [bytes : [0..Capacity - 1 -> Nat], r : 0..Capacity - 1, w : 0..Capacity - 1,
     available : 0..Capacity, written : Nat, read : Nat, dropped : Nat, base : Nat,
     epoch : Nat, active : BOOLEAN]

(* What the clock has played that the position does not show yet. *)
Played(s) == (Rate * s.late + s.carry) \div Unit

(* Every byte of the epoch is accounted for, and the offsets are as far apart as the ring is full. *)
RingFits(g) ==
    /\ g \in RingRecords
    /\ g.w = (g.r + g.available) % Capacity
    /\ g.written = g.read + g.dropped + g.available

StreamFits ==
    /\ pins \in 0..1 /\ stream.exists = (pins = 1)
    /\ stream \in StreamRecords /\ stream.linear + Played(stream) <= MaxPlayed + Rate
    /\ RingFits(ring)

(* What is played moves the position by at most a millisecond's bytes beyond the bound. *)
LEMMA PlayedFits ==
    ASSUME NEW s \in StreamRecords
    PROVE  /\ Played(s) \in Nat /\ (Rate * s.late + s.carry) % Unit \in 0..Unit - 1
           /\ s.late = 0 => Played(s) = 0
           /\ (Rate * (s.late + 1) + s.carry) \div Unit <= Played(s) + Rate
<1>1. /\ Rate \in Nat \ {0} /\ Unit \in Nat \ {0} /\ s.late \in Nat /\ s.carry \in Nat
      /\ s.carry < Unit
  BY StreamConstants DEF StreamRecords
<1> DEFINE played == Rate * s.late + s.carry
<1>2. played \in Nat
  BY <1>1
<1>3. s.late = 0 => played = s.carry
  BY <1>1
<1>4. Rate * (s.late + 1) + s.carry = played + Rate /\ Rate <= Unit * Rate
      /\ Unit * Rate \in Nat
  BY <1>1
<1>5. (played + Rate) \div Unit <= (played + Unit * Rate) \div Unit
  <2> HIDE DEF played
  <2>1. played + Rate \in Nat /\ played + Unit * Rate \in Nat /\ played + Rate <= played + Unit * Rate
    BY <1>1, <1>2, <1>4
  <2> QED BY <1>1, <2>1, DivisionGrows
<1>6. (played + Unit * Rate) \div Unit = (played \div Unit) + Rate
  <2> HIDE DEF played
  <2> QED BY <1>1, <1>2, WholeTurns
<1>7. /\ played \div Unit \in Nat /\ played % Unit \in 0..Unit - 1
      /\ s.late = 0 => played \div Unit = 0
  <2> HIDE DEF played
  <2> QED BY <1>1, <1>2, <1>3, Divides
<1>8. Played(s) = played \div Unit
  BY DEF Played
<1> HIDE DEF played
<1>9. (Rate * (s.late + 1) + s.carry) \div Unit <= Played(s) + Rate
  BY <1>4, <1>5, <1>6, <1>8
<1> QED BY <1>7, <1>8, <1>9 DEF played

(* A push keeps the account. *)
LEMMA PushFits ==
    ASSUME RingFits(ring), NEW first \in Nat, NEW count \in Nat
    PROVE  RingFits(PushPcm(first, count))
<1> DEFINE whole == count - (count % Block)
           keep == Lesser(whole, Capacity)
           from == first + (whole - keep)
           room == Room(keep)
           Offset(i) == (i + Capacity - ring.w) % Capacity
           bytes == [i \in 0..Capacity - 1 |-> IF Offset(i) < keep THEN from + Offset(i) ELSE ring.bytes[i]]
           pushed == [ring EXCEPT !.bytes = bytes,
                !.w = (ring.w + keep) % Capacity,
                !.r = (ring.r + room) % Capacity,
                !.available = ring.available - room + keep,
                !.dropped = ring.dropped + (whole - keep) + room,
                !.written = ring.written + whole]
<1>1. PushPcm(first, count) = IF ~ring.active \/ whole = 0 THEN ring ELSE pushed
  BY DEF PushPcm
<1>2. /\ ring.r \in 0..Capacity - 1 /\ ring.w \in 0..Capacity - 1
      /\ ring.available \in 0..Capacity /\ ring.written \in Nat /\ ring.dropped \in Nat /\ ring.read \in Nat
      /\ Capacity \in Nat \ {0} /\ Block \in Nat \ {0}
  BY StreamConstants DEF RingFits, RingRecords
<1>2a. ring \in RingRecords /\ ring.bytes \in [0..Capacity - 1 -> Nat]
  BY DEF RingFits, RingRecords
<1>3. whole \in Nat
  <2>1. count % Block \in 0..Block - 1 /\ count \div Block \in Nat
        /\ count = Block * (count \div Block) + (count % Block)
    BY <1>2, Divides
  <2>2. Block * (count \div Block) \in Nat
    BY <1>2, <2>1
  <2> QED BY <2>1, <2>2
<1> HIDE DEF whole
<1>4. keep \in 0..Capacity /\ keep <= whole
  BY <1>2, <1>3 DEF Lesser
<1> HIDE DEF keep
<1>5. room \in 0..ring.available /\ ring.available - room + keep \in 0..Capacity
      /\ room >= keep - (Capacity - ring.available)
  BY <1>2, <1>4 DEF Room
<1> HIDE DEF room
<1>6. /\ (ring.w + keep) % Capacity \in 0..Capacity - 1 /\ (ring.r + room) % Capacity \in 0..Capacity - 1
  <2>1. ring.w + keep \in Nat /\ ring.r + room \in Nat
    BY <1>2, <1>4, <1>5
  <2> QED BY <1>2, <2>1, Divides
<1>7. bytes \in [0..Capacity - 1 -> Nat]
  <2>1. ASSUME NEW i \in 0..Capacity - 1 PROVE Offset(i) \in Nat
    <3> DEFINE j == i + Capacity - ring.w
    <3>1. j \in Nat
      BY <1>2
    <3> HIDE DEF j
    <3>2. j % Capacity \in 0..Capacity - 1
      BY <1>2, <3>1, Divides
    <3> QED BY <1>2, <3>2 DEF j
  <2>2. from \in Nat
    BY <1>3, <1>4
  <2> HIDE DEF Offset, from
  <2>3. ASSUME NEW i \in 0..Capacity - 1
        PROVE  (IF Offset(i) < keep THEN from + Offset(i) ELSE ring.bytes[i]) \in Nat
    <3>1. Offset(i) \in Nat
      BY <2>1
    <3>2. ring.bytes[i] \in Nat
      BY <1>2a
    <3>3. from + Offset(i) \in Nat
      BY <2>2, <3>1
    <3> QED BY <3>2, <3>3
  <2> QED BY <2>3
<1> HIDE DEF bytes
<1>8. /\ pushed \in RingRecords /\ pushed.w = (ring.w + keep) % Capacity
      /\ pushed.r = (ring.r + room) % Capacity
      /\ pushed.available = ring.available - room + keep
      /\ pushed.dropped = ring.dropped + (whole - keep) + room
      /\ pushed.written = ring.written + whole /\ pushed.read = ring.read
  <2> DEFINE w == (ring.w + keep) % Capacity
             r == (ring.r + room) % Capacity
             available == ring.available - room + keep
             dropped == ring.dropped + (whole - keep) + room
             written == ring.written + whole
  <2>1. dropped \in Nat /\ written \in Nat
    BY <1>2, <1>3, <1>4, <1>5
  <2> HIDE DEF dropped, written, available, w, r
  <2>2. w \in 0..Capacity - 1 /\ r \in 0..Capacity - 1 /\ available \in 0..Capacity
    BY <1>5, <1>6 DEF w, r, available
  <2>3. pushed = [ring EXCEPT !.bytes = bytes, !.w = w, !.r = r, !.available = available,
                              !.dropped = dropped, !.written = written]
    BY DEF w, r, available, dropped, written
  <2> HIDE DEF pushed
  <2>4. /\ pushed \in RingRecords /\ pushed.w = w /\ pushed.r = r /\ pushed.available = available
        /\ pushed.dropped = dropped /\ pushed.written = written /\ pushed.read = ring.read
    BY <1>2a, <1>7, <2>1, <2>2, <2>3 DEF RingRecords
  <2> QED BY <2>4 DEF w, r, available, dropped, written
<1> HIDE DEF pushed
<1>9. pushed.w = (pushed.r + pushed.available) % Capacity
  <2> DEFINE rest == ring.available - room + keep
  <2>1. rest \in Nat /\ (ring.r + room) + rest = (ring.r + ring.available) + keep
        /\ ring.r + room \in Nat /\ ring.r + ring.available \in Nat /\ keep \in Nat
    BY <1>2, <1>4, <1>5
  <2> HIDE DEF rest
  <2>2. (((ring.r + room) % Capacity) + rest) % Capacity = ((ring.r + room) + rest) % Capacity
    BY <1>2, <2>1, RemainderOfSum
  <2>3. (((ring.r + ring.available) % Capacity) + keep) % Capacity
          = ((ring.r + ring.available) + keep) % Capacity
    BY <1>2, <2>1, RemainderOfSum
  <2>4. ring.w = (ring.r + ring.available) % Capacity
    BY DEF RingFits
  <2>5. pushed.available = rest
    BY <1>8 DEF rest
  <2> QED BY <1>8, <2>1, <2>2, <2>3, <2>4, <2>5
<1>10. pushed.written = pushed.read + pushed.dropped + pushed.available
  <2>1. ring.written = ring.read + ring.dropped + ring.available
    BY DEF RingFits
  <2> QED BY <1>2, <1>3, <1>4, <1>5, <1>8, <2>1
<1>11. RingFits(pushed)
  BY <1>8, <1>9, <1>10 DEF RingFits
<1> QED BY <1>1, <1>11

(* An update of the position pushes what was played. *)
LEMMA UpdateFits ==
    ASSUME StreamFits
    PROVE  /\ Updated \in StreamRecords /\ Updated.exists = stream.exists
           /\ Updated.buffer = stream.buffer /\ Updated.ks = stream.ks /\ Updated.timer = stream.timer
           /\ Updated.linear = stream.linear + Played(stream) /\ Updated.late = 0
           /\ Updated.carry = (Rate * stream.late + stream.carry) % Unit
           /\ Updated.linear <= MaxPlayed + Rate
           /\ RingFits(PushPcm(stream.linear, Displaced))
<1> DEFINE carry == (Rate * stream.late + stream.carry) % Unit
           linear == stream.linear + Displaced
<1>1. stream \in StreamRecords /\ stream.linear \in Nat
  BY DEF StreamFits, StreamRecords
<1>2. Displaced = Played(stream)
  BY DEF Displaced, Played
<1>3. Played(stream) \in Nat /\ carry \in 0..Unit - 1
  BY <1>1, PlayedFits
<1>4. linear \in Nat
  BY <1>1, <1>2, <1>3
<1>5. Updated = [stream EXCEPT !.linear = linear, !.carry = carry, !.late = 0]
  BY DEF Updated
<1>6. RingFits(PushPcm(stream.linear, Displaced))
  BY <1>1, <1>2, <1>3, PushFits DEF StreamFits
<1> HIDE DEF carry, linear
<1>7. /\ Updated \in StreamRecords /\ Updated.exists = stream.exists
      /\ Updated.buffer = stream.buffer /\ Updated.ks = stream.ks /\ Updated.timer = stream.timer
      /\ Updated.linear = linear /\ Updated.late = 0 /\ Updated.carry = carry
  BY <1>1, <1>3, <1>4, <1>5 DEF StreamRecords
<1> QED BY <1>2, <1>6, <1>7 DEF linear, carry, StreamFits

(* A millisecond of the clock keeps the position's bound and the shape of the stream. *)
LEMMA ClockFits ==
    ASSUME StreamFits, MillisecondPasses \/ TimerNotifyRT \/ GetPositions
    PROVE  StreamFits'
<1>1. stream \in StreamRecords /\ stream.linear \in Nat /\ stream.late \in Nat /\ stream.due \in Nat
      /\ MaxPlayed \in Nat /\ Rate \in Nat /\ Interval \in Nat
  BY StreamConstants DEF StreamFits, StreamRecords
<1>2. CASE MillisecondPasses
  <2> DEFINE late == stream.late + 1
             due == stream.due + 1
  <2>1. late \in Nat /\ due \in Nat
    BY <1>1
  <2>2. stream' = [stream EXCEPT !.late = late, !.due = due] /\ ring' = ring /\ pins' = pins
        /\ stream.linear + Played(stream) < MaxPlayed
    BY <1>2 DEF MillisecondPasses, Displaced, Played
  <2> HIDE DEF late, due
  <2>3. /\ stream' \in StreamRecords /\ stream'.exists = stream.exists
        /\ stream'.linear = stream.linear /\ stream'.late = late /\ stream'.carry = stream.carry
    BY <1>1, <2>1, <2>2 DEF StreamRecords
  <2>4. Played(stream)' <= Played(stream) + Rate /\ Played(stream)' \in Nat /\ Played(stream) \in Nat
    <3>1. (Rate * (stream.late + 1) + stream.carry) \div Unit <= Played(stream) + Rate
          /\ Played(stream) \in Nat
      BY <1>1, PlayedFits
    <3>2. Played(stream)' = (Rate * (stream.late + 1) + stream.carry) \div Unit
      BY <2>3 DEF Played, late
    <3>3. Played(stream') \in Nat
      BY <2>3, PlayedFits
    <3> QED BY <3>1, <3>2, <3>3
  <2>5. stream'.linear + Played(stream)' <= MaxPlayed + Rate
    BY <1>1, <2>2, <2>3, <2>4
  <2> QED BY <2>2, <2>3, <2>5 DEF StreamFits
<1>3. ASSUME NEW s \in StreamRecords, s.exists = stream.exists, s.linear = stream.linear + Played(stream),
             s.late = 0, UpdatesPosition(s), pins' = pins
      PROVE  StreamFits'
  <2>1. stream' = s /\ RingFits(ring') /\ s.linear <= MaxPlayed + Rate
    BY <1>3, UpdateFits DEF UpdatesPosition, StreamFits
  <2>2. Played(s) = 0 /\ s.linear \in Nat
    BY <1>3, PlayedFits DEF StreamRecords
  <2> QED BY <1>1, <1>3, <2>1, <2>2 DEF StreamFits
<1>4. CASE TimerNotifyRT
  <2> DEFINE due == stream.due - Interval
             s == [Updated EXCEPT !.due = due]
  <2>1. due \in Nat /\ UpdatesPosition(s) /\ pins' = pins
    BY <1>1, <1>4 DEF TimerNotifyRT
  <2> HIDE DEF due
  <2>2. s \in StreamRecords /\ s.exists = stream.exists /\ s.linear = stream.linear + Played(stream) /\ s.late = 0
    BY <2>1, UpdateFits DEF StreamRecords
  <2> QED BY <1>3, <2>1, <2>2
<1>5. CASE GetPositions
  BY <1>3, <1>5, UpdateFits DEF GetPositions
<1> QED BY <1>2, <1>4, <1>5

(* Taking from the ring, emptying it and beginning anew keep the account. *)
LEMMA RingKept ==
    ASSUME StreamFits
    PROVE  /\ PcmRead => RingFits(ring')
           /\ RingFits(BeginPcmStream) /\ RingFits(EndPcmStream)
<1>1. /\ ring \in RingRecords /\ ring.w = (ring.r + ring.available) % Capacity
      /\ ring.written = ring.read + ring.dropped + ring.available
  BY DEF StreamFits, RingFits
<1>2. /\ ring.r \in 0..Capacity - 1 /\ ring.w \in 0..Capacity - 1 /\ ring.available \in 0..Capacity
      /\ ring.written \in Nat /\ ring.read \in Nat /\ ring.dropped \in Nat /\ ring.epoch \in Nat
      /\ Capacity \in Nat \ {0} /\ Block \in Nat \ {0} /\ MaximumRead \in Nat \ {0}
      /\ stream.linear \in Nat /\ 0 \in 0..Capacity - 1 /\ 0 \in 0..Capacity
  BY <1>1, StreamConstants DEF RingRecords, StreamFits, StreamRecords
<1>3. (0 + 0) % Capacity = 0
  <2>1. 0 % Capacity = 0
    BY <1>2, Divides
  <2> QED BY <2>1
<1>4. ASSUME PcmRead PROVE RingFits(ring')
  <2>1. PICK room \in {Block, MaximumRead} :
           ring' = [ring EXCEPT !.r = (ring.r + Lesser(room, ring.available)) % Capacity,
                                !.available = ring.available - Lesser(room, ring.available),
                                !.read = ring.read + Lesser(room, ring.available)]
    BY <1>4 DEF PcmRead
  <2> DEFINE count == Lesser(room, ring.available)
             r == (ring.r + count) % Capacity
             available == ring.available - count
             read == ring.read + count
  <2>2. count \in 0..ring.available /\ count \in Nat
    BY <1>2 DEF Lesser
  <2> HIDE DEF count
  <2>3. available \in 0..Capacity /\ read \in Nat /\ available \in Nat /\ ring.r + count \in Nat
        /\ (ring.r + count) + available = ring.r + ring.available
    BY <1>2, <2>2
  <2>4. r \in 0..Capacity - 1
    <3> DEFINE sum == ring.r + count
    <3>1. sum \in Nat
      BY <2>3
    <3> HIDE DEF sum
    <3>2. sum % Capacity \in 0..Capacity - 1
      BY <1>2, <3>1, Divides
    <3> QED BY <3>2 DEF sum
  <2>5. ring' = [ring EXCEPT !.r = r, !.available = available, !.read = read]
    BY <2>1 DEF count
  <2>6. ring.written = read + ring.dropped + available
    BY <1>1, <1>2, <2>2
  <2>7. ring.w = (r + available) % Capacity
    <3> DEFINE sum == ring.r + count
    <3>1. sum \in Nat /\ available \in Nat /\ sum + available = ring.r + ring.available
      BY <2>3
    <3> HIDE DEF sum, available
    <3>2. ((sum % Capacity) + available) % Capacity = (sum + available) % Capacity
      <4>1. Capacity \in Nat \ {0}
        BY <1>2
      <4> QED BY <3>1, <4>1, RemainderOfSum
    <3>3. r = sum % Capacity
      BY DEF sum
    <3> HIDE DEF r
    <3> QED BY <1>1, <3>1, <3>2, <3>3
  <2> HIDE DEF r, available, read
  <2>8. /\ ring' \in RingRecords /\ ring'.r = r /\ ring'.available = available /\ ring'.read = read
        /\ ring'.w = ring.w /\ ring'.written = ring.written /\ ring'.dropped = ring.dropped
    BY <1>1, <2>3, <2>4, <2>5 DEF RingRecords
  <2> QED BY <2>6, <2>7, <2>8 DEF RingFits
<1>5. RingFits(BeginPcmStream)
  <2> DEFINE g == BeginPcmStream
             epoch == ring.epoch + 1
  <2>1. epoch \in Nat
    BY <1>2
  <2>2. g = [ring EXCEPT !.r = 0, !.w = 0, !.available = 0, !.written = 0, !.read = 0, !.dropped = 0,
                         !.base = stream.linear, !.epoch = epoch, !.active = TRUE]
    BY DEF BeginPcmStream
  <2> HIDE DEF epoch, g
  <2>3. /\ g \in RingRecords /\ g.r = 0 /\ g.w = 0 /\ g.available = 0 /\ g.written = 0 /\ g.read = 0
        /\ g.dropped = 0
    BY <1>1, <1>2, <2>1, <2>2 DEF RingRecords
  <2>4. RingFits(g)
    BY <1>3, <2>3 DEF RingFits
  <2> QED BY <2>4 DEF g
<1>6. RingFits(EndPcmStream)
  <2> DEFINE g == EndPcmStream
             dropped == ring.dropped + ring.available
  <2>1. dropped \in Nat /\ ring.written = ring.read + dropped + 0
    BY <1>1, <1>2
  <2>2. g = [ring EXCEPT !.dropped = dropped, !.r = 0, !.w = 0, !.available = 0, !.active = FALSE]
    BY DEF EndPcmStream
  <2> HIDE DEF dropped, g
  <2>3. /\ g \in RingRecords /\ g.r = 0 /\ g.w = 0 /\ g.available = 0 /\ g.written = ring.written
        /\ g.read = ring.read /\ g.dropped = dropped
    BY <1>1, <1>2, <2>1, <2>2 DEF RingRecords
  <2>4. RingFits(g)
    BY <1>3, <2>1, <2>3 DEF RingFits
  <2> QED BY <2>4 DEF g
<1> QED BY <1>4, <1>5, <1>6

(* A step that only renames what the stream does leaves its clock as it is. *)
LEMMA StillClock ==
    ASSUME StreamFits, stream' \in StreamRecords, stream'.exists = (pins' = 1), pins' \in 0..1,
           stream'.linear <= stream.linear, stream'.carry = stream.carry,
           stream'.late \in {stream.late, 0}, RingFits(ring')
    PROVE  StreamFits'
<1>1. Played(stream) \in Nat /\ Played(stream') \in Nat /\ (stream'.late = 0 => Played(stream') = 0)
  BY PlayedFits DEF StreamFits
<1>2. stream'.late = stream.late => Played(stream') = Played(stream)
  BY DEF Played
<1>3. /\ stream.linear \in Nat /\ stream'.linear \in Nat /\ stream.linear + Played(stream) <= MaxPlayed + Rate
      /\ MaxPlayed \in Nat /\ Rate \in Nat
  BY StreamConstants DEF StreamFits, StreamRecords
<1>4. stream'.linear + Played(stream') <= MaxPlayed + Rate
  BY <1>1, <1>2, <1>3
<1> QED BY <1>4 DEF StreamFits

(* Every step keeps the shape of the stream and of its ring. *)
LEMMA StreamStepFits ==
    ASSUME StreamFits, change \in [at : {"rest", "end", "assign"}, to : States], StreamNext
    PROVE  StreamFits'
<1>1. /\ stream \in StreamRecords /\ pins \in 0..1 /\ stream.exists = (pins = 1) /\ RingFits(ring)
      /\ stream.linear \in Nat /\ stream.carry \in 0..Unit - 1
  BY DEF StreamFits, StreamRecords
<1>2. 0 \in 0..Unit - 1 /\ Unit \in Nat \ {0} /\ MaxPlayed \in Nat /\ Rate \in Nat
  BY StreamConstants
<1>3. ASSUME stream' \in StreamRecords, stream'.linear = 0, stream'.late = 0,
             stream'.exists = (pins' = 1), pins' \in 0..1, ring' = ring
      PROVE  StreamFits'
  <2>1. Played(stream') = 0
    BY <1>3, PlayedFits
  <2> QED BY <1>1, <1>2, <1>3, <2>1 DEF StreamFits
<1>4. CASE NewStream
  <2>1. pins' = 1 /\ stream' = [NoStream EXCEPT !.exists = TRUE] /\ ring' = ring
    BY <1>4 DEF NewStream
  <2>2. /\ stream' \in StreamRecords /\ stream'.exists = TRUE /\ stream'.linear = 0
        /\ stream'.late = 0
    BY <1>2, <2>1 DEF NoStream, StreamRecords, States
  <2>3. (pins' = 1) = TRUE
    BY <2>1
  <2>4. stream'.exists = (pins' = 1)
    BY <2>2, <2>3, Zenon
  <2> QED BY <1>3, <2>1, <2>2, <2>4
<1>5. CASE StreamClosed
  <2>1. pins' = pins - 1 /\ stream' = NoStream /\ ring' = ring /\ stream.exists
    BY <1>5 DEF StreamClosed
  <2>2. pins' = 0
    <3>1. pins = 1
      BY <1>1, <2>1
    <3> QED BY <2>1, <3>1
  <2>3. /\ stream' \in StreamRecords /\ stream'.exists = FALSE /\ stream'.linear = 0
        /\ stream'.late = 0
    BY <1>2, <2>1 DEF NoStream, StreamRecords, States
  <2>4. (pins' = 1) = FALSE
    BY <2>2
  <2>5. stream'.exists = (pins' = 1)
    BY <2>3, <2>4, Zenon
  <2>6. pins' \in 0..1
    BY <2>2
  <2>7. ring' = ring
    BY <2>1, Zenon
  <2> QED BY <1>3, <2>3, <2>5, <2>6, <2>7, Zenon
<1>6. CASE AllocateBufferWithNotification \/ FreeBufferWithNotification
  <2>1. PICK b \in BOOLEAN : stream' = [stream EXCEPT !.buffer = b]
    BY <1>6 DEF AllocateBufferWithNotification, FreeBufferWithNotification
  <2>2. pins' = pins /\ ring' = ring
    BY <1>6 DEF AllocateBufferWithNotification, FreeBufferWithNotification
  <2>3. /\ stream' \in StreamRecords /\ stream'.exists = stream.exists /\ stream'.linear = stream.linear
        /\ stream'.carry = stream.carry /\ stream'.late = stream.late
    BY <1>1, <2>1 DEF StreamRecords
  <2> QED BY <1>1, <2>2, <2>3, StillClock
<1>7. CASE SetsStop
  <2>1. stream' = [stream EXCEPT !.linear = 0] /\ pins' = pins /\ ring' = ring
    BY <1>7 DEF SetsStop
  <2>2. /\ stream' \in StreamRecords /\ stream'.exists = stream.exists /\ stream'.linear = 0
        /\ stream'.carry = stream.carry /\ stream'.late = stream.late
    BY <1>1, <2>1 DEF StreamRecords
  <2> QED BY <1>1, <2>1, <2>2, StillClock
<1>8. CASE SetsAcquire
  <2>1. stream' = stream /\ pins' = pins /\ ring' = ring
    BY <1>8 DEF SetsAcquire
  <2> QED BY <1>1, <2>1, StillClock
<1>9. CASE SetsPause
  <2>1. pins' = pins
    BY <1>9 DEF SetsPause
  <2>2. CASE stream.ks = "run"
    <3> DEFINE s == [Updated EXCEPT !.timer = FALSE]
    <3>1. stream' = s /\ ring' = PushPcm(stream.linear, Displaced)
      BY <1>9, <2>2 DEF SetsPause, UpdatesPosition
    <3>2. s \in StreamRecords /\ s.exists = stream.exists /\ s.late = 0 /\ s.linear <= MaxPlayed + Rate
      BY UpdateFits DEF StreamRecords
    <3>3. Played(s) = 0 /\ s.linear \in Nat
      BY <3>2, PlayedFits DEF StreamRecords
    <3> HIDE DEF s
    <3> QED BY <1>1, <1>2, <2>1, <3>1, <3>2, <3>3, UpdateFits DEF StreamFits
  <2>3. CASE stream.ks # "run"
    <3>1. stream' = stream /\ ring' = ring
      BY <1>9, <2>3 DEF SetsPause
    <3> QED BY <1>1, <2>1, <3>1, StillClock
  <2> QED BY <2>2, <2>3
<1>10. CASE SetsRun
  <2>1. stream' = [stream EXCEPT !.late = 0, !.timer = TRUE] /\ pins' = pins /\ ring' = BeginPcmStream
    BY <1>10 DEF SetsRun
  <2>2. /\ stream' \in StreamRecords /\ stream'.exists = stream.exists /\ stream'.linear = stream.linear
        /\ stream'.carry = stream.carry /\ stream'.late = 0
    BY <1>1, <2>1 DEF StreamRecords
  <2> QED BY <1>1, <2>1, <2>2, StillClock, RingKept
<1>11. CASE EndsPcm
  <2>1. stream' = stream /\ pins' = pins /\ ring' \in {ring, EndPcmStream}
    BY <1>11 DEF EndsPcm
  <2> QED BY <1>1, <2>1, StillClock, RingKept
<1>12. CASE AssignsState
  <2>1. stream' = [stream EXCEPT !.ks = change.to] /\ pins' = pins /\ ring' = ring
    BY <1>12 DEF AssignsState
  <2>2. /\ stream' \in StreamRecords /\ stream'.exists = stream.exists /\ stream'.linear = stream.linear
        /\ stream'.carry = stream.carry /\ stream'.late = stream.late
    BY <1>1, <2>1 DEF StreamRecords
  <2> QED BY <1>1, <2>1, <2>2, StillClock
<1>13. CASE PcmRead
  <2>1. stream' = stream /\ pins' = pins
    BY <1>13 DEF PcmRead
  <2> QED BY <1>1, <1>13, <2>1, StillClock, RingKept
<1> QED BY <1>4, <1>5, <1>6, <1>7, <1>8, <1>9, <1>10, <1>11, <1>12, <1>13, ClockFits DEF StreamNext

---------------------------------------------------------------------------
(* The change of state that is in progress.  Only RUN is active, from the  *)
(* step that enters it to the end of the PCM stream when it is left.       *)

ChangeFits ==
    /\ change \in [at : {"rest", "end", "assign"}, to : States]
    /\ change.at # "rest" => /\ Rank(change.to) \in {Rank(stream.ks) - 1, Rank(stream.ks) + 1}
                             /\ stream.buffer
    /\ stream.buffer => stream.exists
    /\ ~stream.exists => stream.ks = "stop"
    /\ ring.active => \/ stream.ks = "run" /\ change.at # "assign"
                      \/ change.at # "rest" /\ change.to = "run"
    /\ ~ring.active => ring.available = 0

(* The order of the states. *)
LEMMA Ranks ==
    /\ Rank("stop") = 1 /\ Rank("acquire") = 2 /\ Rank("pause") = 3 /\ Rank("run") = 4
<1>1. /\ KsStates[1] = "stop" /\ KsStates[2] = "acquire" /\ KsStates[3] = "pause" /\ KsStates[4] = "run"
  BY DEF KsStates
<1>2. ASSUME NEW i \in 1..4 PROVE i = 1 \/ i = 2 \/ i = 3 \/ i = 4
  OBVIOUS
<1>3. Rank("stop") = 1
  <2>1. \A i \in 1..4 : KsStates[i] = "stop" <=> i = 1
    BY <1>1, <1>2
  <2>2. Rank("stop") \in 1..4 /\ KsStates[Rank("stop")] = "stop"
    BY <2>1 DEF Rank
  <2> QED BY <2>1, <2>2
<1>4. Rank("acquire") = 2
  <2>1. \A i \in 1..4 : KsStates[i] = "acquire" <=> i = 2
    BY <1>1, <1>2
  <2>2. Rank("acquire") \in 1..4 /\ KsStates[Rank("acquire")] = "acquire"
    BY <2>1 DEF Rank
  <2> QED BY <2>1, <2>2
<1>5. Rank("pause") = 3
  <2>1. \A i \in 1..4 : KsStates[i] = "pause" <=> i = 3
    BY <1>1, <1>2
  <2>2. Rank("pause") \in 1..4 /\ KsStates[Rank("pause")] = "pause"
    BY <2>1 DEF Rank
  <2> QED BY <2>1, <2>2
<1>6. Rank("run") = 4
  <2>1. \A i \in 1..4 : KsStates[i] = "run" <=> i = 4
    BY <1>1, <1>2
  <2>2. Rank("run") \in 1..4 /\ KsStates[Rank("run")] = "run"
    BY <2>1 DEF Rank
  <2> QED BY <2>1, <2>2
<1> QED BY <1>3, <1>4, <1>5, <1>6

(* Whoever enters a state does so from the one beside it. *)
LEMMA NeighbourOf ==
    ASSUME NEW k \in States, NEW l \in States, Rank(l) \in {Rank(k) - 1, Rank(k) + 1}
    PROVE  /\ l = "stop" => k = "acquire"
           /\ l = "acquire" => k \in {"stop", "pause"}
           /\ l = "pause" => k \in {"acquire", "run"}
           /\ l = "run" => k = "pause"
           /\ k = "run" => l = "pause"
BY Ranks DEF States

(* What a push leaves of the ring: it stays active, and inactive it stays empty. *)
LEMMA PushKeepsActive ==
    ASSUME RingFits(ring), NEW first, NEW count
    PROVE  /\ PushPcm(first, count).active = ring.active
           /\ ~ring.active => PushPcm(first, count) = ring
<1>1. ring \in RingRecords
  BY DEF RingFits
<1> DEFINE whole == count - (count % Block)
<1>2. CASE ~ring.active \/ whole = 0
  BY <1>2 DEF PushPcm
<1>3. CASE ~(~ring.active \/ whole = 0)
  <2>1. PICK bytes, w, r, available, dropped, written :
           PushPcm(first, count) = [ring EXCEPT !.bytes = bytes, !.w = w, !.r = r, !.available = available,
                                                !.dropped = dropped, !.written = written]
    BY <1>3 DEF PushPcm
  <2> QED BY <1>1, <1>3, <2>1 DEF RingRecords
<1> QED BY <1>2, <1>3

(* Every step keeps the change of state in order. *)
LEMMA ChangeStepFits ==
    ASSUME StreamFits, ChangeFits, StreamNext
    PROVE  ChangeFits'
<1>1. /\ stream \in StreamRecords /\ ring \in RingRecords /\ RingFits(ring) /\ stream.ks \in States
      /\ change \in [at : {"rest", "end", "assign"}, to : States]
  BY DEF StreamFits, ChangeFits, RingFits, StreamRecords
<1>2. change = Settled => change.at = "rest"
  BY DEF Settled
<1>3. CASE NewStream
  <2>1. /\ stream' = [NoStream EXCEPT !.exists = TRUE] /\ change' = change /\ ring' = ring /\ pins = 0
    BY <1>3 DEF NewStream
  <2>2. ~stream.exists
    <3>1. pins # 1
      BY <2>1
    <3>2. stream.exists = (pins = 1)
      BY DEF StreamFits
    <3> QED BY <3>1, <3>2, Zenon
  <2>3. change.at = "rest" /\ ~ring.active
    BY <1>1, <2>2 DEF ChangeFits, States
  <2>4. stream'.exists /\ ~stream'.buffer /\ stream'.ks = "stop"
    BY <2>1 DEF NoStream
  <2> QED BY <2>1, <2>3, <2>4 DEF ChangeFits
<1>4. CASE StreamClosed
  <2>1. stream' = NoStream /\ change' = change /\ ring' = ring /\ stream.ks = "stop" /\ change = Settled
    BY <1>4 DEF StreamClosed
  <2>2. ~ring.active /\ change.at = "rest"
    BY <1>2, <2>1 DEF ChangeFits
  <2>3. ~stream'.exists /\ ~stream'.buffer /\ stream'.ks = "stop"
    BY <2>1 DEF NoStream
  <2> QED BY <2>1, <2>2, <2>3 DEF ChangeFits
<1>5. CASE AllocateBufferWithNotification \/ FreeBufferWithNotification
  <2>1. PICK b \in BOOLEAN : stream' = [stream EXCEPT !.buffer = b] /\ (b => stream.exists)
    BY <1>5 DEF AllocateBufferWithNotification, FreeBufferWithNotification
  <2>2. change' = change /\ ring' = ring /\ change.at = "rest"
    BY <1>2, <1>5 DEF AllocateBufferWithNotification, FreeBufferWithNotification
  <2>3. stream'.exists = stream.exists /\ stream'.buffer = b /\ stream'.ks = stream.ks
    BY <1>1, <2>1 DEF StreamRecords
  <2> QED BY <2>1, <2>2, <2>3 DEF ChangeFits
<1>6. ASSUME NEW k \in States, Entering(k), stream'.exists = stream.exists, stream'.buffer = stream.buffer,
             stream'.ks = stream.ks, ring'.active = (ring.active \/ k = "run"),
             ~ring'.active => ring'.available = 0
      PROVE  ChangeFits'
  <2>1. /\ change' = [at |-> "end", to |-> k] /\ stream.buffer
        /\ Rank(k) \in {Rank(stream.ks) - 1, Rank(stream.ks) + 1} /\ change.at = "rest"
    BY <1>2, <1>6 DEF Entering
  <2>2. ring.active => stream.ks = "run"
    BY <2>1 DEF ChangeFits
  <2>3. change' \in [at : {"rest", "end", "assign"}, to : States] /\ change'.at = "end" /\ change'.to = k
    BY <1>6, <2>1
  <2> QED BY <1>6, <2>1, <2>2, <2>3 DEF ChangeFits
<1>7. CASE SetsStop
  <2>1. Entering("stop") /\ stream' = [stream EXCEPT !.linear = 0] /\ ring' = ring
    BY <1>7 DEF SetsStop
  <2>2. stream'.exists = stream.exists /\ stream'.buffer = stream.buffer /\ stream'.ks = stream.ks
    BY <1>1, <2>1 DEF StreamRecords
  <2>3. ring'.active = (ring.active \/ "stop" = "run") /\ (~ring'.active => ring'.available = 0)
    BY <1>1, <2>1 DEF RingRecords, ChangeFits
  <2> QED BY <1>6, <2>1, <2>2, <2>3 DEF States
<1>8. CASE SetsAcquire
  <2>1. Entering("acquire") /\ stream' = stream /\ ring' = ring
    BY <1>8 DEF SetsAcquire
  <2>2. ring'.active = (ring.active \/ "acquire" = "run") /\ (~ring'.active => ring'.available = 0)
    BY <1>1, <2>1 DEF RingRecords, ChangeFits
  <2> QED BY <1>6, <2>1, <2>2 DEF States
<1>9. CASE SetsPause
  <2>1. Entering("pause")
    BY <1>9 DEF SetsPause
  <2>2. /\ stream'.exists = stream.exists /\ stream'.buffer = stream.buffer /\ stream'.ks = stream.ks
        /\ ring' \in {ring, PushPcm(stream.linear, Displaced)}
    <3>1. CASE stream.ks = "run"
      <4>1. stream' = [Updated EXCEPT !.timer = FALSE] /\ ring' = PushPcm(stream.linear, Displaced)
        BY <1>9, <3>1 DEF SetsPause, UpdatesPosition
      <4> QED BY <4>1, UpdateFits DEF StreamRecords
    <3>2. CASE stream.ks # "run"
      <4>1. stream' = stream /\ ring' = ring
        BY <1>9, <3>2 DEF SetsPause
      <4> QED BY <4>1
    <3> QED BY <3>1, <3>2
  <2>3. ring'.active = (ring.active \/ "pause" = "run") /\ (~ring'.active => ring'.available = 0)
    BY <1>1, <2>2, PushKeepsActive DEF RingRecords, ChangeFits
  <2> QED BY <1>6, <2>1, <2>2, <2>3 DEF States
<1>10. CASE SetsRun
  <2>1. Entering("run") /\ ring' = BeginPcmStream /\ stream' = [stream EXCEPT !.late = 0, !.timer = TRUE]
    BY <1>10 DEF SetsRun
  <2>2. stream'.exists = stream.exists /\ stream'.buffer = stream.buffer /\ stream'.ks = stream.ks
    BY <1>1, <2>1 DEF StreamRecords
  <2>3. ring'.active = TRUE
    BY <1>1, <2>1 DEF BeginPcmStream, RingRecords
  <2> QED BY <1>6, <2>1, <2>2, <2>3 DEF States
<1>11. CASE EndsPcm
  <2>1. /\ change.at = "end" /\ stream' = stream /\ change' = [change EXCEPT !.at = "assign"]
        /\ ring' = IF stream.ks = "run" /\ change.to # "run" THEN EndPcmStream ELSE ring
    BY <1>11 DEF EndsPcm
  <2>2. change' \in [at : {"rest", "end", "assign"}, to : States] /\ change'.at = "assign" /\ change'.to = change.to
    BY <1>1, <2>1
  <2>3. CASE stream.ks = "run" /\ change.to # "run"
    <3>1. ~ring'.active /\ ring'.available = 0
      BY <1>1, <2>1, <2>3 DEF EndPcmStream, RingRecords
    <3> QED BY <2>1, <2>2, <3>1 DEF ChangeFits
  <2>4. CASE ~(stream.ks = "run" /\ change.to # "run")
    BY <2>1, <2>2, <2>4 DEF ChangeFits
  <2> QED BY <2>3, <2>4
<1>12. CASE AssignsState
  <2>1. /\ change.at = "assign" /\ stream' = [stream EXCEPT !.ks = change.to] /\ change' = Settled /\ ring' = ring
    BY <1>12 DEF AssignsState
  <2>2. stream'.exists = stream.exists /\ stream'.buffer = stream.buffer /\ stream'.ks = change.to
    BY <1>1, <2>1 DEF StreamRecords
  <2>3. change' \in [at : {"rest", "end", "assign"}, to : States] /\ change'.at = "rest"
    BY <2>1 DEF Settled, States
  <2>4. stream.exists
    BY <2>1 DEF ChangeFits
  <2>5. ring.active => change.to = "run"
    BY <2>1 DEF ChangeFits
  <2> QED BY <2>1, <2>2, <2>3, <2>4, <2>5 DEF ChangeFits
<1>13. ASSUME stream'.exists = stream.exists, stream'.buffer = stream.buffer, stream'.ks = stream.ks,
              change' = change, ring'.active = ring.active, ~ring'.active => ring'.available = 0
       PROVE  ChangeFits'
  BY <1>13 DEF ChangeFits
<1>14. CASE MillisecondPasses
  <2>1. change' = change /\ ring' = ring /\ stream' = [stream EXCEPT !.late = stream.late + 1, !.due = stream.due + 1]
    BY <1>14 DEF MillisecondPasses
  <2>2. stream'.exists = stream.exists /\ stream'.buffer = stream.buffer /\ stream'.ks = stream.ks
    BY <1>1, <2>1 DEF StreamRecords
  <2> QED BY <1>13, <2>1, <2>2 DEF ChangeFits
<1>15. CASE TimerNotifyRT \/ GetPositions
  <2>1. /\ stream' \in {Updated, [Updated EXCEPT !.due = stream.due - Interval]}
        /\ ring' = PushPcm(stream.linear, Displaced) /\ change' = change
    BY <1>15 DEF TimerNotifyRT, GetPositions, UpdatesPosition
  <2>2. stream'.exists = stream.exists /\ stream'.buffer = stream.buffer /\ stream'.ks = stream.ks
    BY <2>1, UpdateFits DEF StreamRecords
  <2>3. ring'.active = ring.active /\ (~ring'.active => ring'.available = 0)
    BY <1>1, <2>1, PushKeepsActive DEF ChangeFits
  <2> QED BY <1>13, <2>1, <2>2, <2>3
<1>16. CASE PcmRead
  <2>1. PICK count : ring' = [ring EXCEPT !.r = (ring.r + count) % Capacity,
                                          !.available = ring.available - count,
                                          !.read = ring.read + count]
    BY <1>16 DEF PcmRead
  <2>2. change' = change /\ stream' = stream /\ ring.available > 0
    BY <1>16 DEF PcmRead
  <2>3. ring'.active = ring.active /\ ring.active
    BY <1>1, <2>1, <2>2 DEF RingRecords, ChangeFits
  <2> QED BY <1>13, <2>2, <2>3
<1> QED BY <1>3, <1>4, <1>5, <1>7, <1>8, <1>9, <1>10, <1>11, <1>12, <1>14, <1>15, <1>16 DEF StreamNext

---------------------------------------------------------------------------
(* A clock of whole frames, as at 48 and 96 kHz: no rest is ever carried   *)
(* and every update moves the position by whole frames.                    *)

FramesFit ==
    /\ stream.carry = 0
    /\ \E frames \in Nat : stream.linear = frames * Block
    /\ RingHoldsNewest
    /\ ring.active => ring.base <= stream.linear /\ stream.linear - ring.base = ring.written

(* At such a rate the clock's rest stays nothing, and what is played is whole frames. *)
LEMMA WholePlayed ==
    ASSUME WholeFrames, StreamFits, stream.carry = 0
    PROVE  /\ \E frames \in Nat : Displaced = frames * Block
           /\ Updated.carry = 0
<1>1. PICK n \in Nat : Rate = n * Block * Unit
  BY StreamConstants DEF WholeFrames
<1>2. /\ Block \in Nat \ {0} /\ Unit \in Nat \ {0} /\ stream.late \in Nat /\ stream \in StreamRecords
  BY StreamConstants DEF StreamFits, StreamRecords
<1> DEFINE q == n * Block * stream.late
<1>3. Rate * stream.late + stream.carry = 0 + Unit * q /\ q \in Nat /\ q = (n * stream.late) * Block
      /\ n * stream.late \in Nat
  <2> DEFINE m == n * Block
  <2>1. m \in Nat /\ Rate = m * Unit
    BY <1>1, <1>2
  <2>2. q = m * stream.late
    OBVIOUS
  <2> HIDE DEF m
  <2>3. Rate * stream.late = Unit * (m * stream.late)
    BY <1>2, <2>1
  <2>4. m * stream.late \in Nat /\ Unit * (m * stream.late) \in Nat
    BY <1>2, <2>1
  <2>5. q = (n * stream.late) * Block /\ n * stream.late \in Nat
    BY <1>1, <1>2
  <2> HIDE DEF q
  <2> QED BY <2>2, <2>3, <2>4, <2>5
<1> HIDE DEF q
<1>4. (0 + Unit * q) \div Unit = (0 \div Unit) + q /\ (0 + Unit * q) % Unit = 0 % Unit
  <2>1. 0 \in Nat /\ q \in Nat /\ Unit \in Nat \ {0}
    BY <1>2, <1>3
  <2> QED BY <2>1, WholeTurns
<1>5. 0 \div Unit = 0 /\ 0 % Unit = 0
  BY <1>2, Divides
<1>6. Displaced = q
  BY <1>3, <1>4, <1>5 DEF Displaced
<1>7. Updated.carry = 0
  BY <1>3, <1>4, <1>5, UpdateFits
<1> QED BY <1>3, <1>6, <1>7

(* What a push keeps: all of it, or what fits. *)
LEMMA LesserOfBoth ==
    ASSUME NEW m \in Nat, NEW n \in Nat
    PROVE  /\ Lesser(m, n) \in 0..n /\ Lesser(m, n) <= m
           /\ (Lesser(m, n) < m => Lesser(m, n) = n)
BY DEF Lesser

(* A push of whole frames that follow the newest byte leaves the newest bytes in the ring. *)
LEMMA PushHoldsNewest ==
    ASSUME RingFits(ring), NEW first \in Nat, NEW frames \in Nat, NEW count, count = frames * Block,
           ring.active,
           \A k \in 0..ring.available - 1 :
               ring.bytes[(ring.r + k) % Capacity] = first - ring.available + k
    PROVE  LET g == PushPcm(first, count)
           IN  /\ \A k \in 0..g.available - 1 :
                      g.bytes[(g.r + k) % Capacity] = first + count - g.available + k
               /\ g.written = ring.written + count /\ g.base = ring.base
<1> DEFINE whole == count - (count % Block)
           keep == Lesser(whole, Capacity)
           from == first + (whole - keep)
           room == Room(keep)
           Offset(i) == (i + Capacity - ring.w) % Capacity
           bytes == [i \in 0..Capacity - 1 |-> IF Offset(i) < keep THEN from + Offset(i) ELSE ring.bytes[i]]
           g == PushPcm(first, count)
<1>1. /\ ring.r \in 0..Capacity - 1 /\ ring.w \in 0..Capacity - 1
      /\ ring.available \in 0..Capacity /\ ring.written \in Nat
      /\ Capacity \in Nat \ {0} /\ Block \in Nat \ {0}
  BY StreamConstants DEF RingFits, RingRecords
<1>2. ring \in RingRecords /\ ring.w = (ring.r + ring.available) % Capacity
  BY DEF RingFits
<1>3. count \in Nat /\ whole = count
  <2>1. count = 0 + Block * frames /\ count \in Nat
    BY <1>1
  <2>2. (0 + Block * frames) % Block = 0 % Block /\ 0 % Block = 0
    <3>1. (0 + Block * frames) % Block = 0 % Block
      BY <1>1, WholeTurns
    <3>2. 0 % Block = 0
      BY <1>1, Divides
    <3> QED BY <3>1, <3>2
  <2>3. count % Block = 0
    BY <2>1, <2>2
  <2> QED BY <2>1, <2>3
<1>4. CASE whole = 0
  <2>1. g = ring
    BY <1>4 DEF PushPcm
  <2>2. ring.written + count = ring.written /\ first + count = first
    <3> HIDE DEF whole
    <3>1. count = 0
      BY <1>3, <1>4
    <3> QED BY <1>1, <3>1
  <2> HIDE DEF g
  <2> SUFFICES /\ \A k \in 0..g.available - 1 :
                      g.bytes[(g.r + k) % Capacity] = first + count - g.available + k
               /\ g.written = ring.written + count /\ g.base = ring.base
    BY DEF g
  <2>3. ASSUME NEW k \in 0..g.available - 1
        PROVE  g.bytes[(g.r + k) % Capacity] = first + count - g.available + k
    <3>1. ring.bytes[(ring.r + k) % Capacity] = first - ring.available + k
      BY <2>1
    <3>2. g.bytes[(g.r + k) % Capacity] = ring.bytes[(ring.r + k) % Capacity]
      BY <2>1
    <3>3. first + count - g.available + k = first - ring.available + k
      <4>1. count \in Nat /\ ring.available \in Nat /\ k \in Nat
        BY <1>1, <1>3, <2>1
      <4> HIDE DEF g
      <4> QED BY <2>1, <2>2, <4>1
    <3> QED BY <3>1, <3>2, <3>3
  <2> QED BY <2>1, <2>2, <2>3
<1>5. CASE whole # 0
  <2>1. g = [ring EXCEPT !.bytes = bytes,
                !.w = (ring.w + keep) % Capacity,
                !.r = (ring.r + room) % Capacity,
                !.available = ring.available - room + keep,
                !.dropped = ring.dropped + (whole - keep) + room,
                !.written = ring.written + whole]
    BY <1>5 DEF PushPcm
  <2> HIDE DEF g, whole, bytes
  <2>2. keep \in 0..Capacity /\ keep <= whole /\ (keep < whole => keep = Capacity)
    <3>1. whole \in Nat /\ Capacity \in Nat
      BY <1>1, <1>3
    <3> QED BY <3>1, LesserOfBoth
  <2> HIDE DEF keep
  <2>3. /\ room \in 0..ring.available /\ ring.available - room + keep \in 0..Capacity
        /\ room >= keep - (Capacity - ring.available)
        /\ room > 0 => room = keep - (Capacity - ring.available)
    BY <1>1, <2>2 DEF Room
  <2> HIDE DEF room
  <2>4. /\ g.bytes = bytes /\ g.r = (ring.r + room) % Capacity /\ g.available = ring.available - room + keep
        /\ g.written = ring.written + whole /\ g.base = ring.base
    BY <1>2, <2>1 DEF RingRecords
  <2>5. ASSUME NEW k \in 0..g.available - 1
        PROVE  g.bytes[(g.r + k) % Capacity] = first + count - g.available + k
    <3> DEFINE j == room + k
               i == (ring.r + j) % Capacity
    <3>1. j \in Nat /\ k \in Nat /\ k < ring.available - room + keep /\ ring.r \in Nat /\ room \in Nat
      BY <1>1, <2>2, <2>3, <2>4
    <3>2. (g.r + k) % Capacity = i
      <4> DEFINE sum == ring.r + room
      <4>1. sum \in Nat /\ sum + k = ring.r + j
        BY <3>1
      <4> HIDE DEF sum
      <4>2. ((sum % Capacity) + k) % Capacity = (sum + k) % Capacity
        BY <1>1, <3>1, <4>1, RemainderOfSum
      <4>3. g.r = sum % Capacity
        BY <2>4 DEF sum
      <4> QED BY <4>1, <4>2, <4>3
    <3> HIDE DEF j
    <3>3. i \in 0..Capacity - 1
      <4> DEFINE sum == ring.r + j
      <4>1. sum \in Nat
        BY <3>1
      <4> HIDE DEF sum
      <4>2. sum % Capacity \in 0..Capacity - 1
        BY <1>1, <4>1, Divides
      <4> QED BY <4>2 DEF sum
    <3>4. j < ring.available + keep /\ j \in Nat
      BY <1>1, <2>2, <2>3, <3>1 DEF j
    <3> HIDE DEF i
    <3>5. ASSUME NEW m \in 0..Capacity - 1, i = (ring.w + m) % Capacity
          PROVE  Offset(i) = m
      <4>1. (((ring.w + m) % Capacity) + Capacity - ring.w) % Capacity = m
        BY <1>1, StepsAfter
      <4> QED BY <3>5, <4>1
    <3>6. CASE j >= ring.available
      <4> DEFINE m == j - ring.available
      <4>1. m \in 0..Capacity - 1 /\ m < keep /\ (ring.r + ring.available) + m = ring.r + j
            /\ ring.r + ring.available \in Nat /\ m \in Nat
        BY <1>1, <2>2, <3>1, <3>4, <3>6
      <4> HIDE DEF m
      <4>2. i = (ring.w + m) % Capacity
        <5> DEFINE sum == ring.r + ring.available
        <5>1. sum \in Nat /\ sum + m = ring.r + j
          BY <4>1
        <5> HIDE DEF sum
        <5>2. ((sum % Capacity) + m) % Capacity = (sum + m) % Capacity
          <6>1. m \in Nat /\ sum \in Nat /\ Capacity \in Nat \ {0}
            BY <1>1, <4>1, <5>1
          <6> QED BY <6>1, RemainderOfSum
        <5>3. ring.w = sum % Capacity
          BY <1>2 DEF sum
        <5> QED BY <5>1, <5>2, <5>3 DEF i
      <4>3. Offset(i) = m
        BY <3>5, <4>1, <4>2
      <4>4. bytes[i] = from + m
        BY <3>3, <4>1, <4>3 DEF bytes
      <4>5. from + m = first + count - (ring.available - room + keep) + k
        BY <1>1, <1>3, <2>2, <2>3, <3>1, <3>6 DEF m, j
      <4> QED BY <2>4, <3>2, <4>4, <4>5
    <3>7. CASE j < ring.available
      <4> DEFINE m == Capacity - (ring.available - j)
      <4>1. /\ m \in 0..Capacity - 1 /\ ~(m < keep) /\ m \in Nat
            /\ (ring.r + ring.available) + m = (ring.r + j) + Capacity * 1
            /\ ring.r + ring.available \in Nat
        BY <1>1, <2>2, <2>3, <3>1, <3>4, <3>7 DEF j
      <4> HIDE DEF m
      <4>2. i = (ring.w + m) % Capacity
        <5> DEFINE sum == ring.r + ring.available
                   part == ring.r + j
        <5>1. sum \in Nat /\ part \in Nat /\ sum + m = part + Capacity * 1
          BY <3>1, <4>1
        <5> HIDE DEF sum, part
        <5>2. ((sum % Capacity) + m) % Capacity = (sum + m) % Capacity
          <6>1. m \in Nat /\ sum \in Nat /\ Capacity \in Nat \ {0}
            BY <1>1, <4>1, <5>1
          <6> QED BY <6>1, RemainderOfSum
        <5>3. ring.w = sum % Capacity
          BY <1>2 DEF sum
        <5>4. (part + Capacity * 1) % Capacity = part % Capacity
          BY <1>1, <5>1, WholeTurns, 1 \in Nat
        <5> QED BY <5>1, <5>2, <5>3, <5>4 DEF i, part
      <4>3. Offset(i) = m
        BY <3>5, <4>1, <4>2
      <4>4. bytes[i] = ring.bytes[i]
        BY <3>3, <4>1, <4>3 DEF bytes
      <4>5. ring.bytes[i] = first - ring.available + j
        <5>1. j \in 0..ring.available - 1
          BY <1>1, <3>1, <3>7
        <5> QED BY <5>1 DEF i
      <4>6. whole = keep
        BY <1>1, <1>3, <2>2, <2>3, <3>1, <3>7 DEF j
      <4>7. first - ring.available + j = first + count - (ring.available - room + keep) + k
        BY <1>1, <1>3, <2>2, <2>3, <3>1, <4>6 DEF j
      <4> QED BY <2>4, <3>2, <4>4, <4>5, <4>7
    <3> QED BY <1>1, <3>1, <3>6, <3>7
  <2>6. g.written = ring.written + count /\ g.base = ring.base
    BY <1>3, <2>4
  <2> QED BY <2>5, <2>6 DEF g
<1> QED BY <1>4, <1>5

(* Every step of a stream whose milliseconds play whole frames leaves the newest bytes in the ring. *)
LEMMA FramesStepFit ==
    ASSUME WholeFrames, StreamFits, ChangeFits, FramesFit, StreamNext
    PROVE  FramesFit'
<1>1. /\ stream \in StreamRecords /\ ring \in RingRecords /\ RingFits(ring) /\ stream.linear \in Nat
      /\ ring.available \in 0..Capacity /\ ring.written \in Nat /\ ring.base \in Nat /\ ring.read \in Nat
      /\ ring.dropped \in Nat /\ ring.r \in 0..Capacity - 1
      /\ Capacity \in Nat \ {0} /\ Block \in Nat \ {0}
  BY StreamConstants DEF StreamFits, RingFits, StreamRecords, RingRecords
<1>2. /\ stream.carry = 0
      /\ ring.written = ring.read + ring.dropped + ring.available
      /\ \A k \in 0..ring.available - 1 :
            ring.bytes[(ring.r + k) % Capacity] = stream.linear - ring.available + k
      /\ ring.active => ring.base <= stream.linear /\ stream.linear - ring.base = ring.written
  BY DEF FramesFit, RingHoldsNewest
<1>3. \E frames \in Nat : stream.linear = frames * Block
  BY DEF FramesFit
<1>4. \E frames \in Nat : 0 = frames * Block
  <2>1. 0 \in Nat /\ 0 = 0 * Block
    BY <1>1
  <2> QED BY <2>1
<1>5. RingFits(ring') /\ ring' \in RingRecords
  BY StreamStepFits DEF ChangeFits, StreamFits, RingFits
<1>6. ring'.written = ring'.read + ring'.dropped + ring'.available
  BY <1>5 DEF RingFits
(* An empty, inactive ring holds whatever it should. *)
<1>7. ASSUME ~ring'.active, ring'.available = 0, stream'.carry = 0,
             \E frames \in Nat : stream'.linear = frames * Block
      PROVE  FramesFit'
  <2>1. RingHoldsNewest'
    <3>1. \A k \in 0..0 - 1 : FALSE
      OBVIOUS
    <3> QED BY <1>6, <1>7, <3>1 DEF RingHoldsNewest
  <2> QED BY <1>7, <2>1 DEF FramesFit
(* A step that moves neither the position nor the ring. *)
<1>8. ASSUME stream'.carry = stream.carry, stream'.linear = stream.linear, ring' = ring
      PROVE  FramesFit'
  BY <1>8 DEF FramesFit, RingHoldsNewest
(* An update of the position. *)
<1>9. ASSUME stream'.carry = 0, stream'.linear = stream.linear + Displaced,
             ring' = PushPcm(stream.linear, Displaced)
      PROVE  FramesFit'
  <2>1. PICK played \in Nat : Displaced = played * Block
    BY <1>2, WholePlayed
  <2>2. PICK frames \in Nat : stream.linear = frames * Block
    BY <1>3
  <2>3. stream'.linear = (frames + played) * Block /\ frames + played \in Nat /\ Displaced \in Nat
    BY <1>1, <1>9, <2>1, <2>2
  <2>4. \E n \in Nat : stream'.linear = n * Block
    BY <2>3
  <2>5. CASE ~ring.active
    <3>1. ring' = ring /\ ring.available = 0
      BY <1>1, <1>9, <2>5, PushKeepsActive DEF ChangeFits
    <3> QED BY <1>7, <1>9, <2>4, <2>5, <3>1
  <2>6. CASE ring.active
    <3>1. /\ \A k \in 0..ring'.available - 1 :
                ring'.bytes[(ring'.r + k) % Capacity]
                    = stream.linear + Displaced - ring'.available + k
          /\ ring'.written = ring.written + Displaced /\ ring'.base = ring.base
      BY <1>1, <1>2, <1>9, <2>1, <2>6, PushHoldsNewest
    <3>2. ring'.active
      BY <1>1, <1>9, <2>6, PushKeepsActive
    <3>3. ring'.base <= stream'.linear /\ stream'.linear - ring'.base = ring'.written
      BY <1>1, <1>2, <1>9, <2>3, <2>6, <3>1
    <3>4. RingHoldsNewest'
      <4> SUFFICES ASSUME NEW k \in 0..ring'.available - 1
                   PROVE  ring'.bytes[(ring'.r + k) % Capacity] = stream'.linear - ring'.available + k
        BY <1>6 DEF RingHoldsNewest
      <4>1. ring'.bytes[(ring'.r + k) % Capacity] = stream.linear + Displaced - ring'.available + k
        BY <3>1
      <4> DEFINE available == ring'.available
                 position == stream'.linear
      <4>2. available \in Nat /\ position = stream.linear + Displaced /\ stream.linear \in Nat
            /\ Displaced \in Nat /\ k \in Nat
        BY <1>1, <1>5, <1>9, <2>3 DEF RingRecords
      <4>3. ring'.bytes[(ring'.r + k) % Capacity] = stream.linear + Displaced - available + k
        BY <4>1
      <4> HIDE DEF available, position
      <4>4. stream.linear + Displaced - available + k = position - available + k
        BY <4>2
      <4>5. ring'.bytes[(ring'.r + k) % Capacity] = position - available + k
        BY <4>3, <4>4
      <4> QED BY <4>5 DEF available, position
    <3> QED BY <1>9, <2>4, <3>2, <3>3, <3>4 DEF FramesFit
  <2> QED BY <2>5, <2>6
<1>10. ASSUME TRUE PROVE Updated.carry = 0 /\ Updated.linear = stream.linear + Displaced
                         /\ Updated \in StreamRecords
  <2>1. Displaced = Played(stream)
    BY DEF Displaced, Played
  <2> QED BY <1>2, <2>1, WholePlayed, UpdateFits
<1>11. change = Settled => change.at = "rest"
  BY DEF Settled
<1>12. CASE NewStream
  <2>1. stream' = [NoStream EXCEPT !.exists = TRUE] /\ change' = change /\ ring' = ring /\ pins = 0
    BY <1>12 DEF NewStream
  <2>2. ~stream.exists
    <3>1. pins # 1
      BY <2>1
    <3>2. stream.exists = (pins = 1)
      BY DEF StreamFits
    <3> QED BY <3>1, <3>2, Zenon
  <2>3. ~ring.active /\ ring.available = 0
    BY <2>2 DEF ChangeFits, States
  <2>4. stream'.carry = 0 /\ stream'.linear = 0
    BY <2>1 DEF NoStream
  <2> QED BY <1>4, <1>7, <2>1, <2>3, <2>4
<1>13. CASE StreamClosed
  <2>1. stream' = NoStream /\ ring' = ring /\ stream.ks = "stop" /\ change = Settled
    BY <1>13 DEF StreamClosed
  <2>2. ~ring.active /\ ring.available = 0
    BY <1>11, <2>1 DEF ChangeFits
  <2>3. stream'.carry = 0 /\ stream'.linear = 0
    BY <2>1 DEF NoStream
  <2> QED BY <1>4, <1>7, <2>1, <2>2, <2>3
<1>14. CASE AllocateBufferWithNotification \/ FreeBufferWithNotification \/ MillisecondPasses \/ AssignsState
  <2>1. PICK ks, buffer, late, due : stream' = [stream EXCEPT !.ks = ks, !.buffer = buffer, !.late = late, !.due = due]
    <3>1. CASE AllocateBufferWithNotification \/ FreeBufferWithNotification
      <4>1. PICK b : stream' = [stream EXCEPT !.buffer = b]
        BY <3>1 DEF AllocateBufferWithNotification, FreeBufferWithNotification
      <4>2. stream' = [stream EXCEPT !.ks = stream.ks, !.buffer = b, !.late = stream.late, !.due = stream.due]
        BY <1>1, <4>1 DEF StreamRecords
      <4> QED BY <4>2
    <3>2. CASE MillisecondPasses
      <4>1. PICK l, d : stream' = [stream EXCEPT !.late = l, !.due = d]
        BY <3>2 DEF MillisecondPasses
      <4>2. stream' = [stream EXCEPT !.ks = stream.ks, !.buffer = stream.buffer, !.late = l, !.due = d]
        BY <1>1, <4>1 DEF StreamRecords
      <4> QED BY <4>2
    <3>3. CASE AssignsState
      <4>1. stream' = [stream EXCEPT !.ks = change.to]
        BY <3>3 DEF AssignsState
      <4>2. stream' = [stream EXCEPT !.ks = change.to, !.buffer = stream.buffer, !.late = stream.late, !.due = stream.due]
        BY <1>1, <4>1 DEF StreamRecords
      <4> QED BY <4>2
    <3> QED BY <1>14, <3>1, <3>2, <3>3
  <2>2. stream'.carry = stream.carry /\ stream'.linear = stream.linear
    BY <1>1, <2>1 DEF StreamRecords
  <2>3. ring' = ring
    BY <1>14 DEF AllocateBufferWithNotification, FreeBufferWithNotification, MillisecondPasses, AssignsState
  <2> QED BY <1>8, <2>2, <2>3
<1>15. CASE SetsStop
  <2>1. Entering("stop") /\ stream' = [stream EXCEPT !.linear = 0] /\ ring' = ring
    BY <1>15 DEF SetsStop
  <2>2. stream.ks = "acquire" /\ change.at = "rest"
    BY <1>1, <1>11, <2>1, NeighbourOf DEF Entering, StreamRecords, States
  <2>3. ~ring.active /\ ring.available = 0
    BY <2>2 DEF ChangeFits
  <2>4. stream'.carry = 0 /\ stream'.linear = 0
    BY <1>1, <1>2, <2>1 DEF StreamRecords
  <2> QED BY <1>4, <1>7, <2>1, <2>3, <2>4
<1>16. CASE SetsAcquire
  <2>1. stream' = stream /\ ring' = ring
    BY <1>16 DEF SetsAcquire
  <2> QED BY <1>8, <2>1
<1>17. CASE SetsPause
  <2>1. CASE stream.ks = "run"
    <3>1. stream' = [Updated EXCEPT !.timer = FALSE] /\ ring' = PushPcm(stream.linear, Displaced)
      BY <1>17, <2>1 DEF SetsPause, UpdatesPosition
    <3>2. stream'.carry = 0 /\ stream'.linear = stream.linear + Displaced
      BY <1>10, <3>1 DEF StreamRecords
    <3> QED BY <1>9, <3>1, <3>2
  <2>2. CASE stream.ks # "run"
    <3>1. stream' = stream /\ ring' = ring
      BY <1>17, <2>2 DEF SetsPause
    <3> QED BY <1>8, <3>1
  <2> QED BY <2>1, <2>2
<1>18. CASE TimerNotifyRT \/ GetPositions
  <2>1. /\ stream' \in {Updated, [Updated EXCEPT !.due = stream.due - Interval]}
        /\ ring' = PushPcm(stream.linear, Displaced)
    BY <1>18 DEF TimerNotifyRT, GetPositions, UpdatesPosition
  <2>2. stream'.carry = 0 /\ stream'.linear = stream.linear + Displaced
    BY <1>10, <2>1 DEF StreamRecords
  <2> QED BY <1>9, <2>1, <2>2
<1>19. CASE SetsRun
  <2>1. ring' = BeginPcmStream /\ stream' = [stream EXCEPT !.late = 0, !.timer = TRUE]
    BY <1>19 DEF SetsRun
  <2>2. stream'.carry = 0 /\ stream'.linear = stream.linear
    BY <1>1, <1>2, <2>1 DEF StreamRecords
  <2>3. ring'.available = 0 /\ ring'.written = 0 /\ ring'.base = stream.linear /\ ring'.active
    BY <1>1, <2>1 DEF BeginPcmStream, RingRecords
  <2>4. RingHoldsNewest'
    <3>1. \A k \in 0..0 - 1 : FALSE
      OBVIOUS
    <3> QED BY <1>6, <2>3, <3>1 DEF RingHoldsNewest
  <2>5. ring'.base <= stream'.linear /\ stream'.linear - ring'.base = ring'.written
    BY <1>1, <2>2, <2>3
  <2> QED BY <1>3, <2>2, <2>4, <2>5 DEF FramesFit
<1>20. CASE EndsPcm
  <2>1. stream' = stream /\ ring' \in {ring, EndPcmStream}
    BY <1>20 DEF EndsPcm
  <2>2. CASE ring' = ring
    BY <1>8, <2>1, <2>2
  <2>3. CASE ring' = EndPcmStream
    <3>1. ~ring'.active /\ ring'.available = 0
      BY <1>1, <2>3 DEF EndPcmStream, RingRecords
    <3> QED BY <1>2, <1>3, <1>7, <2>1, <3>1
  <2> QED BY <2>1, <2>2, <2>3
<1>21. CASE PcmRead
  <2>1. PICK room \in {Block, MaximumRead} :
           ring' = [ring EXCEPT !.r = (ring.r + Lesser(room, ring.available)) % Capacity,
                                !.available = ring.available - Lesser(room, ring.available),
                                !.read = ring.read + Lesser(room, ring.available)]
    BY <1>21 DEF PcmRead
  <2>2. stream' = stream
    BY <1>21 DEF PcmRead
  <2> DEFINE count == Lesser(room, ring.available)
  <2>3. count \in 0..ring.available
    BY <1>1, StreamConstants DEF Lesser
  <2>4. /\ ring'.r = (ring.r + count) % Capacity /\ ring'.available = ring.available - count
        /\ ring'.bytes = ring.bytes /\ ring'.written = ring.written /\ ring'.base = ring.base
        /\ ring'.active = ring.active
    BY <1>1, <2>1 DEF RingRecords
  <2> HIDE DEF count
  <2>5. ASSUME NEW k \in 0..ring'.available - 1
        PROVE  ring'.bytes[(ring'.r + k) % Capacity] = stream.linear - ring'.available + k
    <3> DEFINE j == count + k
               sum == ring.r + count
    <3>1. j \in 0..ring.available - 1 /\ sum \in Nat /\ k \in Nat /\ sum + k = ring.r + j
      BY <1>1, <2>3, <2>4
    <3>2. stream.linear - ring'.available + k = stream.linear - ring.available + j
      BY <1>1, <2>3, <2>4
    <3> HIDE DEF j
    <3>3. ring.bytes[(ring.r + j) % Capacity] = stream.linear - ring.available + j
      BY <1>2, <3>1
    <3>4. ring'.r = sum % Capacity
      BY <2>4
    <3> HIDE DEF sum
    <3>5. ((sum % Capacity) + k) % Capacity = (sum + k) % Capacity
      <4>1. sum \in Nat /\ k \in Nat /\ Capacity \in Nat \ {0}
        BY <1>1, <3>1
      <4> QED BY <4>1, RemainderOfSum
    <3> QED BY <2>4, <3>1, <3>2, <3>3, <3>4, <3>5
  <2>6. RingHoldsNewest'
    BY <1>6, <2>2, <2>5 DEF RingHoldsNewest
  <2> QED BY <1>2, <1>3, <2>2, <2>4, <2>6 DEF FramesFit
<1> QED BY <1>12, <1>13, <1>14, <1>15, <1>16, <1>17, <1>18, <1>19, <1>20, <1>21 DEF StreamNext

(* The stream and its ring at the start. *)
LEMMA StreamStarts == StreamInit => StreamFits /\ ChangeFits /\ FramesFit
<1> SUFFICES ASSUME StreamInit PROVE StreamFits /\ ChangeFits /\ FramesFit
  OBVIOUS
<1>1. /\ Unit \in Nat \ {0} /\ Block \in Nat \ {0} /\ Capacity \in Nat \ {0}
      /\ Rate \in Nat \ {0} /\ MaxPlayed \in Nat
  BY StreamConstants
<1>2. pins = 0 /\ stream = NoStream /\ change = Settled /\ ring = EmptyRing
  BY DEF StreamInit
<1>3. ring \in RingRecords
  <2>1. Blank \in [0..Capacity - 1 -> Nat]
    BY DEF Blank
  <2>2. 0 \in 0..Capacity - 1 /\ 0 \in 0..Capacity /\ 0 \in Nat
    BY <1>1
  <2> QED BY <1>2, <2>1, <2>2 DEF EmptyRing, RingRecords
<1>4. /\ ring.r = 0 /\ ring.w = 0 /\ ring.available = 0 /\ ring.written = 0 /\ ring.read = 0
      /\ ring.dropped = 0 /\ ring.active = FALSE
  BY <1>2 DEF EmptyRing
<1>5. RingFits(ring)
  <2>1. 0 % Capacity = 0
    BY <1>1, Divides
  <2> QED BY <1>3, <1>4, <2>1 DEF RingFits
<1>6. stream \in StreamRecords /\ stream.linear = 0 /\ stream.carry = 0 /\ stream.late = 0
  <2>1. 0 \in 0..Unit - 1 /\ 0 \in Nat
    BY <1>1
  <2> QED BY <1>2, <2>1 DEF NoStream, StreamRecords, States
<1>7. Played(stream) = 0
  <2>1. Rate * 0 + 0 = 0 /\ 0 \div Unit = 0
    BY <1>1, Divides
  <2> QED BY <1>6, <2>1 DEF Played
<1>8. pins \in 0..1 /\ stream.exists = (pins = 1)
  <2>1. (pins = 1) = FALSE /\ stream.exists = FALSE
    <3>1. pins # 1 /\ stream.exists = FALSE
      BY <1>2 DEF NoStream
    <3>2. (pins = 1) = FALSE
      BY <3>1, Zenon
    <3> QED BY <3>1, <3>2
  <2>2. pins \in 0..1
    BY <1>2
  <2>3. stream.exists = (pins = 1)
    BY <2>1, Zenon
  <2> QED BY <2>2, <2>3, Zenon
<1>9. StreamFits
  <2>1. stream.linear + Played(stream) <= MaxPlayed + Rate
    BY <1>1, <1>6, <1>7
  <2> QED BY <1>5, <1>6, <1>8, <2>1 DEF StreamFits
<1>10. ChangeFits
  BY <1>2, <1>4 DEF ChangeFits, NoStream, Settled, States
<1>11. FramesFit
  <2>1. \E frames \in Nat : stream.linear = frames * Block
    <3>1. 0 \in Nat /\ 0 = 0 * Block
      BY <1>1
    <3> QED BY <1>6, <3>1
  <2>2. \A k \in 0..0 - 1 : FALSE
    OBVIOUS
  <2> QED BY <1>4, <1>6, <2>1, <2>2 DEF FramesFit, RingHoldsNewest
<1> QED BY <1>9, <1>10, <1>11

(* The shape of the stream and of its ring, whatever its rate. *)
LEMMA StreamFitsHolds == StreamSpec => [](StreamFits /\ ChangeFits)
<1>1. StreamFits /\ ChangeFits /\ [StreamNext]_streamVars => (StreamFits /\ ChangeFits)'
  <2> SUFFICES ASSUME StreamFits, ChangeFits, [StreamNext]_streamVars
               PROVE  StreamFits' /\ ChangeFits'
    OBVIOUS
  <2>1. CASE StreamNext
    <3>1. ASSUME StreamFits, ChangeFits, StreamNext PROVE StreamFits'
      <4>1. change \in [at : {"rest", "end", "assign"}, to : States]
        BY <3>1 DEF ChangeFits
      <4> QED BY <3>1, <4>1, StreamStepFits
    <3>2. ASSUME StreamFits, ChangeFits, StreamNext PROVE ChangeFits'
      BY <3>2, ChangeStepFits
    <3> QED BY <2>1, <3>1, <3>2
  <2>2. CASE UNCHANGED streamVars
    <3>1. pins' = pins /\ stream' = stream /\ change' = change /\ ring' = ring
      BY <2>2, Zenon DEF streamVars
    <3>2. StreamFits' <=> StreamFits
      BY <3>1, Zenon DEF StreamFits, Played, RingFits
    <3>3. ChangeFits' <=> ChangeFits
      BY <3>1, Zenon DEF ChangeFits
    <3> QED BY <3>2, <3>3, Zenon
  <2> QED BY <2>1, <2>2
<1> QED BY <1>1, StreamStarts, PTL DEF StreamSpec

(* What the type invariant says of them follows. *)
LEMMA StreamFitsIsTyped ==
    ASSUME StreamFits
    PROVE  StreamTypeOK /\ ring.written = ring.read + ring.dropped + ring.available
<1>1. /\ stream \in StreamRecords /\ stream.linear + Played(stream) <= MaxPlayed + Rate
      /\ RingFits(ring) /\ ring \in RingRecords
  BY DEF StreamFits, RingFits
<1>2. Played(stream) \in Nat
  <2>1. Rate * stream.late + stream.carry \in Nat /\ Unit \in Nat \ {0}
    BY <1>1, StreamConstants DEF StreamRecords
  <2> HIDE DEF StreamRecords
  <2> DEFINE sum == Rate * stream.late + stream.carry
  <2>2. sum \in Nat /\ Unit \in Nat \ {0}
    BY <2>1
  <2> HIDE DEF sum
  <2>3. sum \div Unit \in Nat
    BY <2>2, Divides
  <2> QED BY <2>3 DEF sum, Played
<1>3. stream.linear \in 0..MaxPlayed + Rate
  <2>1. stream.linear \in Nat /\ MaxPlayed \in Nat /\ Rate \in Nat
    BY <1>1, StreamConstants DEF StreamRecords
  <2> QED BY <1>1, <1>2, <2>1
<1>4. /\ stream.carry \in 0..Unit - 1 /\ ring.r \in 0..Capacity - 1 /\ ring.w \in 0..Capacity - 1
      /\ ring.available \in 0..Capacity
  BY <1>1 DEF StreamRecords, RingRecords
<1>5. /\ ring.w = (ring.r + ring.available) % Capacity
      /\ ring.written = ring.read + ring.dropped + ring.available
  BY <1>1 DEF RingFits
<1>6. pins \in 0..1 /\ stream.exists = (pins = 1)
  BY DEF StreamFits
<1> QED BY <1>3, <1>4, <1>5, <1>6, Zenon DEF StreamTypeOK

(* PushPcm, PcmRead and EndPcmStream (minwavert.cpp): whatever the rate, the offsets are as far *)
(* apart as the ring is full, and every byte of the epoch was read, dropped or is still there. *)
THEOREM RingCountsEveryByte ==
    StreamSpec => [](StreamTypeOK /\ ring.written = ring.read + ring.dropped + ring.available)
BY StreamFitsHolds, StreamFitsIsTyped, PTL

(* At a rate of whole frames what the position has passed is whole frames too. *)
LEMMA FramesAreFaithful ==
    ASSUME StreamFits, FramesFit
    PROVE  RingIsFaithful
<1>1. PICK frames \in Nat : stream.linear = frames * Block
  BY DEF FramesFit
<1>2. stream.linear % Block = 0
  <2>1. 0 \in Nat /\ frames \in Nat /\ Block \in Nat \ {0}
    BY <1>1, StreamConstants
  <2>2. (0 + Block * frames) % Block = 0 % Block /\ 0 % Block = 0
    <3>1. (0 + Block * frames) % Block = 0 % Block
      BY <2>1, WholeTurns
    <3>2. 0 % Block = 0
      BY <2>1, Divides
    <3> QED BY <3>1, <3>2
  <2>3. stream.linear = 0 + Block * frames
    BY <1>1, <2>1
  <2> QED BY <2>2, <2>3, Zenon
<1>3. ConsumedIsWritten
  BY <1>2 DEF FramesFit, ConsumedIsWritten
<1>4. RingHoldsNewest
  BY DEF FramesFit
<1> QED BY <1>3, <1>4, StreamFitsIsTyped DEF RingIsFaithful

(* PushPcm, PcmRead and UpdatePosition (minwavert.cpp, minwavertstream.cpp): when every *)
(* millisecond plays whole frames, the ring holds the newest bytes played, in order, and every *)
(* byte of the epoch is accounted for, for every size of ring, read and frame. *)
THEOREM RingStaysFaithful ==
    ASSUME WholeFrames
    PROVE  StreamSpec => []RingIsFaithful
<1>1. StreamFits /\ ChangeFits /\ FramesFit /\ [StreamNext]_streamVars => FramesFit'
  <2> SUFFICES ASSUME StreamFits, ChangeFits, FramesFit, [StreamNext]_streamVars
               PROVE  FramesFit'
    OBVIOUS
  <2>1. CASE StreamNext
    BY <2>1, FramesStepFit
  <2>2. CASE UNCHANGED streamVars
    <3>1. stream' = stream /\ ring' = ring
      BY <2>2, Zenon DEF streamVars
    <3> QED BY <3>1, Zenon DEF FramesFit, RingHoldsNewest
  <2> QED BY <2>1, <2>2
<1>2. StreamFits /\ FramesFit => RingIsFaithful
  BY FramesAreFaithful
<1> QED BY <1>1, <1>2, StreamStarts, StreamFitsHolds, PTL DEF StreamSpec

---------------------------------------------------------------------------
(* The candidate workers.  A stream that may still succeed follows the     *)
(* commands of its source: the headset has heard of nothing until one has  *)
(* set it up, and the last packet is written before the stream is          *)
(* suspended.                                                              *)

BurstSpec == BurstInit /\ [][BurstNext]_burstVars

BurstSources ==
    [state : AvdtpStates, sinks : Seq(SinkKinds), index : Nat, legacy : BOOLEAN,
     next : 0..15, pending : 0..15, signal : Signals]
WorkerRecords ==
    [pc : {"starts", "waits", "runs", "parked", "stops", "ended"},
     events : SUBSET (Reports \cup {"ready", "stopped"}), code : Nat]
Dispositions == {"none", "succeeded", "cancelled", "backend", "protocol", "cleanup"}
BurstStages == Signals \cup {"none", "open", "negotiate", "capabilities", "media", "write", "channels"}
ActivePlaces == {"exchange", "answer", "media", "write", "close"}
BurstRecords ==
    [kind : Kinds, at : ActivePlaces \cup {"rest", "finish", "over"}, disposition : Dispositions,
     primary : Dispositions, stage : BurstStages, refused : BOOLEAN, exchanges : Nat,
     signaling : BOOLEAN, media : BOOLEAN, cleanup : BOOLEAN, packets : Nat]

BurstTypeOK ==
    /\ worker \in WorkerRecords /\ burst \in BurstRecords /\ source \in BurstSources
    /\ remote \in {"idle", "configured", "open", "streaming"} /\ signals \subseteq HostSignals

(* A command is known by the state that waits for its answer. *)
Paired(s) ==
    /\ s.state = "discover_sent" => s.signal = "discover"
    /\ s.state = "capabilities_sent" => s.signal \in {"all_capabilities", "capabilities"}
    /\ s.state = "close_sent" => s.signal = "close"

(* The channels of a session that has not come to its end. *)
ChannelsHeld ==
    /\ burst.at = "rest" => ~burst.signaling /\ ~burst.media
    /\ burst.at \in ActivePlaces \cup {"finish"} => burst.signaling
    /\ burst.at = "over" /\ (burst.signaling \/ burst.media) => burst.disposition = "cleanup"

(* What the headset has been told so far. *)
ToldSoFar ==
    /\ burst.exchanges = 0 => remote = "idle" /\ burst.at # "answer"
    /\ burst.at \in ActivePlaces \cup {"rest"} =>
        /\ Paired(source) /\ burst.disposition = "none"
        /\ source.state \in {"idle", "discover_sent", "capabilities_sent"} => remote = "idle"
    /\ burst.at = "rest" => source.state = "idle"

(* The packets are played before the stream is given up. *)
PlayedFirst ==
    burst.kind = "silence" =>
        /\ burst.at \in ActivePlaces /\ source.state \in {"suspend_sent", "close_sent"}
              => burst.packets = PacketLimit
        /\ burst.at = "close" => burst.packets = PacketLimit

Succeeded ==
    burst.at \in {"finish", "over"} /\ burst.disposition = "succeeded" =>
        remote = "idle" /\ (burst.kind = "silence" => burst.packets = PacketLimit)

(* A report is of a session that is over. *)
BurstReported ==
    /\ "completed" \in worker.events =>
          /\ burst.at = "over" /\ remote = "idle"
          /\ burst.kind = "silence" => burst.packets = PacketLimit
    /\ "retryable" \in worker.events =>
          burst.at = "over" /\ burst.exchanges = 0 /\ remote = "idle" /\ ~burst.signaling

BurstInv ==
    /\ BurstTypeOK /\ ChannelsHeld /\ ToldSoFar /\ PlayedFirst /\ Succeeded /\ BurstReported

(* A session that has not failed holds nothing but what it has opened: its *)
(* source sends a command, and waits for the answer to it.                 *)
LEMMA BurstCommand ==
    ASSUME NEW s \in BurstSources, NEW signal \in Signals, NEW state \in AvdtpStates
    PROVE  /\ SendCommand(s, signal, state) \in BurstSources
           /\ SendCommand(s, signal, state).state = state
           /\ SendCommand(s, signal, state).signal = signal
<1>1. (s.next + 1) % 16 \in 0..15
  BY DEF BurstSources
<1> QED BY <1>1 DEF SendCommand, BurstSources

(* The source has given up. *)
LEMMA BurstSourceFails ==
    ASSUME NEW s \in BurstSources
    PROVE  FailSource(s) \in BurstSources /\ FailSource(s).state = "failed"
BY DEF FailSource, BurstSources, AvdtpStates

(* The kind of the capability request is no part of the state. *)
LEMMA BurstLegacy ==
    ASSUME NEW s \in BurstSources, NEW legacy \in BOOLEAN
    PROVE  /\ [s EXCEPT !.legacy = legacy] \in BurstSources
           /\ [s EXCEPT !.legacy = legacy].state = s.state
           /\ [s EXCEPT !.legacy = legacy].signal = s.signal
BY DEF BurstSources

(* The first sink is asked, then the others. *)
LEMMA BurstQueries ==
    ASSUME NEW s \in BurstSources
    PROVE  /\ QueryCurrentSink(s) \in BurstSources
           /\ QueryCurrentSink(s).state = "capabilities_sent"
           /\ QueryCurrentSink(s).signal = "all_capabilities"
           /\ QueryNextSink(s) \in BurstSources
           /\ QueryNextSink(s).state \in {"failed", "capabilities_sent"}
           /\ QueryNextSink(s).state = "capabilities_sent" =>
                QueryNextSink(s).signal = "all_capabilities"
<1>1. "all_capabilities" \in Signals /\ "capabilities_sent" \in AvdtpStates
  BY DEF Signals, AvdtpStates
<1>2. \A t \in BurstSources :
        /\ QueryCurrentSink(t) \in BurstSources
        /\ QueryCurrentSink(t).state = "capabilities_sent"
        /\ QueryCurrentSink(t).signal = "all_capabilities"
  <2> SUFFICES ASSUME NEW t \in BurstSources
               PROVE  /\ QueryCurrentSink(t) \in BurstSources
                      /\ QueryCurrentSink(t).state = "capabilities_sent"
                      /\ QueryCurrentSink(t).signal = "all_capabilities"
    OBVIOUS
  <2> DEFINE c == SendCommand(t, "all_capabilities", "capabilities_sent")
  <2>1. c \in BurstSources /\ c.state = "capabilities_sent" /\ c.signal = "all_capabilities"
    BY <1>1, BurstCommand
  <2>2. QueryCurrentSink(t) = [c EXCEPT !.legacy = FALSE]
    BY DEF QueryCurrentSink
  <2> HIDE DEF c
  <2> QED BY <2>1, <2>2, BurstLegacy
<1>3. [s EXCEPT !.index = s.index + 1] \in BurstSources
  <2>1. s.index + 1 \in Nat
    BY DEF BurstSources
  <2> DEFINE i == s.index + 1
  <2>0. i \in Nat
    BY <2>1
  <2> HIDE DEF i
  <2>2. [s EXCEPT !.index = i] \in BurstSources
    BY <2>0 DEF BurstSources
  <2> QED BY <2>2 DEF i
<1> QED BY <1>2, <1>3, BurstSourceFails DEF QueryNextSink

(* Where an answer leads from a state, and by which type of answer. *)
Follows(old, type, new) ==
    \/ new = "failed"
    \/ new = "capabilities_sent" /\ old = "discover_sent" /\ type = "accept"
    \/ new = "capabilities_sent" /\ old = "capabilities_sent"
    \/ /\ type = "accept"
       /\ \/ old = "capabilities_sent" /\ new = "configuration_sent"
          \/ old = "configuration_sent" /\ new = "open_sent"
          \/ old = "open_sent" /\ new = "waiting_media"
          \/ old = "start_sent" /\ new = "streaming"
          \/ old = "suspend_sent" /\ new = "open"
          \/ old = "close_sent" /\ new = "closed"

(* The answer to the pending command. *)
LEMMA BurstAnswered ==
    ASSUME NEW s \in BurstSources, NEW p, p.body \in Seq(SinkKinds),
           p.label = s.pending, p.signal = s.signal, p.type \in {"accept", "reject"}
    PROVE  LET n == HandleSignaling(s, p) IN
           n \in BurstSources /\ Paired(n) /\ Follows(s.state, p.type, n.state)
<1> DEFINE n == HandleSignaling(s, p)
           Good(t) == t \in BurstSources /\ Paired(t) /\ Follows(s.state, p.type, t.state)
<1> SUFFICES Good(n)
  OBVIOUS
<1>1. Good(FailSource(s))
  BY BurstSourceFails DEF Paired, Follows
<1>2. CASE s.state \in {"failed", "idle", "streaming"}
  BY <1>1, <1>2 DEF HandleSignaling
<1>3. CASE s.state \notin {"failed", "idle", "streaming"} /\ p.type = "reject"
  <2>1. n = HandleReject(s)
    BY <1>3 DEF HandleSignaling
  <2>2. CASE s.state # "capabilities_sent"
    BY <1>1, <2>1, <2>2 DEF HandleReject
  <2>3. CASE s.state = "capabilities_sent"
    <3>1. "capabilities" \in Signals /\ "capabilities_sent" \in AvdtpStates
      BY DEF Signals, AvdtpStates
    <3> DEFINE c == SendCommand(s, "capabilities", "capabilities_sent")
    <3>2. c \in BurstSources /\ c.state = "capabilities_sent" /\ c.signal = "capabilities"
      BY <3>1, BurstCommand
    <3>3. n = [c EXCEPT !.legacy = TRUE] \/ n = QueryNextSink(s)
      BY <2>1, <2>3 DEF HandleReject
    <3> HIDE DEF c, n
    <3>4. /\ [c EXCEPT !.legacy = TRUE] \in BurstSources
          /\ [c EXCEPT !.legacy = TRUE].state = "capabilities_sent"
          /\ [c EXCEPT !.legacy = TRUE].signal = "capabilities"
      BY <3>2, BurstLegacy
    <3> QED BY <2>3, <3>3, <3>4, BurstQueries DEF Paired, Follows
  <2> QED BY <2>2, <2>3
<1>4. CASE s.state \notin {"failed", "idle", "streaming"} /\ p.type # "reject"
  <2>1. CASE s.state = "discover_sent"
    <3>1. n = HandleDiscover(s, p.body)
      BY <1>4, <2>1 DEF HandleSignaling
    <3>2. [s EXCEPT !.sinks = p.body, !.index = 1] \in BurstSources
      BY DEF BurstSources
    <3>3. n = FailSource(s) \/ n = QueryCurrentSink([s EXCEPT !.sinks = p.body, !.index = 1])
      BY <3>1 DEF HandleDiscover
    <3> HIDE DEF n
    <3>4. p.type = "accept"
      BY <1>4
    <3> QED BY <1>1, <2>1, <3>2, <3>3, <3>4, BurstQueries DEF Paired, Follows
  <2>2. CASE s.state = "capabilities_sent"
    <3>1. n = HandleCapabilities(s, s.sinks[s.index])
      BY <1>4, <2>2 DEF HandleSignaling
    <3>2. \/ n = FailSource(s) \/ n = QueryNextSink(s)
          \/ n = SendCommand(s, "configure", "configuration_sent")
      BY <3>1 DEF HandleCapabilities
    <3>3. "configure" \in Signals /\ "configuration_sent" \in AvdtpStates
      BY DEF Signals, AvdtpStates
    <3> HIDE DEF n
    <3>4. p.type = "accept"
      BY <1>4
    <3> QED BY <1>1, <2>2, <3>2, <3>3, <3>4, BurstQueries, BurstCommand DEF Paired, Follows
  <2>3. CASE s.state = "configuration_sent"
    <3>1. n = SendCommand(s, "open", "open_sent")
      BY <1>4, <2>3 DEF HandleSignaling
    <3>2. "open" \in Signals /\ "open_sent" \in AvdtpStates
      BY DEF Signals, AvdtpStates
    <3> HIDE DEF n
    <3> QED BY <1>4, <2>3, <3>1, <3>2, BurstCommand DEF Paired, Follows
  <2>4. CASE s.state \in {"open_sent", "start_sent", "suspend_sent", "close_sent"}
    <3> DEFINE then == [open_sent |-> "waiting_media", start_sent |-> "streaming",
                        suspend_sent |-> "open", close_sent |-> "closed"]
    <3>1. n = [s EXCEPT !.state = then[s.state]]
      BY <1>4, <2>4 DEF HandleSignaling
    <3>2. then[s.state] \in AvdtpStates
      BY <2>4 DEF AvdtpStates
    <3>3. n \in BurstSources /\ n.state = then[s.state]
      BY <3>1, <3>2 DEF BurstSources
    <3> HIDE DEF n
    <3> QED BY <1>4, <2>4, <3>3 DEF Paired, Follows
  <2>5. CASE s.state \notin {"discover_sent", "capabilities_sent", "configuration_sent", "open_sent",
                             "start_sent", "suspend_sent", "close_sent"}
    <3>1. n = FailSource(s)
      BY <1>4, <2>5 DEF HandleSignaling
    <3> QED BY <1>1, <3>1
  <2> QED BY <2>1, <2>2, <2>3, <2>4, <2>5
<1> QED BY <1>2, <1>3, <1>4

(* What the session itself asks of its source. *)
LEMMA BurstAsks ==
    ASSUME NEW s \in BurstSources
    PROVE  /\ s.state = "idle" =>
                /\ BeginSource(s) \in BurstSources
                /\ BeginSource(s).state = "discover_sent" /\ BeginSource(s).signal = "discover"
           /\ StartSource(MediaChannelOpened(s)) \in BurstSources
           /\ StartSource(MediaChannelOpened(s)).state \in {"start_sent", "failed"}
           /\ CloseSource(MediaChannelOpened(s)) \in BurstSources
           /\ CloseSource(MediaChannelOpened(s)).state \in {"close_sent", "failed"}
           /\ Paired(CloseSource(MediaChannelOpened(s)))
           /\ SuspendSource(s) \in BurstSources
           /\ SuspendSource(s).state \in {"suspend_sent", "failed"}
           /\ CloseSource(s) \in BurstSources
           /\ CloseSource(s).state \in {"close_sent", "failed"} /\ Paired(CloseSource(s))
<1>1. MediaChannelOpened(s) \in BurstSources
  BY BurstSourceFails DEF MediaChannelOpened, BurstSources, AvdtpStates
<1>2. ASSUME NEW t \in BurstSources
      PROVE  /\ CloseSource(t) \in BurstSources
             /\ CloseSource(t).state \in {"close_sent", "failed"} /\ Paired(CloseSource(t))
  <2>1. "close" \in Signals /\ "close_sent" \in AvdtpStates
    BY DEF Signals, AvdtpStates
  <2> QED BY <2>1, BurstCommand, BurstSourceFails DEF CloseSource, Paired
<1>3. ASSUME NEW t \in BurstSources
      PROVE  StartSource(t) \in BurstSources /\ StartSource(t).state \in {"start_sent", "failed"}
  <2>1. "start" \in Signals /\ "start_sent" \in AvdtpStates
    BY DEF Signals, AvdtpStates
  <2> QED BY <2>1, BurstCommand, BurstSourceFails DEF StartSource
<1>4. SuspendSource(s) \in BurstSources /\ SuspendSource(s).state \in {"suspend_sent", "failed"}
  <2>1. "suspend" \in Signals /\ "suspend_sent" \in AvdtpStates
    BY DEF Signals, AvdtpStates
  <2> QED BY <2>1, BurstCommand, BurstSourceFails DEF SuspendSource
<1>5. s.state = "idle" =>
        /\ BeginSource(s) \in BurstSources
        /\ BeginSource(s).state = "discover_sent" /\ BeginSource(s).signal = "discover"
  <2>1. "discover" \in Signals /\ "discover_sent" \in AvdtpStates
    BY DEF Signals, AvdtpStates
  <2> QED BY <2>1, BurstCommand DEF BeginSource
<1> QED BY <1>1, <1>2, <1>3, <1>4, <1>5

(* A session that gives up, or has succeeded, is in Finish or over. *)
LEMMA BurstFails ==
    ASSUME NEW b \in BurstRecords, NEW d \in Dispositions, NEW stage \in BurstStages
    PROVE  /\ Fails(b, d, stage) \in BurstRecords
           /\ Fails(b, d, stage).kind = b.kind /\ Fails(b, d, stage).disposition = d
           /\ Fails(b, d, stage).exchanges = b.exchanges /\ Fails(b, d, stage).packets = b.packets
           /\ Fails(b, d, stage).signaling = b.signaling /\ Fails(b, d, stage).media = b.media
           /\ b.signaling => Fails(b, d, stage).at = "finish"
           /\ ~b.signaling => Fails(b, d, stage).at = "over"
<1> DEFINE at == IF b.signaling THEN "finish" ELSE "over"
<1>1. at \in ActivePlaces \cup {"rest", "finish", "over"}
  OBVIOUS
<1>2. (b.signaling => at = "finish") /\ (~b.signaling => at = "over")
  OBVIOUS
<1>3. Fails(b, d, stage) =
        [b EXCEPT !.primary = d, !.disposition = d, !.stage = stage, !.at = at]
  BY DEF Fails
<1> HIDE DEF at
<1>4. /\ Fails(b, d, stage) \in BurstRecords /\ Fails(b, d, stage).at = at
      /\ Fails(b, d, stage).kind = b.kind /\ Fails(b, d, stage).disposition = d
      /\ Fails(b, d, stage).exchanges = b.exchanges /\ Fails(b, d, stage).packets = b.packets
      /\ Fails(b, d, stage).signaling = b.signaling /\ Fails(b, d, stage).media = b.media
  BY <1>1, <1>3 DEF BurstRecords
<1> QED BY <1>2, <1>4

(* What the invariant says of a session that is under way. *)
LEMMA BurstUnderWay ==
    ASSUME BurstInv, burst.at \in ActivePlaces \cup {"rest"}
    PROVE  /\ burst.disposition = "none" /\ Paired(source)
           /\ "completed" \notin worker.events /\ "retryable" \notin worker.events
           /\ burst.at \in ActivePlaces => burst.signaling
           /\ burst.signaling => burst.at \in ActivePlaces
           /\ burst.media => burst.signaling
           /\ burst \in BurstRecords /\ source \in BurstSources /\ burst.packets \in Nat
           /\ burst.kind \in Kinds /\ burst.stage \in BurstStages /\ burst.exchanges \in Nat
           /\ source.state \in AvdtpStates /\ source.signal \in Signals
           /\ remote \in {"idle", "configured", "open", "streaming"}
           /\ burst.exchanges = 0 => remote = "idle" /\ burst.at # "answer"
           /\ source.state \in {"idle", "discover_sent", "capabilities_sent"} => remote = "idle"
<1>1. burst.at \notin {"finish", "over"}
  BY DEF ActivePlaces
<1>2. /\ burst \in BurstRecords /\ source \in BurstSources /\ burst.packets \in Nat
      /\ burst.kind \in Kinds /\ burst.stage \in BurstStages /\ burst.exchanges \in Nat
      /\ source.state \in AvdtpStates /\ source.signal \in Signals
      /\ remote \in {"idle", "configured", "open", "streaming"}
  BY DEF BurstInv, BurstTypeOK, BurstRecords, BurstSources
<1>3. "completed" \notin worker.events /\ "retryable" \notin worker.events
  BY <1>1 DEF BurstInv, BurstReported
<1> QED BY <1>1, <1>2, <1>3 DEF BurstInv, ChannelsHeld, ToldSoFar

(* Giving up, at any point of a session that is under way. *)
LEMMA BurstGivesUp ==
    ASSUME BurstInv, burst.at \in ActivePlaces \cup {"rest"},
           NEW b \in BurstRecords, NEW d \in Dispositions, NEW stage \in BurstStages,
           b.kind = burst.kind, b.exchanges = burst.exchanges, b.packets = burst.packets,
           b.signaling => burst.at \in ActivePlaces, b.media => b.signaling,
           burst' = Fails(b, d, stage), source' \in BurstSources,
           remote' \in {"idle", "configured", "open", "streaming"},
           burst.exchanges = 0 => remote' = "idle",
           d = "succeeded" => /\ remote' = "idle"
                              /\ burst.kind = "silence" => burst.packets = PacketLimit,
           worker' = worker, signals' = signals
    PROVE  BurstInv'
<1>1. /\ burst' \in BurstRecords /\ burst'.kind = burst.kind /\ burst'.disposition = d
      /\ burst'.exchanges = burst.exchanges /\ burst'.packets = burst.packets
      /\ burst'.signaling = b.signaling /\ burst'.media = b.media
      /\ b.signaling => burst'.at = "finish"
      /\ ~b.signaling => burst'.at = "over"
  BY BurstFails
<1>2. /\ "completed" \notin worker.events /\ "retryable" \notin worker.events
  BY BurstUnderWay
<1>3. burst'.at \notin ActivePlaces \cup {"rest"}
  BY <1>1 DEF ActivePlaces
<1>4. BurstTypeOK'
  BY <1>1 DEF BurstInv, BurstTypeOK
<1>5. ChannelsHeld'
  BY <1>1, <1>3 DEF ChannelsHeld
<1>6. ToldSoFar'
  BY <1>1, <1>3 DEF ToldSoFar
<1>7. PlayedFirst'
  BY <1>3 DEF PlayedFirst, ActivePlaces
<1>8. Succeeded'
  BY <1>1 DEF Succeeded
<1>9. BurstReported'
  BY <1>2 DEF BurstReported
<1> QED BY <1>4, <1>5, <1>6, <1>7, <1>8, <1>9 DEF BurstInv

(* Going on, with a channel open. *)
LEMMA BurstGoesOn ==
    ASSUME BurstInv, burst.at \in ActivePlaces \cup {"rest"},
           burst' \in BurstRecords, burst'.at \in ActivePlaces, burst'.signaling,
           burst'.disposition = "none", source' \in BurstSources, Paired(source'),
           remote' \in {"idle", "configured", "open", "streaming"},
           burst'.exchanges = 0 => remote' = "idle" /\ burst'.at # "answer",
           source'.state \in {"idle", "discover_sent", "capabilities_sent"} => remote' = "idle",
           PlayedFirst', worker' = worker, signals' = signals
    PROVE  BurstInv'
<1>1. "completed" \notin worker.events /\ "retryable" \notin worker.events
  BY BurstUnderWay
<1>2. burst'.at \notin {"rest", "finish", "over"}
  BY DEF ActivePlaces
<1>3. BurstTypeOK'
  BY DEF BurstInv, BurstTypeOK
<1>4. ChannelsHeld'
  BY <1>2 DEF ChannelsHeld
<1>5. ToldSoFar'
  BY <1>2 DEF ToldSoFar, Paired
<1>6. Succeeded'
  BY <1>2 DEF Succeeded
<1>7. BurstReported'
  BY <1>1 DEF BurstReported
<1> QED BY <1>3, <1>4, <1>5, <1>6, <1>7 DEF BurstInv

(* The steps of the session before a command is answered. *)
LEMMA BurstOpens ==
    ASSUME BurstInv, OpensSignaling \/ SendsCommand
    PROVE  BurstInv'
<1>1. CASE OpensSignaling
  <2>1. burst.at = "rest" /\ worker' = worker /\ remote' = remote /\ signals' = signals
    BY <1>1 DEF OpensSignaling
  <2>2. /\ burst.at \in ActivePlaces \cup {"rest"} /\ source.state = "idle" /\ remote = "idle"
        /\ ~burst.signaling /\ ~burst.media
    BY <2>1 DEF BurstInv, ToldSoFar, ChannelsHeld
  <2>3. /\ burst \in BurstRecords /\ source \in BurstSources /\ burst.disposition = "none"
    BY <2>2, BurstUnderWay
  <2>4. {"cancelled", "backend", "succeeded"} \subseteq Dispositions /\ "open" \in BurstStages
        /\ "negotiate" \in BurstStages /\ "exchange" \in ActivePlaces
    BY DEF Dispositions, BurstStages, ActivePlaces
  <2>5. CASE burst' = Fails(burst, "cancelled", "open") /\ source' = source
    BY <2>1, <2>2, <2>3, <2>4, <2>5, BurstGivesUp
  <2>6. CASE /\ burst' = [burst EXCEPT !.signaling = TRUE, !.at = "exchange", !.stage = "negotiate"]
             /\ source' = BeginSource(source)
    <3>1. /\ source' \in BurstSources
          /\ source'.state = "discover_sent" /\ source'.signal = "discover"
      BY <2>2, <2>3, <2>6, BurstAsks
    <3>2. /\ burst' \in BurstRecords /\ burst'.at = "exchange" /\ burst'.signaling = TRUE
          /\ burst'.disposition = burst.disposition
      BY <2>3, <2>4, <2>6 DEF BurstRecords
    <3>3. Paired(source') /\ PlayedFirst'
      BY <3>1, <3>2 DEF Paired, PlayedFirst
    <3> QED BY <2>1, <2>2, <2>3, <2>4, <3>1, <3>2, <3>3, BurstGoesOn
  <2>7. ASSUME NEW refused \in BOOLEAN, NEW d \in {"cancelled", "backend"}, source' = source,
               burst' = Fails([burst EXCEPT !.refused = refused], d, "open")
        PROVE  BurstInv'
    <3> DEFINE b == [burst EXCEPT !.refused = refused]
    <3>1. /\ b \in BurstRecords /\ b.kind = burst.kind /\ b.exchanges = burst.exchanges
          /\ b.packets = burst.packets /\ b.signaling = burst.signaling /\ b.media = burst.media
      BY <2>3 DEF BurstRecords
    <3>2. burst' = Fails(b, d, "open")
      BY <2>7
    <3> HIDE DEF b
    <3> QED BY <2>1, <2>2, <2>3, <2>4, <2>7, <3>1, <3>2, BurstGivesUp
  <2> QED BY <1>1, <2>5, <2>6, <2>7 DEF OpensSignaling, Broken
<1>2. CASE SendsCommand
  <2>1. /\ burst.at = "exchange" /\ burst.at \in ActivePlaces \cup {"rest"}
        /\ worker' = worker /\ remote' = remote /\ signals' = signals /\ source' = source
    BY <1>2 DEF SendsCommand, ActivePlaces
  <2>2. /\ burst \in BurstRecords /\ source \in BurstSources /\ burst.disposition = "none"
        /\ Paired(source) /\ burst.signaling /\ burst.exchanges \in Nat
        /\ source.signal \in Signals
        /\ remote \in {"idle", "configured", "open", "streaming"}
        /\ burst.exchanges = 0 => remote = "idle"
        /\ source.state \in {"idle", "discover_sent", "capabilities_sent"} => remote = "idle"
    BY <2>1, BurstUnderWay DEF ActivePlaces
  <2>3. "cancelled" \in Dispositions /\ source.signal \in BurstStages /\ "answer" \in ActivePlaces
    BY <2>2 DEF Dispositions, BurstStages, ActivePlaces
  <2>4. CASE burst' = Fails(burst, "cancelled", source.signal)
    BY <2>1, <2>2, <2>3, <2>4, BurstGivesUp DEF ActivePlaces
  <2>5. CASE burst' = [burst EXCEPT !.at = "answer", !.exchanges = @ + 1, !.stage = source.signal]
    <3> DEFINE n == burst.exchanges + 1
    <3>1. n \in Nat /\ n # 0
      BY <2>2
    <3>2. burst' = [burst EXCEPT !.at = "answer", !.exchanges = n, !.stage = source.signal]
      BY <2>5
    <3> HIDE DEF n
    <3>3. /\ burst' \in BurstRecords /\ burst'.at = "answer" /\ burst'.exchanges = n
          /\ burst'.signaling = burst.signaling /\ burst'.disposition = burst.disposition
          /\ burst'.kind = burst.kind /\ burst'.packets = burst.packets
      BY <2>2, <2>3, <3>1, <3>2 DEF BurstRecords
    <3>4. PlayedFirst'
      BY <2>1, <3>3 DEF BurstInv, PlayedFirst, ActivePlaces
    <3>5. Paired(source')
      BY <2>1, <2>2 DEF Paired
    <3> QED BY <2>1, <2>2, <2>3, <3>1, <3>3, <3>4, <3>5, BurstGoesOn
  <2> QED BY <1>2, <2>4, <2>5 DEF SendsCommand
<1> QED BY <1>1, <1>2

(* Where the session goes on from an answer. *)
LEMMA BurstAfterAnswer ==
    ASSUME BurstInv, burst.at = "answer", NEW s \in BurstSources, NEW type \in {"accept", "reject"},
           Paired(s), Follows(source.state, type, s.state),
           source' = s, burst' = AfterAnswer(burst, s),
           remote' = (IF type = "accept" THEN Heard(source.signal) ELSE remote),
           worker' = worker, signals' = signals
    PROVE  BurstInv'
<1>1. burst.at \in ActivePlaces \cup {"rest"} /\ "exchange" \in ActivePlaces
      /\ "media" \in ActivePlaces /\ "write" \in ActivePlaces /\ "close" \in ActivePlaces
  BY DEF ActivePlaces
<1>2. /\ burst \in BurstRecords /\ source \in BurstSources /\ burst.disposition = "none"
      /\ Paired(source) /\ burst.signaling /\ burst.exchanges # 0
      /\ burst.stage \in BurstStages /\ burst.media => burst.signaling
      /\ remote \in {"idle", "configured", "open", "streaming"}
      /\ source.state \in {"idle", "discover_sent", "capabilities_sent"} => remote = "idle"
  BY <1>1, BurstUnderWay DEF ActivePlaces
<1>3. remote' \in {"idle", "configured", "open", "streaming"}
  BY <1>2 DEF Heard
<1>4. s.state \in {"idle", "discover_sent", "capabilities_sent"} => remote' = "idle"
  BY <1>2 DEF Follows, Paired, Heard
<1>5. s.state = "closed" =>
        /\ remote' = "idle"
        /\ burst.kind = "silence" => burst.packets = PacketLimit
  <2>1. s.state = "closed" => source.state = "close_sent" /\ type = "accept"
    BY DEF Follows
  <2>2. source.state = "close_sent" => source.signal = "close"
    BY <1>2 DEF Paired
  <2>3. source.state = "close_sent" /\ burst.kind = "silence" => burst.packets = PacketLimit
    BY <1>1 DEF BurstInv, PlayedFirst, ActivePlaces
  <2> QED BY <2>1, <2>2, <2>3 DEF Heard
<1>6. s.state = "configuration_sent" => remote' = "idle"
  <2>1. s.state = "configuration_sent" => source.state = "capabilities_sent" /\ type = "accept"
    BY DEF Follows
  <2> QED BY <1>2, <2>1 DEF Paired, Heard
<1>7. s.state \notin {"suspend_sent", "close_sent"}
  BY DEF Follows
<1>8. s.state = "open" /\ burst.kind = "silence" => burst.packets = PacketLimit
  <2>1. s.state = "open" => source.state = "suspend_sent"
    BY DEF Follows
  <2> QED BY <1>1, <2>1 DEF BurstInv, PlayedFirst, ActivePlaces
<1>9. ASSUME NEW d \in Dispositions, NEW stage \in BurstStages, burst' = Fails(burst, d, stage),
             d = "succeeded" => /\ remote' = "idle"
                                /\ burst.kind = "silence" => burst.packets = PacketLimit
      PROVE  BurstInv'
  BY <1>1, <1>2, <1>3, <1>9, BurstGivesUp DEF ActivePlaces
<1>10. ASSUME NEW at \in {"exchange", "media", "write", "close"}, NEW cleanup \in BOOLEAN,
              burst' = [burst EXCEPT !.cleanup = cleanup, !.at = at],
              at = "close" => s.state = "open"
       PROVE  BurstInv'
  <2>1. /\ burst' \in BurstRecords /\ burst'.at = at /\ burst'.exchanges = burst.exchanges
        /\ burst'.signaling = burst.signaling /\ burst'.disposition = burst.disposition
        /\ burst'.kind = burst.kind /\ burst'.packets = burst.packets
    <3>1. at \in ActivePlaces \cup {"rest", "finish", "over"}
      BY DEF ActivePlaces
    <3> QED BY <1>2, <1>10, <3>1 DEF BurstRecords
  <2>2. PlayedFirst'
    BY <1>7, <1>8, <1>10, <2>1 DEF PlayedFirst
  <2>3. Paired(source')
    BY DEF Paired
  <2>4. burst'.at \in ActivePlaces
    BY <1>1, <2>1
  <2> QED BY <1>1, <1>2, <1>3, <1>4, <2>1, <2>2, <2>3, <2>4, BurstGoesOn
<1>11. \A at \in {"exchange", "media", "write", "close"} :
         [burst EXCEPT !.at = at] = [burst EXCEPT !.cleanup = burst.cleanup, !.at = at]
  BY <1>2 DEF BurstRecords
<1>12. burst.cleanup \in BOOLEAN
  BY <1>2 DEF BurstRecords
<1>13. "protocol" \in Dispositions /\ "succeeded" \in Dispositions /\ "capabilities" \in BurstStages
  BY DEF Dispositions, BurstStages
<1>14. burst.stage \in BurstStages
  BY <1>1, BurstUnderWay
<1>15. CASE s.state = "failed"
  <2>1. burst' = Fails(burst, "protocol", burst.stage)
    BY <1>15 DEF AfterAnswer, Demand
  <2> QED BY <1>9, <1>13, <1>14, <2>1
<1>16. CASE s.state # "failed" /\ burst.kind = "discovery" /\ s.state = "configuration_sent"
  <2>1. burst' = Fails(burst, "succeeded", "capabilities")
    BY <1>16 DEF AfterAnswer, Demand
  <2> QED BY <1>6, <1>9, <1>13, <1>16, <2>1
<1>17. CASE s.state # "failed" /\ ~(burst.kind = "discovery" /\ s.state = "configuration_sent")
  <2>1. CASE s.state = "waiting_media"
    <3>1. burst' = [burst EXCEPT !.at = "media"]
      BY <1>17, <2>1 DEF AfterAnswer, Demand
    <3> QED BY <1>10, <1>11, <1>12, <3>1
  <2>2. CASE s.state = "streaming"
    <3>1. burst' = [burst EXCEPT !.cleanup = TRUE, !.at = "write"]
      BY <1>17, <2>2 DEF AfterAnswer, Demand
    <3> QED BY <1>10, <3>1
  <2>3. CASE s.state = "open"
    <3>1. burst' = [burst EXCEPT !.cleanup = FALSE, !.at = "close"]
      BY <1>17, <2>3 DEF AfterAnswer, Demand
    <3> QED BY <1>10, <2>3, <3>1
  <2>4. CASE s.state = "closed"
    <3>1. burst' = Fails(burst, "succeeded", burst.stage)
      BY <1>17, <2>4 DEF AfterAnswer, Demand
    <3> QED BY <1>5, <1>9, <1>13, <1>14, <2>4, <3>1
  <2>5. CASE s.state \notin {"waiting_media", "streaming", "open", "closed"}
    <3>1. Demand(s) # "open_media"
      BY <2>5 DEF Demand
    <3>2. burst' = [burst EXCEPT !.at = "exchange"]
      BY <1>17, <2>5, <3>1 DEF AfterAnswer
    <3> QED BY <1>10, <1>11, <1>12, <3>2
  <2> QED BY <2>1, <2>2, <2>3, <2>4, <2>5
<1> QED BY <1>15, <1>16, <1>17

(* An answer, or an exchange that fails. *)
LEMMA BurstTakes ==
    ASSUME BurstInv, TakesAnswer
    PROVE  BurstInv'
<1>1. /\ burst.at = "answer" /\ burst.at \in ActivePlaces \cup {"rest"} /\ burst.at \in ActivePlaces
      /\ worker' = worker /\ signals' = signals
  BY DEF TakesAnswer, ActivePlaces
<1>2. burst \in BurstRecords /\ source \in BurstSources
  BY <1>1, BurstUnderWay
<1>3. /\ burst.stage \in BurstStages /\ burst.exchanges # 0
      /\ remote \in {"idle", "configured", "open", "streaming"}
  BY <1>1, BurstUnderWay
<1>4. burst.media => burst.signaling
  BY <1>1, BurstUnderWay
<1>5. "protocol" \in Dispositions /\ "cancelled" \in Dispositions /\ "backend" \in Dispositions
      /\ "succeeded" \notin {"protocol", "cancelled", "backend"}
  BY DEF Dispositions
<1>6. ASSUME NEW type \in {"accept", "reject"},
             NEW sinks \in {<<"ldac">>, <<"other", "ldac">>, <<"alien">>, <<>>},
             LET s == HandleSignaling(source, [label |-> source.pending, signal |-> source.signal,
                                               type |-> type, body |-> sinks])
             IN  source' = s /\ burst' = AfterAnswer(burst, s),
             remote' = IF type = "accept" THEN Heard(source.signal) ELSE remote
      PROVE  BurstInv'
  <2> DEFINE p == [label |-> source.pending, signal |-> source.signal, type |-> type, body |-> sinks]
             s == HandleSignaling(source, p)
  <2>1. sinks \in Seq(SinkKinds)
    <3>1. "ldac" \in SinkKinds /\ "other" \in SinkKinds /\ "alien" \in SinkKinds
      BY DEF SinkKinds
    <3> HIDE DEF SinkKinds
    <3>2. <<"ldac">> \in Seq(SinkKinds) /\ <<"alien">> \in Seq(SinkKinds)
          /\ <<"other", "ldac">> \in Seq(SinkKinds) /\ <<>> \in Seq(SinkKinds)
      BY <3>1
    <3> QED BY <3>2
  <2>2. p.body = sinks /\ p.label = source.pending /\ p.signal = source.signal /\ p.type = type
    OBVIOUS
  <2>3. source' = s /\ burst' = AfterAnswer(burst, s)
    BY <1>6
  <2> HIDE DEF p
  <2>4. s \in BurstSources /\ Paired(s) /\ Follows(source.state, type, s.state)
    <3>1. /\ p.body \in Seq(SinkKinds) /\ p.label = source.pending /\ p.signal = source.signal
          /\ p.type \in {"accept", "reject"}
      BY <2>1, <2>2
    <3>2. s \in BurstSources /\ Paired(s) /\ Follows(source.state, p.type, s.state)
      BY <1>2, <3>1, BurstAnswered
    <3> HIDE DEF s
    <3> QED BY <2>2, <3>2
  <2> HIDE DEF s
  <2> QED BY <1>1, <1>6, <2>3, <2>4, BurstAfterAnswer
<1>7. ASSUME NEW d \in {"protocol", "cancelled", "backend"}, burst' = Fails(burst, d, burst.stage),
             source' \in BurstSources, remote' \in {remote, Heard(source.signal)}
      PROVE  BurstInv'
  <2>1. remote' \in {"idle", "configured", "open", "streaming"}
    BY <1>3, <1>7 DEF Heard
  <2> QED BY <1>1, <1>2, <1>3, <1>4, <1>5, <1>7, <2>1, BurstGivesUp
<1>8. FailSource(source) \in BurstSources
  BY <1>2, BurstSourceFails
<1> QED BY <1>2, <1>6, <1>7, <1>8 DEF TakesAnswer, Broken

(* The media channel, the packets and the end of the stream. *)
LEMMA BurstPlays ==
    ASSUME BurstInv, OpensMedia \/ WritesSilence \/ ClosesStream
    PROVE  BurstInv'
<1>1. /\ burst.at \in {"media", "write", "close"}
      /\ worker' = worker /\ signals' = signals /\ remote' = remote
  BY DEF OpensMedia, WritesSilence, ClosesStream
<1>2. burst.at \in ActivePlaces \cup {"rest"} /\ burst.at \in ActivePlaces
  BY <1>1 DEF ActivePlaces
<1>3. burst \in BurstRecords /\ source \in BurstSources
  BY <1>2, BurstUnderWay
<1>4. /\ burst.exchanges \in Nat /\ burst.packets \in Nat /\ burst.disposition = "none"
      /\ remote \in {"idle", "configured", "open", "streaming"}
      /\ burst.exchanges = 0 => remote = "idle"
      /\ source.state \in {"idle", "discover_sent", "capabilities_sent"} => remote = "idle"
  BY <1>2, BurstUnderWay
<1>5. burst.signaling = TRUE
  <2>1. burst.signaling \in BOOLEAN
    BY <1>3 DEF BurstRecords
  <2>2. burst.signaling
    BY <1>2, BurstUnderWay
  <2> QED BY <2>1, <2>2
<1>6. Paired(source)
  BY <1>2, BurstUnderWay
<1>7. /\ {"cancelled", "backend", "protocol"} \subseteq Dispositions
      /\ "media" \in BurstStages /\ "write" \in BurstStages /\ "exchange" \in ActivePlaces
      /\ "write" \in ActivePlaces
  BY DEF Dispositions, BurstStages, ActivePlaces
(* It gives up. *)
<1>8. ASSUME NEW b \in BurstRecords, NEW d \in {"cancelled", "backend", "protocol"},
             NEW stage \in {"media", "write"}, burst' = Fails(b, d, stage), source' = source,
             b.kind = burst.kind, b.exchanges = burst.exchanges, b.packets = burst.packets,
             b.signaling = TRUE
      PROVE  BurstInv'
  <2>1. d \in Dispositions /\ stage \in BurstStages /\ d # "succeeded"
    BY <1>7
  <2> QED BY <1>1, <1>2, <1>3, <1>4, <1>8, <2>1, BurstGivesUp
(* It goes on. *)
<1>9. ASSUME burst' \in BurstRecords, burst'.at \in {"exchange", "write"},
             burst'.exchanges = burst.exchanges, burst'.signaling = TRUE,
             burst'.disposition = burst.disposition,
             source' \in BurstSources, Paired(source'), PlayedFirst',
             \/ source'.state \in {"start_sent", "suspend_sent", "close_sent", "failed"}
             \/ source' = source
      PROVE  BurstInv'
  <2>1. burst'.at \in ActivePlaces /\ burst'.at # "answer"
    BY <1>7, <1>9
  <2>2. source'.state \in {"idle", "discover_sent", "capabilities_sent"} => remote' = "idle"
    BY <1>1, <1>4, <1>9
  <2> QED BY <1>1, <1>2, <1>4, <1>9, <2>1, <2>2, BurstGoesOn
<1>10. /\ MediaOpened(burst) \in BurstRecords /\ MediaOpened(burst).kind = burst.kind
       /\ MediaOpened(burst).exchanges = burst.exchanges
       /\ MediaOpened(burst).packets = burst.packets
       /\ MediaOpened(burst).signaling = burst.signaling
       /\ MediaOpened(burst).disposition = burst.disposition
  BY <1>3 DEF MediaOpened, BurstRecords
<1>11. \A b \in BurstRecords :
          /\ [b EXCEPT !.at = "exchange"] \in BurstRecords
          /\ [b EXCEPT !.at = "exchange"].at = "exchange"
          /\ [b EXCEPT !.at = "exchange"].kind = b.kind
          /\ [b EXCEPT !.at = "exchange"].exchanges = b.exchanges
          /\ [b EXCEPT !.at = "exchange"].packets = b.packets
          /\ [b EXCEPT !.at = "exchange"].signaling = b.signaling
          /\ [b EXCEPT !.at = "exchange"].disposition = b.disposition
  BY DEF BurstRecords, ActivePlaces
<1>12. CASE OpensMedia
  <2>1. CASE burst' = Fails(burst, "cancelled", "media") /\ source' = source
    BY <1>3, <1>5, <1>8, <2>1
  <2>2. CASE burst' = Fails(burst, "backend", "media") /\ source' = source
    BY <1>3, <1>5, <1>8, <2>2
  <2>3. CASE burst' = Fails(MediaOpened(burst), "protocol", "media") /\ source' = source
    BY <1>5, <1>8, <1>10, <2>3
  <2>4. CASE /\ burst' = [MediaOpened(burst) EXCEPT !.at = "exchange"]
             /\ source' = IF burst.kind = "configuration"
                          THEN CloseSource(MediaChannelOpened(source))
                          ELSE StartSource(MediaChannelOpened(source))
    <3>1. /\ burst' \in BurstRecords /\ burst'.at = "exchange" /\ burst'.kind = burst.kind
          /\ burst'.exchanges = burst.exchanges /\ burst'.packets = burst.packets
          /\ burst'.signaling = burst.signaling /\ burst'.disposition = burst.disposition
      BY <1>10, <1>11, <2>4
    <3>2. CASE burst.kind = "configuration"
      <4>1. /\ source' \in BurstSources /\ source'.state \in {"close_sent", "failed"}
            /\ Paired(source')
        BY <1>3, <2>4, <3>2, BurstAsks
      <4>2. PlayedFirst'
        BY <3>1, <3>2 DEF PlayedFirst
      <4> QED BY <1>5, <1>9, <3>1, <4>1, <4>2
    <3>3. CASE burst.kind # "configuration"
      <4>1. source' \in BurstSources /\ source'.state \in {"start_sent", "failed"}
        BY <1>3, <2>4, <3>3, BurstAsks
      <4>2. PlayedFirst' /\ Paired(source')
        BY <3>1, <4>1 DEF PlayedFirst, Paired
      <4> QED BY <1>5, <1>9, <3>1, <4>1, <4>2
    <3> QED BY <3>2, <3>3
  <2> QED BY <1>12, <2>1, <2>2, <2>3, <2>4 DEF OpensMedia
<1>13. CASE WritesSilence
  <2>1. burst.at = "write"
    BY <1>13 DEF WritesSilence
  <2>2. CASE burst.packets = PacketLimit /\ burst' = [burst EXCEPT !.at = "exchange"]
             /\ source' = SuspendSource(source)
    <3>1. /\ burst' \in BurstRecords /\ burst'.at = "exchange" /\ burst'.kind = burst.kind
          /\ burst'.exchanges = burst.exchanges /\ burst'.packets = burst.packets
          /\ burst'.signaling = burst.signaling /\ burst'.disposition = burst.disposition
      BY <1>3, <1>11, <2>2
    <3>2. source' \in BurstSources /\ source'.state \in {"suspend_sent", "failed"}
      BY <1>3, <2>2, BurstAsks
    <3>3. PlayedFirst' /\ Paired(source')
      BY <2>2, <3>1, <3>2 DEF PlayedFirst, Paired
    <3> QED BY <1>5, <1>9, <3>1, <3>2, <3>3
  <2>3. CASE burst.packets # PacketLimit /\ burst' = MediaWritten(burst) /\ source' = source
    <3> DEFINE n == burst.packets + 1
    <3>1. n \in Nat
      BY <1>4
    <3>2. burst' = [burst EXCEPT !.packets = n]
      BY <2>3 DEF MediaWritten
    <3> HIDE DEF n
    <3>3. /\ burst' \in BurstRecords /\ burst'.at = burst.at /\ burst'.kind = burst.kind
          /\ burst'.exchanges = burst.exchanges
          /\ burst'.signaling = burst.signaling /\ burst'.disposition = burst.disposition
      BY <1>3, <3>1, <3>2 DEF BurstRecords
    <3>4. PlayedFirst'
      BY <1>2, <2>1, <2>3, <3>3 DEF BurstInv, PlayedFirst
    <3>5. Paired(source')
      BY <1>6, <2>3 DEF Paired
    <3> QED BY <1>3, <1>5, <1>9, <2>1, <2>3, <3>3, <3>4, <3>5
  <2>4. ASSUME NEW d \in {"cancelled", "backend", "protocol"}, burst' = Fails(burst, d, "write"),
               source' = source
        PROVE  BurstInv'
    BY <1>3, <1>5, <1>8, <2>4
  <2> QED BY <1>13, <2>2, <2>3, <2>4 DEF WritesSilence
<1>14. CASE ClosesStream
  <2>1. burst.at = "close" /\ burst' = [burst EXCEPT !.at = "exchange"]
        /\ source' = CloseSource(source)
    BY <1>14 DEF ClosesStream
  <2>2. /\ burst' \in BurstRecords /\ burst'.at = "exchange" /\ burst'.kind = burst.kind
        /\ burst'.exchanges = burst.exchanges /\ burst'.packets = burst.packets
        /\ burst'.signaling = burst.signaling /\ burst'.disposition = burst.disposition
    BY <1>3, <1>11, <2>1
  <2>3. source' \in BurstSources /\ source'.state \in {"close_sent", "failed"} /\ Paired(source')
    BY <1>3, <2>1, BurstAsks
  <2>4. PlayedFirst'
    BY <2>1, <2>2 DEF BurstInv, PlayedFirst
  <2> QED BY <1>5, <1>9, <2>2, <2>3, <2>4
<1> QED BY <1>12, <1>13, <1>14

(* The channels are closed, or a close has failed. *)
LEMMA BurstFinishes ==
    ASSUME BurstInv, Finishes
    PROVE  BurstInv'
<1>1. /\ burst.at = "finish" /\ worker' = worker /\ signals' = signals /\ remote' = remote
      /\ source' = source
  BY DEF Finishes
<1>2. burst \in BurstRecords
  BY DEF BurstInv, BurstTypeOK
<1>3. "completed" \notin worker.events /\ "retryable" \notin worker.events
  BY <1>1 DEF BurstInv, BurstReported
<1>4. burst.exchanges = 0 => remote = "idle"
  BY DEF BurstInv, ToldSoFar
<1>5. FALSE \in BOOLEAN /\ "cleanup" \in Dispositions /\ "channels" \in BurstStages
  BY DEF Dispositions, BurstStages
<1>6. ASSUME burst' \in BurstRecords, burst'.at = "over", burst'.kind = burst.kind,
             burst'.exchanges = burst.exchanges, burst'.packets = burst.packets,
             burst'.disposition \in {burst.disposition, "cleanup"},
             burst'.signaling \/ burst'.media => burst'.disposition = "cleanup"
      PROVE  BurstInv'
  <2>1. BurstTypeOK'
    BY <1>1, <1>6 DEF BurstInv, BurstTypeOK
  <2>2. ChannelsHeld'
    BY <1>6 DEF ChannelsHeld, ActivePlaces
  <2>3. ToldSoFar'
    BY <1>1, <1>4, <1>6 DEF ToldSoFar, ActivePlaces
  <2>4. PlayedFirst'
    BY <1>6 DEF PlayedFirst, ActivePlaces
  <2>5. Succeeded'
    BY <1>1, <1>6 DEF BurstInv, Succeeded
  <2>6. BurstReported'
    BY <1>1, <1>3 DEF BurstReported
  <2> QED BY <2>1, <2>2, <2>3, <2>4, <2>5, <2>6 DEF BurstInv
<1>7. CASE burst' = [burst EXCEPT !.at = "over", !.signaling = FALSE, !.media = FALSE]
  <2>1. /\ burst' \in BurstRecords /\ burst'.at = "over" /\ burst'.kind = burst.kind
        /\ burst'.exchanges = burst.exchanges /\ burst'.packets = burst.packets
        /\ burst'.disposition = burst.disposition
        /\ burst'.signaling = FALSE /\ burst'.media = FALSE
    BY <1>2, <1>5, <1>7 DEF BurstRecords
  <2> QED BY <1>6, <2>1
<1>8. CASE burst' = [burst EXCEPT !.at = "over", !.disposition = "cleanup", !.stage = "channels"]
  <2>1. /\ burst' \in BurstRecords /\ burst'.at = "over" /\ burst'.kind = burst.kind
        /\ burst'.exchanges = burst.exchanges /\ burst'.packets = burst.packets
        /\ burst'.disposition = "cleanup"
    BY <1>2, <1>5, <1>8 DEF BurstRecords
  <2> QED BY <1>6, <2>1
<1> QED BY <1>7, <1>8 DEF Finishes

(* The process and the host: only a session that is over is reported. *)
LEMMA BurstWorks ==
    ASSUME BurstInv, WorkerSteps \/ HostAuthorizes \/ HostStops
    PROVE  BurstInv'
<1>1. burst' = burst /\ source' = source /\ remote' = remote
  BY DEF WorkerSteps, SignalsReady, Authorized, ReportsResult, WaitsForStop, AcknowledgesStop,
         HostAuthorizes, HostStops
<1>2. worker \in WorkerRecords /\ worker.events \subseteq Reports \cup {"ready", "stopped"}
  BY DEF BurstInv, BurstTypeOK, WorkerRecords
<1> DEFINE Done == burst.at = "over" /\ burst.disposition = "succeeded"
           Retried == burst.at = "over" /\ burst.exchanges = 0 /\ ~burst.signaling
<1>3. ASSUME worker' \in WorkerRecords, signals' \subseteq HostSignals,
             "completed" \in worker'.events => "completed" \in worker.events \/ Done,
             "retryable" \in worker'.events => "retryable" \in worker.events \/ Retried
      PROVE  BurstInv'
  <2>1. BurstTypeOK'
    BY <1>1, <1>3 DEF BurstInv, BurstTypeOK
  <2>2. ChannelsHeld' /\ PlayedFirst' /\ Succeeded'
    BY <1>1 DEF BurstInv, ChannelsHeld, PlayedFirst, Succeeded
  <2>3. ToldSoFar'
    BY <1>1 DEF BurstInv, ToldSoFar, Paired
  <2>4. burst.exchanges = 0 => remote = "idle"
    BY DEF BurstInv, ToldSoFar
  <2>5. BurstReported'
    BY <1>1, <1>3, <2>4 DEF BurstInv, BurstReported, Succeeded
  <2> QED BY <2>1, <2>2, <2>3, <2>5 DEF BurstInv
<1>4. burst.at = "over" /\ IsRetryable(burst) => Retried
  BY DEF IsRetryable
<1>5. burst.at = "over" /\ burst.disposition = "succeeded" => Done
  OBVIOUS
<1> HIDE DEF Done, Retried
<1>6. CASE HostAuthorizes \/ HostStops
  <2>1. worker' = worker
    BY <1>6 DEF HostAuthorizes, HostStops
  <2>2. signals' \subseteq HostSignals
    BY <1>6 DEF HostAuthorizes, HostStops, HostSignals, BurstInv, BurstTypeOK
  <2> QED BY <1>2, <1>3, <2>1, <2>2
<1>7. CASE WorkerSteps
  <2>1. signals' = signals /\ signals \subseteq HostSignals
    BY <1>7 DEF WorkerSteps, SignalsReady, Authorized, ReportsResult, WaitsForStop,
                AcknowledgesStop, BurstInv, BurstTypeOK
(* An event more, none of the two that matter; or none at all. *)
  <2>2. ASSUME NEW pc \in {"starts", "waits", "runs", "parked", "stops", "ended"}, NEW code \in Nat,
               NEW events \in SUBSET (Reports \cup {"ready", "stopped"}),
               worker' = [worker EXCEPT !.pc = pc, !.code = code, !.events = events]
        PROVE  worker' \in WorkerRecords /\ worker'.events = events
    BY <1>2, <2>2 DEF WorkerRecords
  <2>3. worker = [pc |-> worker.pc, events |-> worker.events, code |-> worker.code]
        /\ worker.pc \in {"starts", "waits", "runs", "parked", "stops", "ended"}
        /\ worker.code \in Nat
    BY <1>2 DEF WorkerRecords
  <2>4. ASSUME NEW pc \in {"starts", "waits", "runs", "parked", "stops", "ended"}, NEW code \in Nat,
               NEW added \in SUBSET {"ready", "stopped", "failed"}, NEW kept \in {{}, worker.events},
               worker' = [worker EXCEPT !.pc = pc, !.code = code, !.events = kept \cup added]
        PROVE  BurstInv'
    <3> DEFINE events == kept \cup added
    <3>1. events \in SUBSET (Reports \cup {"ready", "stopped"})
      BY <1>2 DEF Reports
    <3>2. worker' \in WorkerRecords /\ worker'.events = events
      BY <2>2, <2>4, <3>1
    <3>3. /\ "completed" \in events => "completed" \in worker.events
          /\ "retryable" \in events => "retryable" \in worker.events
      OBVIOUS
    <3> HIDE DEF events
    <3> QED BY <1>3, <2>1, <3>2, <3>3
  <2>5. ASSUME NEW pc \in {"starts", "waits", "runs", "parked", "stops", "ended"},
               worker' = [worker EXCEPT !.pc = pc]
        PROVE  BurstInv'
    <3>1. worker' \in WorkerRecords /\ worker'.events = worker.events
      BY <1>2, <2>5 DEF WorkerRecords
    <3> QED BY <1>3, <2>1, <3>1
  <2>6. ASSUME NEW pc \in {"ended"}, NEW code \in Nat,
               worker' = [worker EXCEPT !.pc = pc, !.code = code]
        PROVE  BurstInv'
    <3>1. worker' \in WorkerRecords /\ worker'.events = worker.events
      BY <1>2, <2>6 DEF WorkerRecords
    <3> QED BY <1>3, <2>1, <3>1
  <2>7. CASE SignalsReady
    <3>1. CASE worker' = [worker EXCEPT !.pc = "waits", !.events = {"ready"}]
      <4>1. worker' = [worker EXCEPT !.pc = "waits", !.code = worker.code, !.events = {} \cup {"ready"}]
        BY <1>2, <3>1 DEF WorkerRecords
      <4> QED BY <2>3, <2>4, <4>1
    <3>2. CASE worker' = [worker EXCEPT !.pc = "ended", !.code = 4]
      BY <2>6, <3>2
    <3> QED BY <2>7, <3>1, <3>2 DEF SignalsReady
  <2>8. CASE Authorized
    <3>1. CASE \E pc \in {"stops", "runs"} : worker' = [worker EXCEPT !.pc = pc]
      BY <2>5, <3>1
    <3>2. CASE worker' = [worker EXCEPT !.pc = "ended", !.code = 5]
      BY <2>6, <3>2
    <3> QED BY <2>8, <3>1, <3>2 DEF Authorized
  <2>9. CASE WaitsForStop
    <3>1. CASE worker' = [worker EXCEPT !.pc = "stops"]
      BY <2>5, <3>1
    <3>2. CASE worker' = [worker EXCEPT !.pc = "ended", !.code = 9]
      BY <2>6, <3>2
    <3> QED BY <2>9, <3>1, <3>2 DEF WaitsForStop
  <2>10. CASE AcknowledgesStop
    <3>1. CASE worker' = [worker EXCEPT !.pc = "ended", !.code = 10]
      BY <2>6, <3>1
    <3>2. CASE worker' = [worker EXCEPT !.pc = "ended", !.events = @ \cup {"stopped"}]
      <4>1. worker' = [worker EXCEPT !.pc = "ended", !.code = worker.code,
                                     !.events = worker.events \cup {"stopped"}]
        BY <1>2, <3>2 DEF WorkerRecords
      <4> QED BY <2>3, <2>4, <4>1
    <3> QED BY <2>10, <3>1, <3>2 DEF AcknowledgesStop
  <2>11. CASE ReportsResult
    <3>1. burst.at = "over"
      BY <2>11 DEF ReportsResult
    <3> DEFINE report == CASE burst.disposition = "succeeded" -> {"completed"}
                           [] burst.disposition = "cancelled" -> {}
                           [] OTHER -> IF IsRetryable(burst) THEN {"retryable"} ELSE {"failed"}
    <3>2. /\ report \subseteq Reports
          /\ "completed" \in report => burst.disposition = "succeeded"
          /\ "retryable" \in report => IsRetryable(burst)
      BY DEF Reports
    <3>3. \/ worker' = [worker EXCEPT !.pc = "parked", !.events = @ \cup report]
          \/ \E code \in {6, 7} :
                worker' = [worker EXCEPT !.pc = "parked", !.code = code, !.events = @ \cup {"failed"}]
          \/ worker' = [worker EXCEPT !.pc = "ended", !.code = 8]
      BY <2>11 DEF ReportsResult
    <3> HIDE DEF report
    <3>4. CASE worker' = [worker EXCEPT !.pc = "parked", !.events = @ \cup report]
      <4> DEFINE events == worker.events \cup report
      <4>1. events \in SUBSET (Reports \cup {"ready", "stopped"})
        BY <1>2, <3>2
      <4>2. worker' = [worker EXCEPT !.pc = "parked", !.code = worker.code, !.events = events]
        BY <1>2, <3>4 DEF WorkerRecords
      <4>3. /\ "completed" \in events => "completed" \in worker.events \/ "completed" \in report
            /\ "retryable" \in events => "retryable" \in worker.events \/ "retryable" \in report
        OBVIOUS
      <4> HIDE DEF events
      <4>4. worker' \in WorkerRecords /\ worker'.events = events
        BY <2>2, <2>3, <4>1, <4>2
      <4>5. "completed" \in events => "completed" \in worker.events \/ Done
        BY <1>5, <3>1, <3>2, <4>3
      <4>6. "retryable" \in events => "retryable" \in worker.events \/ Retried
        BY <1>4, <3>1, <3>2, <4>3
      <4> QED BY <1>3, <2>1, <4>4, <4>5, <4>6
    <3>5. ASSUME NEW code \in {6, 7},
                 worker' = [worker EXCEPT !.pc = "parked", !.code = code, !.events = @ \cup {"failed"}]
          PROVE  BurstInv'
      <4>1. worker' = [worker EXCEPT !.pc = "parked", !.code = code,
                                     !.events = worker.events \cup {"failed"}]
        BY <3>5
      <4>2. code \in Nat
        OBVIOUS
      <4> QED BY <2>4, <4>1, <4>2
    <3>6. CASE worker' = [worker EXCEPT !.pc = "ended", !.code = 8]
      BY <2>6, <3>6
    <3> QED BY <3>3, <3>4, <3>5, <3>6
  <2> QED BY <1>7, <2>7, <2>8, <2>9, <2>10, <2>11 DEF WorkerSteps
<1> QED BY <1>6, <1>7

(* Every step of a candidate worker keeps its invariant. *)
LEMMA BurstInvHolds == BurstSpec => []BurstInv
<1>1. BurstInit => BurstInv
  <2> SUFFICES ASSUME BurstInit PROVE BurstInv
    OBVIOUS
  <2>1. PICK kind \in Kinds : burst = NoBurst(kind)
    BY DEF BurstInit
  <2>2. /\ burst \in BurstRecords /\ burst.at = "rest" /\ burst.exchanges = 0
        /\ burst.disposition = "none" /\ burst.signaling = FALSE /\ burst.media = FALSE
    BY <2>1 DEF NoBurst, BurstRecords, BurstStages, Dispositions
  <2>3. /\ worker \in WorkerRecords /\ worker.events = {}
    BY DEF BurstInit, WorkerRecords
  <2>4. /\ source \in BurstSources /\ source.state = "idle"
    <3>1. <<>> \in Seq(SinkKinds) /\ "idle" \in AvdtpStates /\ "discover" \in Signals
      BY DEF AvdtpStates, Signals
    <3> QED BY <3>1 DEF BurstInit, NewSource, BurstSources
  <2>5. remote = "idle" /\ signals = {}
    BY DEF BurstInit
  <2>6. BurstTypeOK
    BY <2>2, <2>3, <2>4, <2>5 DEF BurstTypeOK
  <2>7. ChannelsHeld /\ ToldSoFar /\ PlayedFirst /\ Succeeded /\ BurstReported
    BY <2>2, <2>3, <2>4, <2>5
       DEF ChannelsHeld, ToldSoFar, PlayedFirst, Succeeded, BurstReported, Paired, ActivePlaces
  <2> QED BY <2>6, <2>7 DEF BurstInv
<1>2. BurstInv /\ [BurstNext]_burstVars => BurstInv'
  <2> SUFFICES ASSUME BurstInv, [BurstNext]_burstVars PROVE BurstInv'
    OBVIOUS
  <2>1. CASE UNCHANGED burstVars
    BY <2>1 DEF burstVars, BurstInv, BurstTypeOK, ChannelsHeld, ToldSoFar, PlayedFirst, Succeeded,
                BurstReported, Paired
  <2>2. CASE SessionSteps
    BY <2>2, BurstOpens, BurstTakes, BurstPlays, BurstFinishes DEF SessionSteps
  <2>3. CASE WorkerSteps \/ HostAuthorizes \/ HostStops
    BY <2>3, BurstWorks
  <2> QED BY <2>1, <2>2, <2>3 DEF BurstNext
<1> QED BY <1>1, <1>2, PTL DEF BurstSpec

(* A candidate worker ends as it reports. *)
LEMMA BurstEndsWell == BurstSpec => []BurstEndsClean
<1>1. BurstInv => BurstEndsClean
  <2> SUFFICES ASSUME BurstInv PROVE BurstEndsClean
    OBVIOUS
  <2>1. signals \subseteq HostSignals /\ worker.events \subseteq Reports \cup {"ready", "stopped"}
    BY DEF BurstInv, BurstTypeOK, WorkerRecords
  <2> QED BY <2>1 DEF BurstInv, ChannelsHeld, BurstReported, BurstEndsClean
<1> QED BY <1>1, BurstInvHolds, PTL

---------------------------------------------------------------------------
(* The media process of the installed agent.  Until an exchange goes       *)
(* unanswered, at most one command or answer is under way, and it is the   *)
(* one the process waits for; afterwards it no longer reports success.     *)

ProbeSpec == ProbeInit /\ [][ProbeNext]_probeVars

Queries == {"discover", "capabilities", "legacy"}
Setting == {"set", "open", "start"}
Releasing == {"suspend", "close", "abort"}
Exchanging == {"writes", "reads", "unanswered"}
Streams == {"started", "encoder", "stream", "feeds", "plays"}
ProbePlaces == Exchanging \cup Streams \cup
    {"starts", "opens", "holds", "source", "format", "chooses", "media", "cleanup", "released",
     "closes", "over"}
Sinks == {"ldac", "other", "invalid"}
SpeakerStates == {"idle", "configured", "open", "streaming"}

ProbePackets ==
    [type : {"command", "accept", "reject"}, label : Nat,
     signal : Queries \cup Setting \cup Releasing, body : Seq(Sinks)]
ProbeRecords ==
    [pc : ProbePlaces, mode : Modes, opens : Nat, asks : Queries \cup Setting \cup Releasing,
     label : Nat, peers : Nat, sinks : Seq(Sinks), configured : BOOLEAN, started : BOOLEAN,
     result : BOOLEAN, available : BOOLEAN, reporting : BOOLEAN, sent : Nat, code : Nat]
SpeakerRecords ==
    [link : BOOLEAN, state : SpeakerStates, sinks : Seq(Sinks), hears : Seq(ProbePackets),
     says : Seq(ProbePackets), commands : Nat]
TapRecords ==
    [run : BOOLEAN, link : {"unknown", "connecting", "connected", "stopping", "disconnected"}]

ProbeTypeOK == probe \in ProbeRecords /\ speaker \in SpeakerRecords /\ tap \in TapRecords

HeardCommands == {i \in 1..Len(speaker.hears) : speaker.hears[i].type = "command"}
SaidAnswers == {i \in 1..Len(speaker.says) : speaker.says[i].type # "command"}

(* What the process has reached by now. *)
ProbeProgress ==
    /\ probe.pc \in {"starts", "opens", "holds"} => probe.asks \in Queries /\ ~probe.available
    /\ probe.pc \in {"source", "format", "chooses"} => probe.asks \in Queries
    /\ probe.pc \in {"starts", "opens", "source", "format", "chooses", "media"} \cup Streams => ~probe.result
    /\ probe.pc \in {"source", "format", "chooses", "media"} \cup Streams => probe.asks \notin Releasing
    /\ probe.pc \in Exchanging /\ probe.asks \in Queries => ~probe.available
    /\ probe.pc \in Exchanging /\ probe.result => probe.asks \in Releasing
    /\ probe.pc \in Exchanging /\ probe.asks \in {"open", "start"} => probe.configured
    /\ probe.pc = "media" \/ probe.started => probe.configured
    /\ probe.pc \in Streams => probe.started
    /\ probe.asks = "discover" => probe.pc \in Exchanging \cup {"starts", "opens", "closes", "over"}
    /\ probe.pc = "cleanup" /\ probe.result => probe.configured

(* The process may still end well. *)
Sure ==
    \/ probe.result
    \/ /\ probe.pc \notin {"cleanup", "released", "closes", "over"}
       /\ probe.asks \notin Releasing

(* What is under way is the one command that waits, or its answer. *)
AtMostOne ==
    Sure =>
        /\ probe.pc \notin {"reads", "unanswered"} => HeardCommands = {} /\ SaidAnswers = {}
        /\ HeardCommands = {} \/ SaidAnswers = {}
        /\ \A i, j \in HeardCommands : i = j
        /\ \A i, j \in SaidAnswers : i = j
        /\ \A i \in HeardCommands : speaker.hears[i].signal = probe.asks
        /\ \A i \in SaidAnswers : speaker.says[i].signal = probe.asks

(* The headset that has accepted the end of the stream has none. *)
TakenBack ==
    Sure =>
        /\ probe.asks \in Queries => speaker.state = "idle"
        /\ \A i \in SaidAnswers :
              speaker.says[i].type = "accept" /\ speaker.says[i].signal \in {"close", "abort"}
                => speaker.state = "idle"
        /\ probe.pc \in {"released", "closes"} => speaker.state = "idle"

(* Sinks are asked for their capabilities when there are any. *)
SinksAsked ==
    probe.sinks = <<>> =>
        probe.asks = "discover" /\ \A i \in HeardCommands : speaker.hears[i].signal = "discover"

EndpointTold == probe.pc = "closes" /\ probe.available => tap.link = "disconnected"

ProbeInv == ProbeTypeOK /\ ProbeProgress /\ AtMostOne /\ TakenBack /\ SinksAsked /\ EndpointTold

(* A packet more at the end of a queue, or one less at its front. *)
LEMMA PacketAppended ==
    ASSUME NEW S, NEW q \in Seq(S), NEW e \in S
    PROVE  /\ Append(q, e) \in Seq(S) /\ Len(Append(q, e)) = Len(q) + 1 /\ Len(q) \in Nat
           /\ \A i \in 1..Len(q) : Append(q, e)[i] = q[i]
           /\ Append(q, e)[Len(q) + 1] = e
OBVIOUS

(* The front of a queue that is taken, and what is left of it. *)
LEMMA PacketTaken ==
    ASSUME NEW S, NEW q \in Seq(S), q # <<>>
    PROVE  /\ Tail(q) \in Seq(S) /\ Len(Tail(q)) = Len(q) - 1 /\ Len(q) \in Nat \ {0}
           /\ \A i \in 1..Len(q) - 1 : Tail(q)[i] = q[i + 1]
           /\ Head(q) = q[1] /\ Head(q) \in S
OBVIOUS

(* Of more than one sink some are left. *)
LEMMA SinksLeft ==
    ASSUME NEW q \in Seq(Sinks), Len(q) > 1
    PROVE  Tail(q) \in Seq(Sinks) /\ Tail(q) # <<>>
<1> HIDE DEF Sinks
<1>1. q # <<>>
  OBVIOUS
<1>2. Tail(q) \in Seq(Sinks) /\ Len(Tail(q)) = Len(q) - 1 /\ Len(q) \in Nat
  BY <1>1, PacketTaken
<1>3. Len(Tail(q)) # 0
  BY <1>2
<1>4. Tail(q) # <<>>
  <2> DEFINE t == Tail(q)
  <2>1. Len(t) # 0
    BY <1>3
  <2> HIDE DEF t
  <2>2. t = <<>> => Len(t) = 0
    OBVIOUS
  <2> QED BY <2>1, <2>2 DEF t
<1> QED BY <1>2, <1>4

(* A step that moves no packet: whatever is under way stays so. *)
LEMMA ProbeTurns ==
    ASSUME ProbeInv, speaker' \in SpeakerRecords, speaker'.hears = speaker.hears,
           speaker'.says = speaker.says, speaker'.state \in {speaker.state, "idle"},
           probe' \in ProbeRecords, tap' \in TapRecords, ProbeProgress', EndpointTold',
           probe'.sinks = <<>> => probe.sinks = <<>> /\ probe'.asks = probe.asks,
           Sure' => /\ Sure
                    /\ probe'.pc \in {"reads", "unanswered"} \/ probe.pc \notin {"reads", "unanswered"}
                    /\ probe'.asks = probe.asks \/ probe.pc \notin {"reads", "unanswered"}
                    /\ probe'.asks \in Queries => probe.asks \in Queries
                    /\ probe'.pc \in {"released", "closes"} => speaker'.state = "idle"
    PROVE  ProbeInv'
<1>1. HeardCommands' = HeardCommands /\ SaidAnswers' = SaidAnswers
  BY DEF HeardCommands, SaidAnswers
<1>2. ProbeTypeOK'
  BY DEF ProbeInv, ProbeTypeOK
<1>3. AtMostOne'
  BY <1>1 DEF ProbeInv, AtMostOne
<1>4. TakenBack'
  BY <1>1 DEF ProbeInv, TakenBack
<1>5. SinksAsked'
  BY <1>1 DEF ProbeInv, SinksAsked
<1> QED BY <1>2, <1>3, <1>4, <1>5 DEF ProbeInv

(* A step of the process alone. *)
LEMMA ProbeMoves ==
    ASSUME ProbeInv, speaker' = speaker, probe' \in ProbeRecords, tap' \in TapRecords,
           ProbeProgress', EndpointTold',
           probe'.sinks = <<>> => probe.sinks = <<>> /\ probe'.asks = probe.asks,
           Sure' => /\ Sure
                    /\ probe'.pc \in {"reads", "unanswered"} \/ probe.pc \notin {"reads", "unanswered"}
                    /\ probe'.asks = probe.asks \/ probe.pc \notin {"reads", "unanswered"}
                    /\ probe'.asks \in Queries => probe.asks \in Queries
                    /\ probe'.pc \in {"released", "closes"} => speaker.state = "idle"
    PROVE  ProbeInv'
<1>1. speaker' \in SpeakerRecords /\ speaker'.hears = speaker.hears /\ speaker'.says = speaker.says
      /\ speaker'.state = speaker.state
  BY DEF ProbeInv, ProbeTypeOK
<1> QED BY <1>1, ProbeTurns

(* The steps of the process that neither write nor read a packet. *)
LEMMA ProbeWorks ==
    ASSUME ProbeInv,
           \/ FindsInterface \/ HoldsChannel \/ OpensSource \/ AwaitsFormat \/ Chooses \/ OpensMediaChannel
           \/ ReportsConnected \/ CreatesEncoder \/ LooksAtStop \/ FeedsPcm \/ PlaysPacket
           \/ Cleanup \/ ReportsDisconnected
    PROVE  ProbeInv'
<1>1. /\ probe \in ProbeRecords /\ tap \in TapRecords /\ probe.pc \in ProbePlaces
      /\ probe.result \in BOOLEAN /\ probe.sent \in Nat
      /\ ProbeProgress /\ EndpointTold /\ TakenBack
  BY DEF ProbeInv, ProbeTypeOK, ProbeRecords
<1>2. ASSUME NEW state \in {"connecting", "connected", "stopping", "disconnected"}, ReportsLink(state)
      PROVE  tap' \in TapRecords /\ tap'.link = state
  BY <1>1, <1>2 DEF ReportsLink, TapRecords
<1> DEFINE Moved(pc, result) ==
        /\ probe' \in ProbeRecords /\ probe'.pc = pc /\ probe'.result = result
        /\ probe'.asks = probe.asks /\ probe'.sinks = probe.sinks
        /\ probe'.configured = probe.configured /\ probe'.started = probe.started
        /\ probe'.available = probe.available
(* A step within a phase. *)
<1>3. ASSUME NEW pc \in ProbePlaces, GoesTo(pc) PROVE Moved(pc, probe.result)
  BY <1>1, <1>3 DEF GoesTo, ProbeRecords
<1>4. CASE FindsInterface
  <2>1. probe.pc = "starts" /\ speaker' = speaker /\ tap' = tap
    BY <1>4 DEF FindsInterface, OnlyProbe
  <2>2. CASE GoesTo("opens")
    <3>1. Moved("opens", probe.result)
      BY <1>3, <2>2 DEF ProbePlaces
    <3> QED BY <1>1, <2>1, <3>1, ProbeMoves
            DEF ProbeProgress, EndpointTold, Sure, Exchanging, Streams
  <2>3. ASSUME NEW code \in {1, 3, 4}, probe' = [probe EXCEPT !.pc = "over", !.code = code]
        PROVE  ProbeInv'
    <3>1. Moved("over", probe.result)
      <4>1. code \in Nat
        OBVIOUS
      <4> QED BY <1>1, <2>3, <4>1 DEF ProbeRecords, ProbePlaces
    <3> QED BY <1>1, <2>1, <3>1, ProbeMoves
            DEF ProbeProgress, EndpointTold, Sure, Exchanging, Streams
  <2> QED BY <1>4, <2>2, <2>3 DEF FindsInterface
<1>5. CASE HoldsChannel
  <2>1. probe.pc = "holds" /\ speaker' = speaker /\ tap' = tap
    BY <1>5 DEF HoldsChannel, OnlyProbe
  <2>2. PICK result \in BOOLEAN : Moved("closes", result) /\ (result => probe.result)
    <3>1. CASE GoesTo("closes")
      BY <1>1, <1>3, <3>1 DEF ProbePlaces
    <3>2. CASE probe' = [probe EXCEPT !.pc = "closes", !.result = FALSE]
      BY <1>1, <3>2 DEF ProbeRecords, ProbePlaces
    <3> QED BY <1>5, <3>1, <3>2 DEF HoldsChannel
  <2>3. ~probe.available /\ probe.asks \in Queries
    BY <1>1, <2>1 DEF ProbeProgress
  <2> QED BY <1>1, <2>1, <2>2, <2>3, ProbeMoves
          DEF ProbeProgress, EndpointTold, TakenBack, Sure, Exchanging, Streams
<1>6. CASE OpensSource
  <2>1. probe.pc = "source" /\ speaker' = speaker /\ tap' = tap
    BY <1>6 DEF OpensSource, OnlyProbe
  <2>2. \E pc \in {"cleanup", "format", "chooses"} : Moved(pc, probe.result)
    BY <1>3, <1>6 DEF OpensSource, ProbePlaces
  <2> QED BY <1>1, <2>1, <2>2, ProbeMoves
          DEF ProbeProgress, EndpointTold, Sure, Exchanging, Streams
<1>7. CASE AwaitsFormat
  <2>1. probe.pc = "format" /\ speaker' = speaker
    BY <1>7 DEF AwaitsFormat
  <2>2. CASE GoesTo("cleanup") /\ tap' = tap
    <3>1. Moved("cleanup", probe.result)
      BY <1>3, <2>2 DEF ProbePlaces
    <3> QED BY <1>1, <2>1, <2>2, <3>1, ProbeMoves
            DEF ProbeProgress, EndpointTold, Sure, Exchanging, Streams
  <2>3. ASSUME ReportsLink("connecting"), NEW heard \in BOOLEAN,
               probe' = [probe EXCEPT !.pc = "chooses", !.available = heard, !.reporting = heard]
        PROVE  ProbeInv'
    <3>1. tap' \in TapRecords
      BY <1>2, <2>3
    <3>2. /\ probe' \in ProbeRecords /\ probe'.pc = "chooses" /\ probe'.result = probe.result
          /\ probe'.asks = probe.asks /\ probe'.sinks = probe.sinks
          /\ probe'.configured = probe.configured /\ probe'.started = probe.started
      BY <1>1, <2>3 DEF ProbeRecords, ProbePlaces
    <3> QED BY <1>1, <2>1, <3>1, <3>2, ProbeMoves
            DEF ProbeProgress, EndpointTold, Sure, Exchanging, Streams
  <2> QED BY <1>7, <2>2, <2>3 DEF AwaitsFormat
(* The next command is asked for from where nothing is under way. *)
<1>8. ASSUME NEW signal \in Setting \cup Releasing, probe' = Asking(probe, signal)
      PROVE  /\ probe' \in ProbeRecords /\ probe'.pc = "writes" /\ probe'.result = probe.result
             /\ probe'.asks = signal /\ probe'.sinks = probe.sinks
             /\ probe'.configured = probe.configured /\ probe'.started = probe.started
             /\ probe'.available = probe.available
  BY <1>1, <1>8 DEF Asking, ProbeRecords, ProbePlaces, Exchanging
<1>9. CASE Chooses
  <2>1. probe.pc = "chooses" /\ speaker' = speaker /\ tap' = tap
    BY <1>9 DEF Chooses, OnlyProbe
  <2>2. probe.sinks # <<>>
    BY <1>1, <2>1 DEF ProbeProgress, ProbeInv, SinksAsked, Exchanging
  <2>3. CASE probe' = Asking(probe, "set")
    <3>1. "set" \in Setting /\ "set" \notin Queries \cup Releasing
      BY DEF Setting, Queries, Releasing
    <3> QED BY <1>1, <1>8, <2>1, <2>2, <2>3, <3>1, ProbeMoves
            DEF ProbeProgress, EndpointTold, Sure, Exchanging, Streams
  <2>4. CASE GoesTo("cleanup")
    <3>1. Moved("cleanup", probe.result)
      BY <1>3, <2>4 DEF ProbePlaces
    <3> QED BY <1>1, <2>1, <2>2, <3>1, ProbeMoves
            DEF ProbeProgress, EndpointTold, Sure, Exchanging, Streams
  <2> QED BY <1>9, <2>3, <2>4 DEF Chooses, GoesTo
<1>10. CASE OpensMediaChannel
  <2>1. probe.pc = "media" /\ speaker' = speaker /\ tap' = tap
    BY <1>10 DEF OpensMediaChannel, OnlyProbe
  <2>2. probe.sinks # <<>>
    BY <1>1, <2>1 DEF ProbeProgress, ProbeInv, SinksAsked, Exchanging
  <2>3. CASE probe' = Asking(probe, "start")
    <3>1. "start" \in Setting /\ "start" \notin Queries \cup Releasing
      BY DEF Setting, Queries, Releasing
    <3> QED BY <1>1, <1>8, <2>1, <2>2, <2>3, <3>1, ProbeMoves
            DEF ProbeProgress, EndpointTold, Sure, Exchanging, Streams
  <2>4. CASE GoesTo("cleanup")
    <3>1. Moved("cleanup", probe.result)
      BY <1>3, <2>4 DEF ProbePlaces
    <3> QED BY <1>1, <2>1, <2>2, <3>1, ProbeMoves
            DEF ProbeProgress, EndpointTold, Sure, Exchanging, Streams
  <2> QED BY <1>10, <2>3, <2>4 DEF OpensMediaChannel, GoesTo
(* A step of the stream, and its end. *)
<1>11. ASSUME probe.pc \in Streams, speaker' = speaker, tap' \in TapRecords,
              NEW pc \in Streams \cup {"cleanup"}, NEW result \in BOOLEAN,
              Moved(pc, result), result => pc = "cleanup"
       PROVE  ProbeInv'
  <2>1. probe.asks \notin Releasing /\ probe.started /\ probe.configured /\ ~probe.result
    BY <1>1, <1>11 DEF ProbeProgress
  <2>2. probe.pc \notin {"cleanup", "released", "closes", "over", "reads", "unanswered"}
    BY <1>11 DEF Streams
  <2>3. ProbeProgress'
    BY <1>1, <1>11, <2>1, <2>2 DEF ProbeProgress, Exchanging, Streams
  <2>4. EndpointTold'
    BY <1>11 DEF EndpointTold, Streams
  <2>5. Sure
    BY <2>1, <2>2 DEF Sure
  <2> QED BY <1>11, <2>2, <2>3, <2>4, <2>5, ProbeMoves DEF Streams
<1>12. CASE ReportsConnected
  <2>1. probe.pc = "started" /\ speaker' = speaker
    BY <1>12 DEF ReportsConnected
  <2>2. tap' \in TapRecords
    BY <1>1, <1>2, <1>12 DEF ReportsConnected
  <2>3. Moved("cleanup", TRUE) \/ Moved("encoder", probe.result)
    <3>1. \/ probe' = [probe EXCEPT !.pc = "cleanup", !.result = TRUE]
          \/ \E reporting \in BOOLEAN : probe' = [probe EXCEPT !.pc = "encoder", !.reporting = reporting]
      <4>1. FALSE \in BOOLEAN
        OBVIOUS
      <4>2. CASE probe.mode = "empty"
        BY <1>12, <4>2 DEF ReportsConnected
      <4>3. CASE probe.mode # "empty" /\ probe.reporting
        BY <1>12, <4>3 DEF ReportsConnected
      <4>4. CASE probe.mode # "empty" /\ ~probe.reporting
        <5>1. probe' = [probe EXCEPT !.pc = "encoder", !.reporting = FALSE]
          BY <1>12, <4>4 DEF ReportsConnected
        <5> QED BY <4>1, <5>1
      <4> QED BY <4>2, <4>3, <4>4
    <3>2. ASSUME probe' = [probe EXCEPT !.pc = "cleanup", !.result = TRUE] PROVE Moved("cleanup", TRUE)
      BY <1>1, <3>2 DEF ProbeRecords, ProbePlaces
    <3>3. ASSUME NEW reporting \in BOOLEAN,
                 probe' = [probe EXCEPT !.pc = "encoder", !.reporting = reporting]
          PROVE  Moved("encoder", probe.result)
      BY <1>1, <3>3 DEF ProbeRecords, ProbePlaces, Streams
    <3> HIDE DEF Moved
    <3> QED BY <3>1, <3>2, <3>3
  <2>4. ~probe.result
    BY <1>1, <2>1 DEF ProbeProgress, Streams
  <2> QED BY <1>1, <1>11, <2>1, <2>2, <2>3, <2>4 DEF Streams
<1>13. ASSUME probe' = EndsWell PROVE Moved("cleanup", TRUE)
  BY <1>1, <1>13 DEF EndsWell, ProbeRecords, ProbePlaces
<1>14. ASSUME probe' = EndsBadly PROVE Moved("cleanup", probe.result)
  BY <1>1, <1>14 DEF EndsBadly, ProbeRecords, ProbePlaces
<1>15. CASE CreatesEncoder \/ LooksAtStop \/ FeedsPcm
  <2>1. probe.pc \in Streams /\ speaker' = speaker /\ tap' = tap
    BY <1>15 DEF CreatesEncoder, LooksAtStop, FeedsPcm, OnlyProbe, Streams
  <2>2. probe' \in {EndsWell, EndsBadly} \cup {[probe EXCEPT !.pc = pc] : pc \in {"stream", "feeds", "plays"}}
    BY <1>15 DEF CreatesEncoder, LooksAtStop, FeedsPcm
  <2>3. \/ Moved("cleanup", TRUE) \/ Moved("cleanup", probe.result)
        \/ \E pc \in {"stream", "feeds", "plays"} : Moved(pc, probe.result)
    BY <1>3, <1>13, <1>14, <2>2 DEF GoesTo, ProbePlaces, Streams
  <2>4. ~probe.result
    BY <1>1, <2>1 DEF ProbeProgress, Streams
  <2> QED BY <1>1, <1>11, <2>1, <2>3, <2>4 DEF Streams
<1>16. CASE PlaysPacket
  <2>1. probe.pc = "plays" /\ speaker' = speaker
    BY <1>16 DEF PlaysPacket
  <2>2. tap' \in TapRecords
    BY <1>1, <1>2, <1>16 DEF PlaysPacket
  <2>3. Moved("cleanup", TRUE) \/ Moved("cleanup", probe.result) \/ Moved("stream", probe.result)
    <3>1. CASE probe' = EndsBadly
      BY <1>14, <3>1
    <3>2. CASE probe' = IF probe.sent + 1 < MaxPackets THEN [probe EXCEPT !.pc = "stream", !.sent = @ + 1]
                        ELSE EndsWell
      <4>1. CASE probe' = EndsWell
        BY <1>13, <4>1
      <4>2. CASE probe' = [probe EXCEPT !.pc = "stream", !.sent = @ + 1]
        <5>1. probe.sent + 1 \in Nat
          BY <1>1
        <5>2. probe' = [probe EXCEPT !.pc = "stream", !.sent = probe.sent + 1]
          BY <4>2
        <5>3. Moved("stream", probe.result)
          BY <1>1, <5>1, <5>2 DEF ProbeRecords, ProbePlaces, Streams
        <5> QED BY <5>3
      <4> QED BY <3>2, <4>1, <4>2
    <3>3. CASE GoesTo("stream")
      BY <1>3, <3>3 DEF ProbePlaces, Streams
    <3>4. ASSUME NEW ok \in BOOLEAN, NEW reporting \in BOOLEAN,
                 probe' = [(IF ok THEN probe ELSE EndsBadly) EXCEPT
                              !.pc = IF ok THEN "stream" ELSE @, !.reporting = reporting]
          PROVE  Moved("cleanup", probe.result) \/ Moved("stream", probe.result)
      <4>1. CASE ok
        <5>1. probe' = [probe EXCEPT !.pc = "stream", !.reporting = reporting]
          BY <3>4, <4>1
        <5> QED BY <1>1, <5>1 DEF ProbeRecords, ProbePlaces, Streams
      <4>2. CASE ~ok
        <5>1. probe' = [EndsBadly EXCEPT !.pc = @, !.reporting = reporting]
          BY <3>4, <4>2
        <5> QED BY <1>1, <5>1 DEF EndsBadly, ProbeRecords, ProbePlaces
      <4> QED BY <4>1, <4>2
    <3> DEFINE Reported(ok, reporting) ==
                 probe' = [(IF ok THEN probe ELSE EndsBadly) EXCEPT
                              !.pc = IF ok THEN "stream" ELSE @, !.reporting = reporting]
    <3>5. ASSUME NEW ok \in BOOLEAN, NEW reporting \in BOOLEAN, Reported(ok, reporting)
          PROVE  Moved("cleanup", probe.result) \/ Moved("stream", probe.result)
      BY <3>4, <3>5
    <3>6. \/ probe' = EndsBadly
          \/ probe' = IF probe.sent + 1 < MaxPackets THEN [probe EXCEPT !.pc = "stream", !.sent = @ + 1]
                      ELSE EndsWell
          \/ GoesTo("stream")
          \/ \E ok \in BOOLEAN, reporting \in BOOLEAN : Reported(ok, reporting)
      <4>1. CASE probe.reporting
        BY <1>16, <4>1 DEF PlaysPacket
      <4>2. CASE ~probe.reporting
        <5>1. \/ probe' = EndsBadly
              \/ probe' = IF probe.sent + 1 < MaxPackets THEN [probe EXCEPT !.pc = "stream", !.sent = @ + 1]
                          ELSE EndsWell
              \/ GoesTo("stream")
              \/ \E ok \in BOOLEAN : Reported(ok, FALSE)
          BY <1>16, <4>2 DEF PlaysPacket
        <5>2. FALSE \in BOOLEAN
          OBVIOUS
        <5> HIDE DEF Reported
        <5> QED BY <5>1, <5>2
      <4> QED BY <4>1, <4>2
    <3> HIDE DEF Reported, Moved
    <3> QED BY <3>1, <3>2, <3>3, <3>5, <3>6
  <2>4. ~probe.result
    BY <1>1, <2>1 DEF ProbeProgress, Streams
  <2> QED BY <1>1, <1>11, <2>1, <2>2, <2>3, <2>4 DEF Streams
<1>17. CASE Cleanup
  <2>1. probe.pc = "cleanup" /\ speaker' = speaker
    BY <1>17 DEF Cleanup
  <2>2. tap' \in TapRecords
    BY <1>1, <1>2, <1>17 DEF Cleanup
  <2>3. probe.sinks # <<>>
    BY <1>1, <2>1 DEF ProbeProgress, ProbeInv, SinksAsked, Exchanging
  <2>4. CASE ~probe.configured
    <3>1. Moved("released", probe.result)
      BY <1>3, <1>17, <2>4 DEF Cleanup, GoesTo, ProbePlaces
    <3>2. ~probe.result
      BY <1>1, <2>1, <2>4 DEF ProbeProgress
    <3> QED BY <1>1, <2>1, <2>2, <2>3, <3>1, <3>2, ProbeMoves
            DEF ProbeProgress, EndpointTold, Sure, Exchanging, Streams
  <2>5. CASE probe.configured
    <3>1. PICK signal \in {"suspend", "abort"} : probe' = Asking(probe, signal)
      BY <1>17, <2>5 DEF Cleanup
    <3>2. signal \in Releasing /\ signal \notin Queries \cup Setting
      BY DEF Releasing, Queries, Setting
    <3> QED BY <1>1, <1>8, <2>1, <2>2, <2>3, <2>5, <3>1, <3>2, ProbeMoves
            DEF ProbeProgress, EndpointTold, Sure, Exchanging, Streams
  <2> QED BY <2>4, <2>5
<1>18. CASE ReportsDisconnected
  <2>1. probe.pc = "released" /\ speaker' = speaker /\ Moved("closes", probe.result)
    BY <1>3, <1>18 DEF ReportsDisconnected, ProbePlaces
  <2>2. tap' \in TapRecords /\ (probe.available => tap'.link = "disconnected")
    BY <1>1, <1>2, <1>18 DEF ReportsDisconnected
  <2>3. probe.result => speaker.state = "idle"
    BY <1>1, <2>1 DEF TakenBack, Sure
  <2> QED BY <1>1, <2>1, <2>2, <2>3, ProbeMoves
          DEF ProbeProgress, EndpointTold, Sure, Exchanging, Streams
<1> QED BY <1>4, <1>5, <1>6, <1>7, <1>9, <1>10, <1>12, <1>15, <1>16, <1>17, <1>18

(* The channels are opened and closed. *)
LEMMA ProbeChannels ==
    ASSUME ProbeInv, OpensSignalingChannel \/ ClosesChannels
    PROVE  ProbeInv'
<1>1. /\ probe \in ProbeRecords /\ tap \in TapRecords /\ speaker \in SpeakerRecords
      /\ ProbeProgress /\ EndpointTold /\ TakenBack
  BY DEF ProbeInv, ProbeTypeOK
<1>2. tap' = tap
  BY DEF OpensSignalingChannel, ClosesChannels
<1>3. CASE OpensSignalingChannel
  <2>1. probe.pc = "opens" /\ ~probe.result /\ probe.asks \in Queries /\ ~probe.available
    BY <1>1, <1>3 DEF OpensSignalingChannel, ProbeProgress
  <2>2. /\ speaker' \in SpeakerRecords /\ speaker'.hears = speaker.hears
        /\ speaker'.says = speaker.says /\ speaker'.state = speaker.state
    <3>1. speaker' = speaker \/ speaker' = [speaker EXCEPT !.link = TRUE]
      BY <1>3 DEF OpensSignalingChannel
    <3> QED BY <1>1, <3>1 DEF SpeakerRecords
  <2>3. probe' \in ProbeRecords /\ probe'.result = probe.result /\ probe'.sinks = probe.sinks
        /\ probe'.configured = probe.configured /\ probe'.started = probe.started
        /\ probe'.available = probe.available
        /\ \/ probe'.pc = "writes" /\ probe'.asks = "discover"
           \/ probe'.pc \in {"closes", "over", "opens"} /\ probe'.asks = probe.asks
    <3>1. 1 \in Nat /\ 5 \in Nat /\ probe.opens + 1 \in Nat /\ "discover" \in Queries
      BY <1>1 DEF ProbeRecords, Queries
    <3>2. \/ probe' = Asking([probe EXCEPT !.opens = 1], "discover")
          \/ probe' = [probe EXCEPT !.pc = "closes"]
          \/ probe' = [probe EXCEPT !.pc = "over", !.code = 5]
          \/ probe' = [probe EXCEPT !.opens = probe.opens + 1]
      BY <1>3 DEF OpensSignalingChannel
    <3>3. CASE probe' = Asking([probe EXCEPT !.opens = 1], "discover")
      BY <1>1, <3>1, <3>3 DEF Asking, ProbeRecords, ProbePlaces, Exchanging
    <3>4. CASE probe' = [probe EXCEPT !.pc = "closes"]
      BY <1>1, <3>4 DEF ProbeRecords, ProbePlaces
    <3>5. CASE probe' = [probe EXCEPT !.pc = "over", !.code = 5]
      BY <1>1, <3>1, <3>5 DEF ProbeRecords, ProbePlaces
    <3>6. CASE probe' = [probe EXCEPT !.opens = probe.opens + 1]
      BY <1>1, <2>1, <3>1, <3>6 DEF ProbeRecords, ProbePlaces
    <3> QED BY <3>2, <3>3, <3>4, <3>5, <3>6
  <2>4. probe'.sinks = <<>> => probe.sinks = <<>> /\ probe'.asks = probe.asks
    BY <2>3 DEF ProbeInv, SinksAsked
  <2>5. "discover" \in Queries /\ "discover" \notin Releasing \cup {"open", "start"}
    BY DEF Queries, Releasing
  <2>6. ProbeProgress' /\ EndpointTold'
    BY <1>1, <2>1, <2>3, <2>5 DEF ProbeProgress, EndpointTold, Exchanging, Streams
  <2>7. Sure
    BY <2>1 DEF Sure, Queries, Releasing
  <2>8. probe'.pc \in {"released", "closes"} => ~Sure'
    BY <2>1, <2>3 DEF Sure
  <2> QED BY <1>1, <1>2, <2>1, <2>2, <2>3, <2>4, <2>6, <2>7, <2>8, ProbeTurns
<1>4. CASE ClosesChannels
  <2>1. probe.pc = "closes"
    BY <1>4 DEF ClosesChannels
  <2>2. /\ speaker' \in SpeakerRecords /\ speaker'.hears = speaker.hears
        /\ speaker'.says = speaker.says /\ speaker'.state \in {speaker.state, "idle"}
    <3>1. speaker' = speaker \/ speaker' = [speaker EXCEPT !.link = FALSE, !.state = "idle"]
      BY <1>4 DEF ClosesChannels
    <3> QED BY <1>1, <3>1 DEF SpeakerRecords, SpeakerStates
  <2>3. probe' \in ProbeRecords /\ probe'.result = probe.result /\ probe'.sinks = probe.sinks
        /\ probe'.configured = probe.configured /\ probe'.started = probe.started
        /\ probe'.pc = "over" /\ probe'.asks = probe.asks
    <3>1. PICK code \in {0, 5, 130} : probe' = [probe EXCEPT !.pc = "over", !.code = code]
      BY <1>4 DEF ClosesChannels
    <3>2. code \in Nat
      OBVIOUS
    <3> QED BY <1>1, <3>1, <3>2 DEF ProbeRecords, ProbePlaces
  <2> QED BY <1>1, <1>2, <2>1, <2>2, <2>3, ProbeTurns
          DEF ProbeProgress, EndpointTold, Sure, Exchanging, Streams
<1> QED BY <1>3, <1>4

(* A command that was not accepted ends whatever could still have ended well. *)
LEMMA RefusedProbe ==
    ASSUME ProbeInv, probe.pc \in {"reads", "unanswered"},
           NEW c \in ProbeRecords, NEW how \in {"reject", "none", "unexpected"},
           c.pc = probe.pc, c.asks = probe.asks, c.sinks = probe.sinks, c.result = probe.result,
           c.configured = probe.configured, c.started = probe.started, c.available = probe.available,
           probe' = Refused(c, how)
    PROVE  /\ probe' \in ProbeRecords /\ probe'.pc \notin {"reads", "unanswered"}
           /\ ProbeProgress'
           /\ probe'.sinks = <<>> => probe.sinks = <<>> /\ probe'.asks = probe.asks
           /\ probe'.pc = "closes" => ~probe'.available
           /\ Sure' => /\ Sure /\ how = "reject" /\ probe.asks \in Queries /\ probe'.asks \in Queries
                       /\ probe'.pc = "writes"
<1>1. /\ probe \in ProbeRecords /\ ProbeProgress /\ SinksAsked
      /\ probe.asks \in Queries \cup Setting \cup Releasing
  BY DEF ProbeInv, ProbeTypeOK, ProbeRecords
<1>2. probe.pc \in Exchanging /\ probe.pc \notin {"cleanup", "released", "closes", "over"}
  BY DEF Exchanging
(* What is asked next. *)
<1>3. ASSUME NEW q \in ProbeRecords, NEW signal \in Queries \cup Setting \cup Releasing,
             probe' = Asking(q, signal)
      PROVE  /\ probe' \in ProbeRecords /\ probe'.pc = "writes" /\ probe'.asks = signal
             /\ probe'.sinks = q.sinks /\ probe'.result = q.result /\ probe'.configured = q.configured
             /\ probe'.started = q.started /\ probe'.available = q.available
  BY <1>3 DEF Asking, ProbeRecords, ProbePlaces, Exchanging
<1>4. ASSUME NEW pc \in ProbePlaces, probe' = [c EXCEPT !.pc = pc]
      PROVE  /\ probe' \in ProbeRecords /\ probe'.pc = pc /\ probe'.asks = c.asks
             /\ probe'.sinks = c.sinks /\ probe'.result = c.result /\ probe'.configured = c.configured
             /\ probe'.started = c.started /\ probe'.available = c.available
  BY <1>4 DEF ProbeRecords
<1>5. CASE probe.asks \in Queries
  <2>1. ~probe.available /\ ~probe.result
    BY <1>1, <1>2, <1>5 DEF ProbeProgress, Queries, Releasing
  <2>2. Sure
    BY <1>2, <1>5 DEF Sure, Queries, Releasing
  <2>3. CASE probe' = [c EXCEPT !.pc = "closes"]
    <3>1. /\ probe' \in ProbeRecords /\ probe'.pc = "closes" /\ probe'.asks = c.asks
          /\ probe'.sinks = c.sinks /\ probe'.result = c.result /\ probe'.configured = c.configured
          /\ probe'.started = c.started /\ probe'.available = c.available
      BY <1>4, <2>3 DEF ProbePlaces
    <3> QED BY <1>1, <2>1, <3>1 DEF ProbeProgress, Sure, Exchanging, Streams
  <2>4. CASE probe.asks = "capabilities" /\ how = "reject"
    <3>1. probe' = Asking(c, "legacy")
      BY <2>4 DEF Refused
    <3>2. "legacy" \in Queries /\ "legacy" \notin Releasing \cup {"open", "start"}
      BY DEF Queries, Releasing
    <3>3. probe.sinks # <<>>
      BY <1>1, <2>4 DEF SinksAsked
    <3> QED BY <1>1, <1>3, <1>5, <2>1, <2>2, <2>4, <3>1, <3>2, <3>3 DEF ProbeProgress, Sure, Exchanging, Streams
  <2>5. CASE probe.asks = "legacy" /\ how = "reject"
    <3>1. probe' = NextSink(c)
      BY <2>5 DEF Refused
    <3>2. CASE Len(c.sinks) > 1
      <4> DEFINE q == [c EXCEPT !.sinks = Tail(c.sinks)]
      <4>1. Tail(c.sinks) \in Seq(Sinks) /\ Tail(c.sinks) # <<>>
        <5>1. c.sinks \in Seq(Sinks)
          BY DEF ProbeRecords
        <5> QED BY <3>2, <5>1, SinksLeft
      <4>2. q \in ProbeRecords /\ q.sinks # <<>> /\ q.result = c.result /\ q.configured = c.configured
            /\ q.started = c.started /\ q.available = c.available
        BY <4>1 DEF ProbeRecords
      <4>3. probe' = Asking(q, "capabilities")
        BY <3>1, <3>2 DEF NextSink
      <4> HIDE DEF q
      <4>4. "capabilities" \in Queries /\ "capabilities" \notin Releasing \cup {"open", "start"}
        BY DEF Queries, Releasing
      <4> QED BY <1>1, <1>3, <1>5, <2>1, <2>2, <2>5, <4>2, <4>3, <4>4 DEF ProbeProgress, Sure, Exchanging, Streams
    <3>3. CASE ~(Len(c.sinks) > 1)
      BY <2>3, <3>1, <3>3 DEF NextSink
    <3> QED BY <3>2, <3>3
  <2>6. CASE ~(probe.asks \in {"capabilities", "legacy"} /\ how = "reject")
    BY <1>5, <2>3, <2>6 DEF Refused, Queries
  <2> QED BY <2>4, <2>5, <2>6
<1>6. CASE probe.asks \in Setting
  <2>1. ~probe.result /\ probe.sinks # <<>>
    BY <1>1, <1>2, <1>6 DEF ProbeProgress, SinksAsked, Setting, Releasing
  <2>2. probe' = [c EXCEPT !.pc = "cleanup"]
    BY <1>6 DEF Refused, Setting
  <2>3. /\ probe' \in ProbeRecords /\ probe'.pc = "cleanup" /\ probe'.asks = c.asks
        /\ probe'.sinks = c.sinks /\ probe'.result = c.result /\ probe'.configured = c.configured
        /\ probe'.started = c.started /\ probe'.available = c.available
    BY <1>4, <2>2 DEF ProbePlaces
  <2> QED BY <1>1, <1>6, <2>1, <2>3 DEF ProbeProgress, Sure, Exchanging, Streams, Setting
<1>7. CASE probe.asks \in Releasing
  <2>1. probe.sinks # <<>>
    BY <1>1, <1>7 DEF SinksAsked, Releasing
  <2>2. CASE probe.asks \in {"suspend", "close"}
    <3> DEFINE q == [c EXCEPT !.result = FALSE]
    <3>1. q \in ProbeRecords /\ q.sinks = c.sinks /\ q.result = FALSE /\ q.configured = c.configured
          /\ q.started = c.started /\ q.available = c.available
      BY DEF ProbeRecords
    <3>2. probe' = Asking(q, "abort")
      BY <2>2 DEF Refused
    <3> HIDE DEF q
    <3>3. "abort" \in Releasing /\ "abort" \notin Queries \cup {"open", "start"}
      BY DEF Queries, Releasing
    <3> QED BY <1>1, <1>3, <1>7, <2>1, <2>2, <3>1, <3>2, <3>3 DEF ProbeProgress, Sure, Exchanging, Streams
  <2>3. CASE probe.asks = "abort"
    <3>1. probe' = [c EXCEPT !.result = FALSE, !.pc = "released"]
      BY <2>3 DEF Refused
    <3>2. /\ probe' \in ProbeRecords /\ probe'.pc = "released" /\ probe'.asks = c.asks
          /\ probe'.sinks = c.sinks /\ probe'.result = FALSE /\ probe'.configured = c.configured
          /\ probe'.started = c.started /\ probe'.available = c.available
      BY <3>1 DEF ProbeRecords, ProbePlaces
    <3> QED BY <1>1, <2>1, <2>3, <3>2 DEF ProbeProgress, Sure, Exchanging, Streams
  <2> QED BY <1>7, <2>2, <2>3 DEF Releasing
<1> QED BY <1>1, <1>5, <1>6, <1>7

(* An accepted command leads on; the stream is taken back when its end was accepted. *)
LEMMA AcceptedProbe ==
    ASSUME ProbeInv, probe.pc = "reads", NEW body \in Seq(Sinks),
           NEW c \in ProbeRecords, c.mode = probe.mode,
           c.pc = probe.pc, c.asks = probe.asks, c.sinks = probe.sinks, c.result = probe.result,
           c.configured = probe.configured, c.started = probe.started, c.available = probe.available,
           probe' = Accepted(c, body)
    PROVE  /\ probe' \in ProbeRecords /\ probe'.pc \notin {"reads", "unanswered"}
           /\ ProbeProgress'
           /\ probe'.sinks = <<>> => probe.sinks = <<>> /\ probe'.asks = probe.asks
           /\ probe'.pc = "closes" => ~probe'.available
           /\ Sure' => /\ Sure
                       /\ probe'.asks \in Queries => probe.asks \in Queries
                       /\ probe'.pc # "closes"
                       /\ probe'.pc = "released" => probe.asks \in {"close", "abort"}
<1>1. /\ probe \in ProbeRecords /\ ProbeProgress /\ SinksAsked
      /\ probe.asks \in Queries \cup Setting \cup Releasing
  BY DEF ProbeInv, ProbeTypeOK, ProbeRecords
<1>2. probe.pc \in Exchanging /\ probe.pc \notin {"cleanup", "released", "closes", "over"}
  BY DEF Exchanging
(* What is asked next. *)
<1>3. ASSUME NEW q \in ProbeRecords, NEW signal \in Queries \cup Setting \cup Releasing,
             probe' = Asking(q, signal)
      PROVE  /\ probe' \in ProbeRecords /\ probe'.pc = "writes" /\ probe'.asks = signal
             /\ probe'.sinks = q.sinks /\ probe'.result = q.result /\ probe'.configured = q.configured
             /\ probe'.started = q.started /\ probe'.available = q.available
  BY <1>3 DEF Asking, ProbeRecords, ProbePlaces, Exchanging
<1>4. ASSUME NEW pc \in ProbePlaces, probe' = [c EXCEPT !.pc = pc]
      PROVE  /\ probe' \in ProbeRecords /\ probe'.pc = pc /\ probe'.asks = c.asks
             /\ probe'.sinks = c.sinks /\ probe'.result = c.result /\ probe'.configured = c.configured
             /\ probe'.started = c.started /\ probe'.available = c.available
  BY <1>4 DEF ProbeRecords
<1>5. CASE probe.asks \in Queries
  <2>1. ~probe.available /\ ~probe.result
    BY <1>1, <1>2, <1>5 DEF ProbeProgress, Queries, Releasing
  <2>2. Sure
    BY <1>2, <1>5 DEF Sure, Queries, Releasing
  <2>3. CASE probe' = [c EXCEPT !.pc = "closes"]
    <3>1. /\ probe' \in ProbeRecords /\ probe'.pc = "closes" /\ probe'.asks = c.asks
          /\ probe'.sinks = c.sinks /\ probe'.result = c.result /\ probe'.configured = c.configured
          /\ probe'.started = c.started /\ probe'.available = c.available
      BY <1>4, <2>3 DEF ProbePlaces
    <3> QED BY <1>1, <2>1, <3>1 DEF ProbeProgress, Sure, Exchanging, Streams
  <2>4. ASSUME NEW q \in ProbeRecords, q.sinks # <<>>, q.result = c.result, q.configured = c.configured,
               q.started = c.started, q.available = c.available, probe' = Asking(q, "capabilities")
        PROVE  /\ probe' \in ProbeRecords /\ probe'.pc = "writes" /\ probe'.sinks # <<>>
               /\ ProbeProgress'
    <3>1. "capabilities" \in Queries /\ "capabilities" \notin Releasing \cup {"discover", "open", "start"}
      BY DEF Queries, Releasing
    <3> QED BY <1>1, <1>3, <2>1, <2>4, <3>1 DEF ProbeProgress, Exchanging, Streams
  <2>5. CASE probe.asks = "discover" /\ body # <<>>
    <3> DEFINE q == [c EXCEPT !.sinks = body]
    <3>1. q \in ProbeRecords /\ q.sinks = body /\ q.result = c.result /\ q.configured = c.configured
          /\ q.started = c.started /\ q.available = c.available
      BY DEF ProbeRecords
    <3>2. probe' = Asking(q, "capabilities")
      BY <2>5 DEF Accepted
    <3> HIDE DEF q
    <3> QED BY <1>5, <2>2, <2>4, <2>5, <3>1, <3>2
  <2>6. CASE probe.asks = "discover" /\ body = <<>>
    BY <2>3, <2>6 DEF Accepted
  <2>7. CASE probe.asks # "discover"
    <3>1. probe' = SinkAccepted(c, Head(body)) /\ probe.asks \in {"capabilities", "legacy"}
      BY <1>5, <2>7 DEF Accepted, Queries
    <3>2. probe.sinks # <<>>
      BY <1>1, <2>7 DEF SinksAsked
    <3>3. CASE Head(body) = "ldac" /\ probe.mode = "query"
      <4>1. probe' = [c EXCEPT !.pc = "holds", !.result = TRUE]
        BY <3>1, <3>3 DEF SinkAccepted
      <4>2. /\ probe' \in ProbeRecords /\ probe'.pc = "holds" /\ probe'.asks = c.asks
            /\ probe'.sinks = c.sinks /\ probe'.result = TRUE /\ probe'.configured = c.configured
            /\ probe'.started = c.started /\ probe'.available = c.available
        BY <4>1 DEF ProbeRecords, ProbePlaces
      <4> QED BY <1>1, <1>5, <2>1, <2>2, <2>7, <3>2, <4>2 DEF ProbeProgress, Exchanging, Streams
    <3>4. CASE Head(body) = "ldac" /\ probe.mode # "query"
      <4>1. PICK pc \in {"source", "chooses"} : probe' = [c EXCEPT !.pc = pc]
        BY <3>1, <3>4 DEF SinkAccepted
      <4>2. /\ probe' \in ProbeRecords /\ probe'.pc = pc /\ probe'.asks = c.asks
            /\ probe'.sinks = c.sinks /\ probe'.result = c.result /\ probe'.configured = c.configured
            /\ probe'.started = c.started /\ probe'.available = c.available
        BY <1>4, <4>1 DEF ProbePlaces
      <4>3. c.asks \notin Releasing
        BY <1>5 DEF Queries, Releasing
      <4> QED BY <1>1, <1>5, <2>1, <2>2, <2>7, <3>2, <4>2, <4>3 DEF ProbeProgress, Exchanging, Streams
    <3>5. CASE Head(body) = "other"
      <4>1. probe' = NextSink(c)
        BY <3>1, <3>5 DEF SinkAccepted
      <4>2. CASE Len(c.sinks) > 1
        <5> DEFINE q == [c EXCEPT !.sinks = Tail(c.sinks)]
        <5>1. c.sinks \in Seq(Sinks)
          BY DEF ProbeRecords
        <5>2. Tail(c.sinks) \in Seq(Sinks) /\ Tail(c.sinks) # <<>>
          BY <4>2, <5>1, SinksLeft
        <5>4. q \in ProbeRecords /\ q.sinks # <<>> /\ q.result = c.result /\ q.configured = c.configured
              /\ q.started = c.started /\ q.available = c.available
          BY <5>2 DEF ProbeRecords
        <5>5. probe' = Asking(q, "capabilities")
          BY <4>1, <4>2 DEF NextSink
        <5> HIDE DEF q
        <5> QED BY <1>5, <2>2, <2>4, <5>4, <5>5
      <4>3. CASE ~(Len(c.sinks) > 1)
        BY <2>3, <4>1, <4>3 DEF NextSink
      <4> QED BY <4>2, <4>3
    <3>6. CASE Head(body) \notin {"ldac", "other"}
      BY <2>3, <3>1, <3>6 DEF SinkAccepted
    <3> QED BY <3>3, <3>4, <3>5, <3>6
  <2> QED BY <2>5, <2>6, <2>7
<1>6. CASE probe.asks \in Setting
  <2>1. ~probe.result /\ probe.sinks # <<>>
    BY <1>1, <1>2, <1>6 DEF ProbeProgress, SinksAsked, Setting, Releasing
  <2>2. Sure
    BY <1>2, <1>6 DEF Sure, Setting, Releasing
  <2>3. CASE probe.asks = "set"
    <3> DEFINE q == [c EXCEPT !.configured = TRUE]
    <3>1. q \in ProbeRecords /\ q.sinks = c.sinks /\ q.result = c.result /\ q.configured = TRUE
          /\ q.started = c.started /\ q.available = c.available /\ q.asks = c.asks /\ q.pc = c.pc
      BY DEF ProbeRecords
    <3>2. probe' = IF c.mode = "configure" THEN [q EXCEPT !.result = TRUE, !.pc = "cleanup"]
                   ELSE Asking(q, "open")
      BY <2>3 DEF Accepted
    <3> HIDE DEF q
    <3>3. CASE probe' = Asking(q, "open")
      <4>1. "open" \in Setting /\ "open" \notin Queries \cup Releasing
        BY DEF Setting, Queries, Releasing
      <4> QED BY <1>1, <1>3, <1>6, <2>1, <2>2, <2>3, <3>1, <3>3, <4>1 DEF ProbeProgress, Exchanging, Streams
    <3>4. CASE probe' = [q EXCEPT !.result = TRUE, !.pc = "cleanup"]
      <4>1. /\ probe' \in ProbeRecords /\ probe'.pc = "cleanup" /\ probe'.asks = c.asks
            /\ probe'.sinks = c.sinks /\ probe'.result = TRUE /\ probe'.configured = TRUE
            /\ probe'.started = c.started /\ probe'.available = c.available
        BY <3>1, <3>4 DEF ProbeRecords, ProbePlaces
      <4> QED BY <1>1, <1>6, <2>1, <2>2, <2>3, <4>1 DEF ProbeProgress, Exchanging, Streams
    <3> QED BY <3>2, <3>3, <3>4
  <2>4. CASE probe.asks = "open"
    <3>1. probe' = [c EXCEPT !.pc = "media"]
      BY <2>4 DEF Accepted
    <3>2. /\ probe' \in ProbeRecords /\ probe'.pc = "media" /\ probe'.asks = c.asks
          /\ probe'.sinks = c.sinks /\ probe'.result = c.result /\ probe'.configured = c.configured
          /\ probe'.started = c.started /\ probe'.available = c.available
      BY <1>4, <3>1 DEF ProbePlaces
    <3> QED BY <1>1, <1>2, <2>1, <2>2, <2>4, <3>2 DEF ProbeProgress, Exchanging, Streams, Releasing
  <2>5. CASE probe.asks = "start"
    <3>1. probe' = [c EXCEPT !.started = TRUE, !.pc = "started"]
      BY <2>5 DEF Accepted
    <3>2. /\ probe' \in ProbeRecords /\ probe'.pc = "started" /\ probe'.asks = c.asks
          /\ probe'.sinks = c.sinks /\ probe'.result = c.result /\ probe'.configured = c.configured
          /\ probe'.started = TRUE /\ probe'.available = c.available
      BY <3>1 DEF ProbeRecords, ProbePlaces, Streams
    <3> QED BY <1>1, <1>2, <2>1, <2>2, <2>5, <3>2 DEF ProbeProgress, Exchanging, Streams, Releasing
  <2> QED BY <1>6, <2>3, <2>4, <2>5 DEF Setting
<1>7. CASE probe.asks \in Releasing
  <2>1. probe.sinks # <<>>
    BY <1>1, <1>7 DEF SinksAsked, Releasing
  <2>2. probe.asks \notin Queries
    BY <1>7 DEF Queries, Releasing
  <2>3. CASE probe.asks = "suspend"
    <3>1. probe' = Asking(c, "close")
      BY <2>3 DEF Accepted
    <3>2. "close" \in Releasing /\ "close" \notin Queries \cup {"open", "start"}
      BY DEF Queries, Releasing
    <3> QED BY <1>1, <1>3, <1>7, <2>1, <2>3, <3>1, <3>2 DEF ProbeProgress, Sure, Exchanging, Streams
  <2>4. CASE probe.asks \in {"close", "abort"}
    <3>1. probe' = [c EXCEPT !.pc = "released"]
      BY <2>4 DEF Accepted
    <3>2. /\ probe' \in ProbeRecords /\ probe'.pc = "released" /\ probe'.asks = c.asks
          /\ probe'.sinks = c.sinks /\ probe'.result = c.result /\ probe'.configured = c.configured
          /\ probe'.started = c.started /\ probe'.available = c.available
      BY <1>4, <3>1 DEF ProbePlaces
    <3> QED BY <1>1, <1>7, <2>1, <2>2, <2>4, <3>2 DEF ProbeProgress, Sure, Exchanging, Streams
  <2> QED BY <1>7, <2>3, <2>4 DEF Releasing
<1> QED BY <1>1, <1>5, <1>6, <1>7

(* A packet more at the end of a queue, or one less at its front. *)
LEMMA HearsMore ==
    ASSUME speaker \in SpeakerRecords, NEW e \in ProbePackets, speaker'.hears = Append(speaker.hears, e)
    PROVE  /\ speaker'.hears \in Seq(ProbePackets) /\ Len(speaker.hears) + 1 \notin HeardCommands
           /\ \A i \in HeardCommands' :
                 \/ i \in HeardCommands /\ speaker'.hears[i] = speaker.hears[i]
                 \/ i = Len(speaker.hears) + 1 /\ e.type = "command" /\ speaker'.hears[i] = e
<1> DEFINE q == speaker.hears
<1>1. q \in Seq(ProbePackets)
  BY DEF SpeakerRecords
<1> HIDE DEF q
<1>2. /\ Append(q, e) \in Seq(ProbePackets) /\ Len(Append(q, e)) = Len(q) + 1 /\ Len(q) \in Nat
      /\ \A i \in 1..Len(q) : Append(q, e)[i] = q[i]
      /\ Append(q, e)[Len(q) + 1] = e
  BY <1>1, PacketAppended
<1>3. speaker'.hears = Append(q, e) /\ HeardCommands = {i \in 1..Len(q) : q[i].type = "command"}
      /\ HeardCommands' = {i \in 1..Len(Append(q, e)) : Append(q, e)[i].type = "command"}
  BY DEF HeardCommands, q
<1>4. \A i \in HeardCommands' :
         \/ i \in HeardCommands /\ Append(q, e)[i] = q[i]
         \/ i = Len(q) + 1 /\ e.type = "command" /\ Append(q, e)[i] = e
  <2> SUFFICES ASSUME NEW i \in HeardCommands'
               PROVE  \/ i \in HeardCommands /\ Append(q, e)[i] = q[i]
                      \/ i = Len(q) + 1 /\ e.type = "command" /\ Append(q, e)[i] = e
    OBVIOUS
  <2>1. i \in 1..Len(q) + 1 /\ Append(q, e)[i].type = "command"
    BY <1>2, <1>3
  <2>2. CASE i = Len(q) + 1
    BY <1>2, <2>1, <2>2
  <2>3. CASE i # Len(q) + 1
    <3>1. i \in 1..Len(q)
      BY <1>2, <2>1, <2>3
    <3> QED BY <1>2, <1>3, <2>1, <3>1
  <2> QED BY <2>2, <2>3
<1>5. Len(q) + 1 \notin HeardCommands
  BY <1>2, <1>3
<1> QED BY <1>2, <1>3, <1>4, <1>5 DEF q

(* The headset says one packet more, when no answer is under way. *)
LEMMA SaysMore ==
    ASSUME speaker \in SpeakerRecords, NEW e \in ProbePackets, NEW q, q = speaker.says,
           speaker'.says = Append(q, e)
    PROVE  /\ speaker'.says \in Seq(ProbePackets) /\ Len(q) + 1 \notin SaidAnswers
           /\ \A i \in SaidAnswers' :
                 \/ i \in SaidAnswers /\ speaker'.says[i] = speaker.says[i]
                 \/ i = Len(q) + 1 /\ e.type # "command" /\ speaker'.says[i] = e
<1>1. q \in Seq(ProbePackets)
  BY DEF SpeakerRecords
<1>2. /\ Append(q, e) \in Seq(ProbePackets) /\ Len(Append(q, e)) = Len(q) + 1 /\ Len(q) \in Nat
      /\ \A i \in 1..Len(q) : Append(q, e)[i] = q[i]
      /\ Append(q, e)[Len(q) + 1] = e
  BY <1>1, PacketAppended
<1>3. SaidAnswers = {i \in 1..Len(q) : q[i].type # "command"}
      /\ SaidAnswers' = {i \in 1..Len(Append(q, e)) : Append(q, e)[i].type # "command"}
  BY DEF SaidAnswers
<1>4. \A i \in SaidAnswers' :
         \/ i \in SaidAnswers /\ Append(q, e)[i] = q[i]
         \/ i = Len(q) + 1 /\ e.type # "command" /\ Append(q, e)[i] = e
  <2> SUFFICES ASSUME NEW i \in SaidAnswers'
               PROVE  \/ i \in SaidAnswers /\ Append(q, e)[i] = q[i]
                      \/ i = Len(q) + 1 /\ e.type # "command" /\ Append(q, e)[i] = e
    OBVIOUS
  <2>1. i \in 1..Len(q) + 1 /\ Append(q, e)[i].type # "command"
    BY <1>2, <1>3
  <2>2. CASE i = Len(q) + 1
    BY <1>2, <2>1, <2>2
  <2>3. CASE i # Len(q) + 1
    <3>1. i \in 1..Len(q)
      BY <1>2, <2>1, <2>3
    <3> QED BY <1>2, <1>3, <2>1, <3>1
  <2> QED BY <2>2, <2>3
<1>5. Len(q) + 1 \notin SaidAnswers
  BY <1>2, <1>3
<1> QED BY <1>2, <1>3, <1>4, <1>5

(* The headset has heard the packet at the front of its queue. *)
LEMMA HearsLess ==
    ASSUME speaker \in SpeakerRecords, speaker.hears # <<>>, speaker'.hears = Tail(speaker.hears)
    PROVE  /\ speaker'.hears \in Seq(ProbePackets) /\ Head(speaker.hears) \in ProbePackets
           /\ Head(speaker.hears).type = "command"
                => 1 \in HeardCommands /\ speaker.hears[1] = Head(speaker.hears)
           /\ \A i \in HeardCommands' :
                 i \in Nat \ {0} /\ i + 1 \in HeardCommands /\ speaker'.hears[i] = speaker.hears[i + 1]
<1> DEFINE q == speaker.hears
<1>1. q \in Seq(ProbePackets) /\ q # <<>>
  BY DEF SpeakerRecords
<1>2. HeardCommands = {i \in 1..Len(q) : q[i].type = "command"}
      /\ HeardCommands' = {i \in 1..Len(Tail(q)) : Tail(q)[i].type = "command"}
  BY DEF HeardCommands
<1> HIDE DEF q
<1>3. /\ Tail(q) \in Seq(ProbePackets) /\ Len(Tail(q)) = Len(q) - 1 /\ Len(q) \in Nat \ {0}
      /\ \A i \in 1..Len(q) - 1 : Tail(q)[i] = q[i + 1]
      /\ Head(q) = q[1] /\ Head(q) \in ProbePackets
  BY <1>1, PacketTaken
<1>4. Head(q).type = "command" => 1 \in HeardCommands
  BY <1>2, <1>3
<1>5. ASSUME NEW i \in HeardCommands'
      PROVE  i \in Nat \ {0} /\ i + 1 \in HeardCommands /\ Tail(q)[i] = q[i + 1]
  <2>1. i \in 1..Len(q) - 1 /\ Tail(q)[i].type = "command"
    BY <1>2, <1>3
  <2> QED BY <1>2, <1>3, <2>1
<1> QED BY <1>3, <1>4, <1>5 DEF q

(* The process has read the packet at the front of what the headset said. *)
LEMMA SaysLess ==
    ASSUME speaker \in SpeakerRecords, speaker.says # <<>>, speaker'.says = Tail(speaker.says)
    PROVE  /\ speaker'.says \in Seq(ProbePackets) /\ Head(speaker.says) \in ProbePackets
           /\ Head(speaker.says).type # "command"
                => 1 \in SaidAnswers /\ speaker.says[1] = Head(speaker.says)
           /\ \A i \in SaidAnswers' :
                 i \in Nat \ {0} /\ i + 1 \in SaidAnswers /\ speaker'.says[i] = speaker.says[i + 1]
<1> DEFINE q == speaker.says
<1>1. q \in Seq(ProbePackets) /\ q # <<>>
  BY DEF SpeakerRecords
<1>2. SaidAnswers = {i \in 1..Len(q) : q[i].type # "command"}
      /\ SaidAnswers' = {i \in 1..Len(Tail(q)) : Tail(q)[i].type # "command"}
  BY DEF SaidAnswers
<1> HIDE DEF q
<1>3. /\ Tail(q) \in Seq(ProbePackets) /\ Len(Tail(q)) = Len(q) - 1 /\ Len(q) \in Nat \ {0}
      /\ \A i \in 1..Len(q) - 1 : Tail(q)[i] = q[i + 1]
      /\ Head(q) = q[1] /\ Head(q) \in ProbePackets
  BY <1>1, PacketTaken
<1>4. Head(q).type # "command" => 1 \in SaidAnswers
  BY <1>2, <1>3
<1>5. ASSUME NEW i \in SaidAnswers'
      PROVE  i \in Nat \ {0} /\ i + 1 \in SaidAnswers /\ Tail(q)[i] = q[i + 1]
  <2>1. i \in 1..Len(q) - 1 /\ Tail(q)[i].type # "command"
    BY <1>2, <1>3
  <2> QED BY <1>2, <1>3, <2>1
<1> QED BY <1>3, <1>4, <1>5 DEF q

(* What a command makes of the headset's stream. *)
LEMMA AfterFits ==
    ASSUME NEW signal \in Queries \cup Setting \cup Releasing, speaker.state \in SpeakerStates,
           speaker.state \in DOMAIN After(signal)
    PROVE  /\ After(signal)[speaker.state] \in SpeakerStates
           /\ signal \in {"close", "abort"} => After(signal)[speaker.state] = "idle"
           /\ signal \in Queries => After(signal)[speaker.state] = speaker.state
<1>1. CASE signal = "set"
  BY <1>1 DEF After, SpeakerStates, Queries
<1>2. CASE signal = "open"
  BY <1>2 DEF After, SpeakerStates, Queries
<1>3. CASE signal = "start"
  BY <1>3 DEF After, SpeakerStates, Queries
<1>4. CASE signal = "suspend"
  BY <1>4 DEF After, SpeakerStates, Queries
<1>5. CASE signal = "close"
  BY <1>5 DEF After, SpeakerStates, Queries
<1>6. CASE signal = "abort"
  BY <1>6 DEF After, SpeakerStates, Queries
<1>7. CASE signal \in Queries
  <2>1. After(signal) = [s \in {speaker.state} |-> s]
    BY <1>7 DEF After, Queries
  <2> QED BY <1>7, <2>1 DEF Queries
<1> QED BY <1>1, <1>2, <1>3, <1>4, <1>5, <1>6, <1>7 DEF Setting, Releasing

(* The packets of the process and of the headset. *)
LEMMA PacketsFit ==
    ASSUME NEW type \in {"command", "accept", "reject"}, NEW label \in Nat,
           NEW signal \in Queries \cup Setting \cup Releasing, NEW body \in Seq(Sinks)
    PROVE  /\ Packet(type, label, signal, body) \in ProbePackets
           /\ Packet(type, label, signal, body).type = type
           /\ Packet(type, label, signal, body).signal = signal
BY DEF Packet, ProbePackets

(* The command is written, or what was written of it may be lost. *)
LEMMA ProbeWrites ==
    ASSUME ProbeInv, WritesSignaling
    PROVE  ProbeInv'
<1>1. /\ probe \in ProbeRecords /\ tap \in TapRecords /\ speaker \in SpeakerRecords
      /\ ProbeProgress /\ EndpointTold /\ AtMostOne /\ TakenBack /\ SinksAsked
  BY DEF ProbeInv, ProbeTypeOK
<1> DEFINE e == Packet("command", probe.label, probe.asks, <<>>)
<1>2. e \in ProbePackets /\ e.type = "command" /\ e.signal = probe.asks
  <2>1. probe.label \in Nat /\ probe.asks \in Queries \cup Setting \cup Releasing /\ <<>> \in Seq(Sinks)
    BY <1>1 DEF ProbeRecords
  <2>2. "command" \in {"command", "accept", "reject"}
    OBVIOUS
  <2>3. /\ Packet("command", probe.label, probe.asks, <<>>) \in ProbePackets
        /\ Packet("command", probe.label, probe.asks, <<>>).type = "command"
        /\ Packet("command", probe.label, probe.asks, <<>>).signal = probe.asks
    BY <2>1, <2>2 DEF Packet, ProbePackets
  <2> QED BY <2>3
<1>3. /\ probe.pc = "writes" /\ tap' = tap
      /\ \/ speaker' = [speaker EXCEPT !.hears = Append(@, e)]
         \/ speaker' = speaker
      /\ \/ speaker' = [speaker EXCEPT !.hears = Append(@, e)] /\ probe' = [probe EXCEPT !.pc = "reads"]
         \/ probe' = [probe EXCEPT !.pc = "unanswered"]
  BY DEF WritesSignaling, Writes, GoesTo
<1> HIDE DEF e
<1>4. PICK pc \in {"reads", "unanswered"} : probe' = [probe EXCEPT !.pc = pc]
  BY <1>3
<1>5. /\ probe' \in ProbeRecords /\ probe'.pc = pc /\ probe'.asks = probe.asks /\ probe'.sinks = probe.sinks
      /\ probe'.result = probe.result /\ probe'.configured = probe.configured
      /\ probe'.started = probe.started /\ probe'.available = probe.available
  BY <1>1, <1>4 DEF ProbeRecords, ProbePlaces, Exchanging
<1>6. ProbeProgress' /\ EndpointTold' /\ (Sure' <=> Sure)
  BY <1>1, <1>3, <1>5 DEF ProbeProgress, EndpointTold, Sure, Exchanging, Streams
<1>7. CASE speaker' = speaker
  BY <1>1, <1>3, <1>5, <1>6, <1>7, ProbeMoves
<1>8. CASE speaker' = [speaker EXCEPT !.hears = Append(@, e)]
  <2>1. speaker'.hears = Append(speaker.hears, e) /\ speaker'.says = speaker.says
        /\ speaker'.state = speaker.state
    BY <1>1, <1>8 DEF SpeakerRecords
  <2>2. /\ speaker'.hears \in Seq(ProbePackets)
        /\ \A i \in HeardCommands' :
              \/ i \in HeardCommands /\ speaker'.hears[i] = speaker.hears[i]
              \/ i = Len(speaker.hears) + 1 /\ speaker'.hears[i] = e
    BY <1>1, <1>2, <2>1, HearsMore
  <2>3. speaker' \in SpeakerRecords
    BY <1>1, <1>8, <2>1, <2>2 DEF SpeakerRecords
  <2>4. SaidAnswers' = SaidAnswers
    BY <2>1 DEF SaidAnswers
  <2>5. ProbeTypeOK'
    BY <1>1, <1>3, <1>5, <2>3 DEF ProbeTypeOK
  <2>6. ASSUME Sure' PROVE SaidAnswers' = {} /\ HeardCommands = {} /\ Sure
    BY <1>1, <1>3, <1>6, <2>4, <2>6 DEF AtMostOne
  <2>7. AtMostOne'
    BY <1>2, <1>5, <2>2, <2>6 DEF AtMostOne
  <2>8. TakenBack'
    BY <1>1, <1>5, <2>1, <2>6 DEF TakenBack
  <2>9. SinksAsked'
    BY <1>1, <1>2, <1>5, <2>2 DEF SinksAsked
  <2> QED BY <1>6, <2>5, <2>7, <2>8, <2>9 DEF ProbeInv
<1> QED BY <1>3, <1>7, <1>8

(* A command of the headset's own is answered, or ends the wait. *)
LEMMA ProbeReadsCommand ==
    ASSUME ProbeInv, ReadsCommand
    PROVE  ProbeInv'
<1>1. /\ probe \in ProbeRecords /\ tap \in TapRecords /\ speaker \in SpeakerRecords
      /\ ProbeProgress /\ EndpointTold /\ AtMostOne /\ TakenBack /\ SinksAsked
  BY DEF ProbeInv, ProbeTypeOK
<1> DEFINE p == Head(speaker.says)
           read == [speaker EXCEPT !.says = Tail(@)]
           e == PeerAnswer(p)
<1>2. probe.pc = "reads" /\ speaker.says # <<>> /\ p.type = "command" /\ tap' = tap
  BY DEF ReadsCommand
<1>3. speaker.says \in Seq(ProbePackets) /\ p \in ProbePackets /\ Tail(speaker.says) \in Seq(ProbePackets)
  <2>1. speaker.says \in Seq(ProbePackets)
    BY <1>1 DEF SpeakerRecords
  <2> QED BY <1>2, <2>1, PacketTaken
<1>4. e \in ProbePackets /\ e.type # "command"
  <2>1. /\ (IF p.signal = "set" THEN "reject" ELSE "accept") \in {"accept", "reject"}
        /\ p.label \in Nat /\ p.signal \in Queries \cup Setting \cup Releasing /\ <<>> \in Seq(Sinks)
    BY <1>3 DEF ProbePackets
  <2> QED BY <2>1, PacketsFit DEF PeerAnswer
<1>5. read \in SpeakerRecords /\ read.says = Tail(speaker.says) /\ read.hears = speaker.hears
      /\ read.state = speaker.state
  BY <1>1, <1>3 DEF SpeakerRecords
<1>6. /\ speaker' \in {read, [read EXCEPT !.hears = Append(@, e)]}
      /\ \/ probe' = [probe EXCEPT !.peers = probe.peers + 1]
         \/ probe' = [probe EXCEPT !.pc = "unanswered"]
  BY DEF ReadsCommand, Writes, GoesTo
<1> HIDE DEF p, e, read
<1>7. /\ probe' \in ProbeRecords /\ probe'.pc \in {"reads", "unanswered"} /\ probe'.asks = probe.asks
      /\ probe'.sinks = probe.sinks
      /\ probe'.result = probe.result /\ probe'.configured = probe.configured
      /\ probe'.started = probe.started /\ probe'.available = probe.available
  <2>1. probe.peers + 1 \in Nat
    BY <1>1 DEF ProbeRecords
  <2>2. CASE probe' = [probe EXCEPT !.peers = probe.peers + 1]
    BY <1>1, <1>2, <2>1, <2>2 DEF ProbeRecords
  <2>3. CASE probe' = [probe EXCEPT !.pc = "unanswered"]
    BY <1>1, <2>3 DEF ProbeRecords, ProbePlaces, Exchanging
  <2> QED BY <1>6, <2>2, <2>3
<1>8. ProbeProgress' /\ EndpointTold' /\ (Sure' <=> Sure)
  BY <1>1, <1>2, <1>7 DEF ProbeProgress, EndpointTold, Sure, Exchanging, Streams
<1>9. speaker'.says = Tail(speaker.says) /\ speaker'.state = speaker.state
      /\ (speaker'.hears = speaker.hears \/ speaker'.hears = Append(speaker.hears, e))
  BY <1>5, <1>6 DEF SpeakerRecords
<1>10. /\ speaker'.says \in Seq(ProbePackets)
       /\ \A i \in SaidAnswers' :
             i \in Nat \ {0} /\ i + 1 \in SaidAnswers /\ speaker'.says[i] = speaker.says[i + 1]
  BY <1>1, <1>2, <1>9, SaysLess
<1>11. /\ speaker'.hears \in Seq(ProbePackets)
       /\ \A i \in HeardCommands' : i \in HeardCommands /\ speaker'.hears[i] = speaker.hears[i]
  <2>1. CASE speaker'.hears = speaker.hears
    BY <1>1, <2>1 DEF SpeakerRecords, HeardCommands
  <2>2. CASE speaker'.hears = Append(speaker.hears, e)
    BY <1>1, <1>4, <2>2, HearsMore
  <2> QED BY <1>9, <2>1, <2>2
<1>12. ProbeTypeOK'
  <2>1. speaker' \in SpeakerRecords
    <3>1. CASE speaker' = read
      BY <1>5, <3>1
    <3>2. CASE speaker' = [read EXCEPT !.hears = Append(@, e)]
      <4>1. speaker' = [read EXCEPT !.hears = speaker'.hears]
        BY <1>5, <3>2 DEF SpeakerRecords
      <4> QED BY <1>5, <1>11, <4>1 DEF SpeakerRecords
    <3> QED BY <1>6, <3>1, <3>2
  <2> QED BY <1>1, <1>2, <1>7, <2>1 DEF ProbeTypeOK
<1>13. AtMostOne'
  BY <1>1, <1>7, <1>8, <1>10, <1>11 DEF AtMostOne
<1>14. TakenBack'
  BY <1>1, <1>2, <1>7, <1>8, <1>9, <1>10 DEF TakenBack
<1>15. SinksAsked'
  BY <1>1, <1>7, <1>11 DEF SinksAsked
<1> QED BY <1>8, <1>12, <1>13, <1>14, <1>15 DEF ProbeInv

(* The headset's answer to the command is read. *)
LEMMA ProbeReadsAnswer ==
    ASSUME ProbeInv, ReadsAnswer
    PROVE  ProbeInv'
<1>1. /\ probe \in ProbeRecords /\ tap \in TapRecords /\ speaker \in SpeakerRecords
      /\ ProbeProgress /\ EndpointTold /\ AtMostOne /\ TakenBack /\ SinksAsked
  BY DEF ProbeInv, ProbeTypeOK
<1> DEFINE p == Head(speaker.says)
           c == Counted(probe)
<1>2. probe.pc = "reads" /\ speaker.says # <<>> /\ p.type # "command" /\ tap' = tap
      /\ speaker' = [speaker EXCEPT !.says = Tail(@)]
      /\ probe' = IF Judged(p) = "accept" THEN Accepted(c, p.body) ELSE Refused(c, Judged(p))
  BY DEF ReadsAnswer
<1>3. speaker.says \in Seq(ProbePackets) /\ p \in ProbePackets /\ Tail(speaker.says) \in Seq(ProbePackets)
  <2>1. speaker.says \in Seq(ProbePackets)
    BY <1>1 DEF SpeakerRecords
  <2> QED BY <1>2, <2>1, PacketTaken
<1>4. /\ c \in ProbeRecords /\ c.mode = probe.mode
      /\ c.pc = probe.pc /\ c.asks = probe.asks /\ c.sinks = probe.sinks /\ c.result = probe.result
      /\ c.configured = probe.configured /\ c.started = probe.started /\ c.available = probe.available
  <2> DEFINE label == IF probe.asks = "discover" THEN 1 ELSE (probe.label + 1) % 16
  <2>1. label \in Nat
    <3>1. probe.label + 1 \in Nat
      BY <1>1 DEF ProbeRecords
    <3> DEFINE m == probe.label + 1
    <3>2. m \in Nat
      BY <3>1
    <3> HIDE DEF m
    <3>3. m % 16 \in Nat
      BY <3>2
    <3> QED BY <3>3 DEF m
  <2>2. c = [probe EXCEPT !.peers = 0, !.label = label]
    BY DEF Counted
  <2> HIDE DEF label, c
  <2> QED BY <1>1, <2>1, <2>2 DEF ProbeRecords
<1>5. p.body \in Seq(Sinks) /\ Judged(p) \in {"accept", "reject", "unexpected"}
      /\ (Judged(p) = "accept" => p.type = "accept" /\ p.signal = probe.asks)
  BY <1>2, <1>3 DEF ProbePackets, Judged
<1> HIDE DEF p, c
<1>6. /\ probe' \in ProbeRecords /\ probe'.pc \notin {"reads", "unanswered"}
      /\ ProbeProgress'
      /\ probe'.sinks = <<>> => probe.sinks = <<>> /\ probe'.asks = probe.asks
      /\ probe'.pc = "closes" => ~probe'.available
      /\ Sure' => /\ Sure
                  /\ probe'.asks \in Queries => probe.asks \in Queries
                  /\ probe'.pc # "closes"
                  /\ probe'.pc = "released" =>
                        probe.asks \in {"close", "abort"} /\ p.type = "accept" /\ p.signal = probe.asks
  <2>1. CASE Judged(p) = "accept"
    <3>1. probe' = Accepted(c, p.body)
      BY <1>2, <2>1
    <3>2. /\ probe' \in ProbeRecords /\ probe'.pc \notin {"reads", "unanswered"}
          /\ ProbeProgress'
          /\ probe'.sinks = <<>> => probe.sinks = <<>> /\ probe'.asks = probe.asks
          /\ probe'.pc = "closes" => ~probe'.available
          /\ Sure' => /\ Sure
                      /\ probe'.asks \in Queries => probe.asks \in Queries
                      /\ probe'.pc # "closes"
                      /\ probe'.pc = "released" => probe.asks \in {"close", "abort"}
      BY <1>2, <1>4, <1>5, <3>1, AcceptedProbe
    <3> QED BY <1>5, <2>1, <3>2
  <2>2. CASE Judged(p) # "accept"
    <3>1. Judged(p) \in {"reject", "none", "unexpected"} /\ probe' = Refused(c, Judged(p))
      BY <1>2, <1>5, <2>2
    <3>2. probe.pc \in {"reads", "unanswered"}
      BY <1>2
    <3>3. /\ probe' \in ProbeRecords /\ probe'.pc \notin {"reads", "unanswered"}
          /\ ProbeProgress'
          /\ probe'.sinks = <<>> => probe.sinks = <<>> /\ probe'.asks = probe.asks
          /\ probe'.pc = "closes" => ~probe'.available
          /\ Sure' => /\ Sure /\ probe.asks \in Queries /\ probe'.asks \in Queries
                      /\ probe'.pc = "writes"
      BY <1>4, <3>1, <3>2, RefusedProbe
    <3> QED BY <3>3
  <2> QED BY <2>1, <2>2
<1>7. speaker'.says = Tail(speaker.says) /\ speaker'.state = speaker.state
      /\ speaker'.hears = speaker.hears /\ speaker' \in SpeakerRecords
  BY <1>1, <1>2, <1>3 DEF SpeakerRecords
<1>8. /\ 1 \in SaidAnswers /\ speaker.says[1] = p
      /\ \A i \in SaidAnswers' :
            i \in Nat \ {0} /\ i + 1 \in SaidAnswers /\ speaker'.says[i] = speaker.says[i + 1]
  BY <1>1, <1>2, <1>7, SaysLess DEF p
<1>9. HeardCommands' = HeardCommands
  BY <1>7 DEF HeardCommands
<1>10. ASSUME Sure PROVE HeardCommands = {} /\ SaidAnswers' = {}
  <2>1. HeardCommands = {} /\ \A i, j \in SaidAnswers : i = j
    BY <1>1, <1>8, <1>10 DEF AtMostOne
  <2>2. ASSUME NEW i \in SaidAnswers' PROVE FALSE
    <3>1. i \in Nat \ {0} /\ i + 1 = 1
      BY <1>8, <2>1, <2>2
    <3> QED BY <3>1
  <2> QED BY <2>1, <2>2
<1>11. ProbeTypeOK'
  BY <1>1, <1>2, <1>6, <1>7 DEF ProbeTypeOK
<1>12. AtMostOne'
  BY <1>6, <1>9, <1>10 DEF AtMostOne
<1>13. TakenBack'
  <2> SUFFICES ASSUME Sure'
               PROVE  /\ probe'.asks \in Queries => speaker'.state = "idle"
                      /\ probe'.pc \in {"released", "closes"} => speaker'.state = "idle"
    BY <1>6, <1>10 DEF TakenBack
  <2>1. Sure
    BY <1>6
  <2>2. probe'.asks \in Queries => speaker'.state = "idle"
    BY <1>1, <1>6, <1>7, <2>1 DEF TakenBack
  <2>3. probe'.pc \in {"released", "closes"} => speaker'.state = "idle"
    BY <1>1, <1>6, <1>7, <1>8, <2>1 DEF TakenBack
  <2> QED BY <2>2, <2>3
<1>14. SinksAsked'
  BY <1>1, <1>6, <1>7, <1>9 DEF SinksAsked
<1>15. EndpointTold'
  BY <1>6 DEF EndpointTold
<1> QED BY <1>6, <1>11, <1>12, <1>13, <1>14, <1>15 DEF ProbeInv

(* No answer came in time. *)
LEMMA ProbeGivesUp ==
    ASSUME ProbeInv, ReadFails \/ Unanswered
    PROVE  ProbeInv'
<1>1. /\ probe \in ProbeRecords /\ tap \in TapRecords
      /\ ProbeProgress /\ EndpointTold
  BY DEF ProbeInv, ProbeTypeOK
<1>2. speaker' = speaker /\ tap' = tap
  BY DEF ReadFails, Unanswered, OnlyProbe
<1>3. CASE ReadFails
  <2>1. /\ probe.pc = "reads"
        /\ probe' \in ProbeRecords /\ probe'.pc = "unanswered" /\ probe'.asks = probe.asks
        /\ probe'.sinks = probe.sinks /\ probe'.result = probe.result
        /\ probe'.configured = probe.configured /\ probe'.started = probe.started
        /\ probe'.available = probe.available
    BY <1>1, <1>3 DEF ReadFails, GoesTo, ProbeRecords, ProbePlaces, Exchanging
  <2>2. ProbeProgress' /\ EndpointTold' /\ (Sure' <=> Sure)
    BY <1>1, <2>1 DEF ProbeProgress, EndpointTold, Sure, Exchanging, Streams
  <2> QED BY <1>1, <1>2, <2>1, <2>2, ProbeMoves
<1>4. CASE Unanswered
  <2> DEFINE c == [probe EXCEPT !.peers = 0]
  <2>1. probe.pc \in {"reads", "unanswered"} /\ probe' = Refused(c, "none")
    BY <1>4 DEF Unanswered
  <2>2. /\ c \in ProbeRecords
        /\ c.pc = probe.pc /\ c.asks = probe.asks /\ c.sinks = probe.sinks /\ c.result = probe.result
        /\ c.configured = probe.configured /\ c.started = probe.started /\ c.available = probe.available
    BY <1>1 DEF ProbeRecords
  <2> HIDE DEF c
  <2>3. "none" \in {"reject", "none", "unexpected"}
    OBVIOUS
  <2>4. /\ probe' \in ProbeRecords /\ ProbeProgress'
        /\ probe'.sinks = <<>> => probe.sinks = <<>> /\ probe'.asks = probe.asks
        /\ probe'.pc = "closes" => ~probe'.available
        /\ ~Sure'
    BY <2>1, <2>2, <2>3, RefusedProbe
  <2>5. EndpointTold'
    BY <2>4 DEF EndpointTold
  <2> QED BY <1>1, <1>2, <2>4, <2>5, ProbeMoves
<1> QED BY <1>3, <1>4

(* The headset answers the command it hears first. *)
LEMMA HeadsetKeepsAnswering ==
    ASSUME ProbeInv, HeadsetAnswers
    PROVE  ProbeInv'
<1>1. /\ probe \in ProbeRecords /\ tap \in TapRecords /\ speaker \in SpeakerRecords
      /\ ProbeProgress /\ EndpointTold /\ AtMostOne /\ TakenBack /\ SinksAsked
  BY DEF ProbeInv, ProbeTypeOK
<1> DEFINE p == Head(speaker.hears)
           read == [speaker EXCEPT !.hears = Tail(@)]
<1>2. speaker.hears # <<>> /\ p.type = "command" /\ probe' = probe /\ tap' = tap
  BY DEF HeadsetAnswers
<1>3. speaker.hears \in Seq(ProbePackets) /\ p \in ProbePackets /\ Tail(speaker.hears) \in Seq(ProbePackets)
  <2>1. speaker.hears \in Seq(ProbePackets)
    BY <1>1 DEF SpeakerRecords
  <2> QED BY <1>2, <2>1, PacketTaken
<1>4. p.label \in Nat /\ p.signal \in Queries \cup Setting \cup Releasing
  BY <1>3 DEF ProbePackets
<1>5. 1 \in HeardCommands /\ speaker.hears[1] = p
  <2> DEFINE q == speaker.hears
  <2>1. q \in Seq(ProbePackets) /\ q # <<>>
    BY <1>2, <1>3
  <2>2. Len(q) \in Nat \ {0} /\ Head(q) = q[1]
    <3> HIDE DEF q
    <3> QED BY <2>1, PacketTaken
  <2> QED BY <1>2, <2>2 DEF HeardCommands
<1>6. Answer(p) \in Seq(Sinks)
  <2>1. CASE p.signal = "discover"
    BY <1>1, <2>1 DEF Answer, SpeakerRecords
  <2>2. CASE p.signal \in {"capabilities", "legacy"}
    <3>1. probe.sinks # <<>> /\ probe.sinks \in Seq(Sinks)
      BY <1>1, <1>5, <2>2 DEF SinksAsked, ProbeRecords
    <3>2. Head(probe.sinks) \in Sinks
      BY <3>1, PacketTaken
    <3>3. <<Head(probe.sinks)>> \in Seq(Sinks)
      BY <3>2
    <3> QED BY <2>2, <3>3 DEF Answer
  <2>3. CASE p.signal \notin {"discover", "capabilities", "legacy"}
    BY <2>3 DEF Answer
  <2> QED BY <2>1, <2>2, <2>3
<1>7. PICK type \in {"accept", "reject"}, body \in Seq(Sinks), state \in SpeakerStates :
        /\ speaker' = [read EXCEPT !.state = state,
                                   !.says = Append(speaker.says, Packet(type, p.label, p.signal, body))]
        /\ p.signal \in Queries => state = speaker.state
        /\ type = "accept" /\ p.signal \in {"close", "abort"} => state = "idle"
  <2>1. speaker.state \in SpeakerStates /\ <<>> \in Seq(Sinks)
    BY <1>1 DEF SpeakerRecords
  <2>2. CASE speaker.state \in DOMAIN After(p.signal) /\
             speaker' = [read EXCEPT !.state = After(p.signal)[speaker.state],
                                     !.says = Append(speaker.says, Packet("accept", p.label, p.signal, Answer(p)))]
    <3> DEFINE state == After(p.signal)[speaker.state]
    <3>1. /\ state \in SpeakerStates /\ (p.signal \in Queries => state = speaker.state)
          /\ p.signal \in {"close", "abort"} => state = "idle"
      BY <1>4, <2>1, <2>2, AfterFits
    <3>2. speaker' = [read EXCEPT !.state = state,
                          !.says = Append(speaker.says, Packet("accept", p.label, p.signal, Answer(p)))]
      BY <2>2
    <3> HIDE DEF state, p, read
    <3> QED BY <1>6, <3>1, <3>2
  <2>3. CASE speaker' = [read EXCEPT !.says = Append(speaker.says, Packet("reject", p.label, p.signal, <<>>))]
    <3>1. speaker' = [read EXCEPT !.state = speaker.state,
                                  !.says = Append(speaker.says, Packet("reject", p.label, p.signal, <<>>))]
      BY <1>1, <2>3 DEF SpeakerRecords
    <3> HIDE DEF p, read
    <3> QED BY <2>1, <3>1
  <2> QED BY <2>2, <2>3 DEF HeadsetAnswers
<1> DEFINE e == Packet(type, p.label, p.signal, body)
<1>8. e \in ProbePackets /\ e.type = type /\ e.signal = p.signal
  BY <1>4, PacketsFit
<1> HIDE DEF e, p
<1>9. Append(speaker.says, e) \in Seq(ProbePackets)
  <2>1. speaker.says \in Seq(ProbePackets)
    BY <1>1 DEF SpeakerRecords
  <2> QED BY <1>8, <2>1, PacketAppended
<1>10. speaker' = [speaker EXCEPT !.hears = Tail(speaker.hears), !.state = state,
                                  !.says = Append(speaker.says, e)]
  BY <1>7 DEF e
<1>11. /\ speaker' \in SpeakerRecords /\ speaker'.hears = Tail(speaker.hears)
       /\ speaker'.says = Append(speaker.says, e) /\ speaker'.state = state
  BY <1>1, <1>3, <1>9, <1>10 DEF SpeakerRecords
<1>12. \A i \in HeardCommands' :
          i \in Nat \ {0} /\ i + 1 \in HeardCommands /\ speaker'.hears[i] = speaker.hears[i + 1]
  BY <1>1, <1>2, <1>11, HearsLess
<1>13. \A i \in SaidAnswers' :
          \/ i \in SaidAnswers /\ speaker'.says[i] = speaker.says[i]
          \/ i = Len(speaker.says) + 1 /\ speaker'.says[i] = e
  BY <1>1, <1>8, <1>11, SaysMore
<1>14. ASSUME Sure
       PROVE  /\ HeardCommands' = {} /\ SaidAnswers = {} /\ p.signal = probe.asks
              /\ probe.pc \in {"reads", "unanswered"}
  <2>1. /\ SaidAnswers = {} /\ p.signal = probe.asks /\ probe.pc \in {"reads", "unanswered"}
        /\ \A i \in HeardCommands : i = 1
    BY <1>1, <1>5, <1>14 DEF AtMostOne
  <2>2. ASSUME NEW i \in HeardCommands' PROVE FALSE
    <3>1. i \in Nat \ {0} /\ i + 1 = 1
      BY <1>12, <2>1, <2>2
    <3> QED BY <3>1
  <2> QED BY <2>1, <2>2
<1>15. ProbeTypeOK' /\ ProbeProgress' /\ EndpointTold' /\ (Sure' <=> Sure)
  BY <1>1, <1>2, <1>11 DEF ProbeTypeOK, ProbeProgress, EndpointTold, Sure
<1>16. AtMostOne'
  BY <1>2, <1>8, <1>13, <1>14, <1>15 DEF AtMostOne
<1>17. TakenBack'
  <2> SUFFICES ASSUME Sure'
               PROVE  /\ probe.asks \in Queries => state = "idle"
                      /\ \A i \in SaidAnswers' :
                            speaker'.says[i].type = "accept" /\ speaker'.says[i].signal \in {"close", "abort"}
                              => state = "idle"
                      /\ probe.pc \in {"released", "closes"} => state = "idle"
    BY <1>2, <1>11 DEF TakenBack
  <2>1. Sure /\ SaidAnswers = {} /\ p.signal = probe.asks /\ probe.pc \in {"reads", "unanswered"}
    BY <1>14, <1>15
  <2>2. probe.asks \in Queries => state = "idle"
    BY <1>1, <1>7, <2>1 DEF TakenBack
  <2>3. ASSUME NEW i \in SaidAnswers',
               speaker'.says[i].type = "accept", speaker'.says[i].signal \in {"close", "abort"}
        PROVE  state = "idle"
    <3>1. speaker'.says[i] = e
      BY <1>13, <2>1
    <3> QED BY <1>7, <1>8, <2>3, <3>1
  <2> QED BY <2>1, <2>2, <2>3
<1>18. SinksAsked'
  BY <1>1, <1>2, <1>12 DEF SinksAsked
<1> QED BY <1>15, <1>16, <1>17, <1>18 DEF ProbeInv

(* What else the headset, the endpoint and the console do. *)
LEMMA OthersKeepProbe ==
    ASSUME ProbeInv, HeadsetHears \/ HeadsetAsks \/ LinkIsLost \/ EndpointChanges \/ ConsoleStops
    PROVE  ProbeInv'
<1>1. /\ probe \in ProbeRecords /\ tap \in TapRecords /\ speaker \in SpeakerRecords
      /\ ProbeProgress /\ EndpointTold /\ AtMostOne /\ TakenBack /\ SinksAsked
  BY DEF ProbeInv, ProbeTypeOK
<1>2. probe' = probe /\ tap' \in TapRecords /\ tap'.link = tap.link
  <2>1. CASE EndpointChanges
    <3>1. probe' = probe /\ tap' = [tap EXCEPT !.run = ~tap.run] /\ (~tap.run) \in BOOLEAN
      BY <2>1 DEF EndpointChanges
    <3> QED BY <1>1, <3>1 DEF TapRecords
  <2>2. CASE HeadsetHears \/ HeadsetAsks \/ LinkIsLost \/ ConsoleStops
    BY <1>1, <2>2 DEF HeadsetHears, HeadsetAsks, LinkIsLost, ConsoleStops
  <2> QED BY <2>1, <2>2
<1>3. ProbeProgress' /\ EndpointTold' /\ (Sure' <=> Sure)
  BY <1>1, <1>2 DEF ProbeProgress, EndpointTold, Sure
<1>4. CASE EndpointChanges \/ ConsoleStops
  <2>1. speaker' = speaker
    BY <1>4 DEF EndpointChanges, ConsoleStops
  <2>2. Sure' => Sure /\ (probe'.pc \in {"released", "closes"} => speaker.state = "idle")
    BY <1>1, <1>2, <1>3 DEF TakenBack
  <2> QED BY <1>1, <1>2, <1>3, <2>1, <2>2, ProbeMoves
<1>5. CASE LinkIsLost
  <2>1. /\ speaker' \in SpeakerRecords /\ speaker'.hears = <<>> /\ speaker'.says = <<>>
        /\ speaker'.state = "idle"
    <3>1. <<>> \in Seq(ProbePackets)
      OBVIOUS
    <3> QED BY <1>1, <1>5, <3>1 DEF LinkIsLost, SpeakerRecords, SpeakerStates
  <2>2. HeardCommands' = {} /\ SaidAnswers' = {}
    <3>1. Len(speaker'.hears) = 0 /\ Len(speaker'.says) = 0
      BY <2>1
    <3> QED BY <3>1 DEF HeardCommands, SaidAnswers
  <2>3. AtMostOne' /\ TakenBack' /\ SinksAsked'
    BY <1>1, <1>2, <2>1, <2>2 DEF AtMostOne, TakenBack, SinksAsked
  <2> QED BY <1>1, <1>2, <1>3, <2>1, <2>3 DEF ProbeInv, ProbeTypeOK
<1>6. CASE HeadsetHears
  <2> DEFINE state == IF Head(speaker.hears).signal = "close" THEN "idle" ELSE speaker.state
  <2>1. /\ speaker.hears # <<>>
        /\ speaker' = [speaker EXCEPT !.hears = Tail(@), !.state = state]
    BY <1>6 DEF HeadsetHears
  <2>2. state \in {speaker.state, "idle"}
    OBVIOUS
  <2> HIDE DEF state
  <2>3. speaker'.hears = Tail(speaker.hears) /\ speaker'.says = speaker.says /\ speaker'.state = state
    BY <1>1, <2>1 DEF SpeakerRecords
  <2>4. /\ speaker'.hears \in Seq(ProbePackets)
        /\ \A i \in HeardCommands' :
              i \in Nat \ {0} /\ i + 1 \in HeardCommands /\ speaker'.hears[i] = speaker.hears[i + 1]
    BY <1>1, <2>1, <2>3, HearsLess
  <2>5. speaker' \in SpeakerRecords
    <3>1. speaker' = [speaker EXCEPT !.hears = speaker'.hears, !.state = state]
      BY <1>1, <2>1 DEF SpeakerRecords
    <3> QED BY <1>1, <2>2, <2>4, <3>1 DEF SpeakerRecords, SpeakerStates
  <2>6. SaidAnswers' = SaidAnswers
    BY <2>3 DEF SaidAnswers
  <2>7. AtMostOne'
    <3> SUFFICES ASSUME Sure'
                 PROVE  /\ probe.pc \notin {"reads", "unanswered"} => HeardCommands' = {} /\ SaidAnswers' = {}
                        /\ HeardCommands' = {} \/ SaidAnswers' = {}
                        /\ \A i, j \in HeardCommands' : i = j
                        /\ \A i, j \in SaidAnswers' : i = j
                        /\ \A i \in HeardCommands' : speaker'.hears[i].signal = probe.asks
                        /\ \A i \in SaidAnswers' : speaker'.says[i].signal = probe.asks
      BY <1>2 DEF AtMostOne
    <3>1. \A i, j \in HeardCommands' : i = j
      BY <1>1, <1>3, <2>4 DEF AtMostOne
    <3> QED BY <1>1, <1>3, <2>3, <2>4, <2>6, <3>1 DEF AtMostOne
  <2>8. TakenBack'
    BY <1>1, <1>2, <1>3, <2>2, <2>3, <2>6 DEF TakenBack
  <2>9. SinksAsked'
    BY <1>1, <1>2, <2>4 DEF SinksAsked
  <2> QED BY <1>1, <1>2, <1>3, <2>5, <2>7, <2>8, <2>9 DEF ProbeInv, ProbeTypeOK
<1>7. CASE HeadsetAsks
  <2>1. PICK signal \in {"set", "suspend", "close"} :
          /\ signal \in {"suspend", "close"} => speaker.state = "streaming"
          /\ speaker' = [speaker EXCEPT !.says = Append(@, Packet("command", 0, signal, <<>>)),
                           !.commands = @ - 1,
                           !.state = IF signal = "suspend" THEN "open" ELSE @]
    BY <1>7 DEF HeadsetAsks
  <2> DEFINE e == Packet("command", 0, signal, <<>>)
             state == IF signal = "suspend" THEN "open" ELSE speaker.state
  <2>2. e \in ProbePackets /\ e.type = "command"
    <3>1. signal \in Queries \cup Setting \cup Releasing /\ <<>> \in Seq(Sinks) /\ 0 \in Nat
      BY DEF Setting, Releasing
    <3> QED BY <3>1 DEF Packet, ProbePackets
  <2>3. speaker.commands - 1 \in Nat
    BY <1>1, <1>7 DEF HeadsetAsks, SpeakerRecords
  <2>4. speaker' = [speaker EXCEPT !.says = Append(speaker.says, e), !.commands = speaker.commands - 1,
                                   !.state = state]
    BY <2>1
  <2>5. state \in SpeakerStates /\ (speaker.state = "idle" => state = "idle")
    BY <1>1, <2>1 DEF SpeakerRecords, SpeakerStates
  <2> HIDE DEF e, state
  <2>6. Append(speaker.says, e) \in Seq(ProbePackets)
    <3>1. speaker.says \in Seq(ProbePackets)
      BY <1>1 DEF SpeakerRecords
    <3> QED BY <2>2, <3>1, PacketAppended
  <2>7. /\ speaker' \in SpeakerRecords /\ speaker'.hears = speaker.hears
        /\ speaker'.says = Append(speaker.says, e) /\ speaker'.state = state
    BY <1>1, <2>3, <2>4, <2>5, <2>6 DEF SpeakerRecords
  <2>8. \A i \in SaidAnswers' : i \in SaidAnswers /\ speaker'.says[i] = speaker.says[i]
    BY <1>1, <2>2, <2>7, SaysMore
  <2>9. HeardCommands' = HeardCommands
    BY <2>7 DEF HeardCommands
  <2>10. AtMostOne'
    BY <1>1, <1>2, <1>3, <2>7, <2>8, <2>9 DEF AtMostOne
  <2>11. TakenBack'
    BY <1>1, <1>2, <1>3, <2>5, <2>7, <2>8 DEF TakenBack
  <2>12. SinksAsked'
    BY <1>1, <1>2, <2>7, <2>9 DEF SinksAsked
  <2> QED BY <1>1, <1>2, <1>3, <2>7, <2>10, <2>11, <2>12 DEF ProbeInv, ProbeTypeOK
<1> QED BY <1>4, <1>5, <1>6, <1>7

(* So it is an invariant. *)
LEMMA ProbeInvHolds == ProbeSpec => []ProbeInv
<1>1. ProbeInit => ProbeInv
  <2> SUFFICES ASSUME ProbeInit PROVE ProbeInv
    OBVIOUS
  <2>1. PICK mode \in Modes :
         probe = [pc |-> "starts", mode |-> mode, opens |-> 1, asks |-> "discover", label |-> 0,
                  peers |-> 0, sinks |-> <<>>, configured |-> FALSE, started |-> FALSE, result |-> FALSE,
                  available |-> FALSE, reporting |-> FALSE, sent |-> 0, code |-> 0]
    BY DEF ProbeInit
  <2>2. PICK sinks \in {<<"ldac">>, <<"other", "ldac">>, <<"invalid">>, <<>>}, commands \in 0..MaxHeadsetCommands :
         speaker = [link |-> FALSE, state |-> "idle", sinks |-> sinks,
                    hears |-> <<>>, says |-> <<>>, commands |-> commands]
    BY DEF ProbeInit
  <2>3. probe \in ProbeRecords
    <3>1. <<>> \in Seq(Sinks) /\ 0 \in Nat /\ 1 \in Nat /\ "discover" \in Queries
      BY DEF Queries
    <3> QED BY <2>1, <3>1 DEF ProbeRecords, ProbePlaces
  <2>4. speaker \in SpeakerRecords
    <3>1. sinks \in Seq(Sinks)
      <4>1. "ldac" \in Sinks /\ "other" \in Sinks /\ "invalid" \in Sinks
        BY DEF Sinks
      <4> HIDE DEF Sinks
      <4>2. <<"ldac">> \in Seq(Sinks) /\ <<"other", "ldac">> \in Seq(Sinks) /\ <<"invalid">> \in Seq(Sinks)
            /\ <<>> \in Seq(Sinks)
        BY <4>1
      <4> QED BY <4>2
    <3>2. commands \in Nat /\ <<>> \in Seq(ProbePackets)
      BY ProbeAssumption
    <3> QED BY <2>2, <3>1, <3>2 DEF SpeakerRecords, SpeakerStates
  <2>5. tap \in TapRecords
    BY DEF ProbeInit, TapRecords
  <2>6. HeardCommands = {} /\ SaidAnswers = {} /\ speaker.state = "idle"
    <3>1. speaker.hears = <<>> /\ speaker.says = <<>> /\ speaker.state = "idle"
      BY <2>2
    <3>2. Len(speaker.hears) = 0 /\ Len(speaker.says) = 0
      BY <3>1
    <3> QED BY <3>1, <3>2 DEF HeardCommands, SaidAnswers
  <2>7. ProbeProgress /\ EndpointTold
    BY <2>1 DEF ProbeProgress, EndpointTold, Exchanging, Streams, Queries, Releasing
  <2> QED BY <2>1, <2>3, <2>4, <2>5, <2>6, <2>7 DEF ProbeInv, ProbeTypeOK, AtMostOne, TakenBack, SinksAsked
<1>2. ProbeInv /\ [ProbeNext]_probeVars => ProbeInv'
  <2> SUFFICES ASSUME ProbeInv, [ProbeNext]_probeVars PROVE ProbeInv'
    OBVIOUS
  <2>1. CASE ProbeSteps
    BY <2>1, ProbeWorks, ProbeChannels, ProbeWrites, ProbeReadsCommand, ProbeReadsAnswer, ProbeGivesUp
       DEF ProbeSteps, Exchange
  <2>2. CASE HeadsetAnswers
    BY <2>2, HeadsetKeepsAnswering
  <2>3. CASE HeadsetHears \/ HeadsetAsks \/ LinkIsLost \/ EndpointChanges \/ ConsoleStops
    BY <2>3, OthersKeepProbe
  <2>4. CASE UNCHANGED probeVars
    <3>1. probe' = probe /\ speaker' = speaker /\ tap' = tap
      BY <2>4 DEF probeVars
    <3> QED BY <3>1 DEF ProbeInv, ProbeTypeOK, ProbeProgress, AtMostOne, TakenBack, SinksAsked, EndpointTold,
                        Sure, HeardCommands, SaidAnswers
  <2> QED BY <2>1, <2>2, <2>3, <2>4 DEF ProbeNext
<1> QED BY <1>1, <1>2, PTL DEF ProbeSpec

(* transport_probe.c: a process about to report success has taken its stream back. *)
LEMMA ProbeEndsWell == ProbeSpec => []ProbeEndsClean
<1>1. ProbeInv => ProbeEndsClean
  BY DEF ProbeInv, ProbeEndsClean, TakenBack, Sure, EndpointTold
<1> QED BY <1>1, ProbeInvHolds, PTL

---------------------------------------------------------------------------
(* Both processes, each with the stream to itself. *)

(* Whatever fails, is cancelled or goes unanswered, a candidate worker and the    *)
(* media process of the agent report a stream as ended, or a retry as harmless,   *)
(* only when the headset has been left so, and no channel stays open unnoticed    *)
(* (Finish and the worker's report, v1_transport_configuration_worker.cpp, and    *)
(* the cleanup of transport_probe.c).                                             *)
THEOREM ProcessesStayClean == BurstSpec /\ ProbeSpec => []ProcessesEndClean
<1>1. BurstEndsClean /\ ProbeEndsClean => ProcessesEndClean
  BY DEF ProcessesEndClean
<1> QED BY <1>1, BurstEndsWell, ProbeEndsWell, PTL
=============================================================================
