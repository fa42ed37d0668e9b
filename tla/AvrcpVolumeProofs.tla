-------------------------- MODULE AvrcpVolumeProofs --------------------------
(* Absolute volume for every scale of percentages and levels, every trace and any   *)
(* number of actions of the users and the links: the records keep their shape, a    *)
(* percentage survives the headset's scale, and the level of the headset is adopted *)
(* once in a generation.                                                            *)
EXTENDS AvrcpVolume, TLAPS

-------------------------------------------------------------------------------
(* The roundings.                                                                   *)

(* The sizes are numbers. *)
LEMMA VolumeConstants ==
    /\ TopPercent \in Nat \ {0} /\ TopLevel \in Nat \ {0} /\ TopPercent < TopLevel
    /\ Capacity \in Nat \ {0} /\ MaxStirs \in Nat
BY VolumeAssumption

(* The quotient is the number whose multiple is reached. *)
LEMMA QuotientIs ==
    ASSUME NEW a \in Nat, NEW n \in Nat \ {0}, NEW q \in Nat, n * q <= a, a < (n * q) + n
    PROVE  a \div n = q
BY SMT

(* A quotient leaves less than the divisor. *)
LEMMA QuotientLeaves ==
    ASSUME NEW a \in Nat, NEW n \in Nat \ {0}
    PROVE  a \div n \in Nat /\ n * (a \div n) <= a /\ a < (n * (a \div n)) + n
BY SMT

(* Products grow with a factor. *)
LEMMA ProductGrows ==
    ASSUME NEW a \in Nat, NEW b \in Nat, NEW n \in Nat, a <= b
    PROVE  n * a \in Nat /\ n * a <= n * b
BY SMT

(* Rounding to the nearest of another scale stays on that scale. *)
LEMMA RoundingStays ==
    ASSUME NEW from \in Nat \ {0}, NEW to \in Nat \ {0}, NEW x \in 0..from
    PROVE  ((x * to) + (from \div 2)) \div from \in 0..to
<1> DEFINE h == from \div 2
           a == (x * to) + h
           q == a \div from
<1>1. h \in Nat /\ h < from
  BY SMT
<1>2. x * to \in Nat /\ x * to <= from * to
  <2>1. to * x \in Nat /\ to * x <= to * from
    BY ProductGrows
  <2> QED BY <2>1, SMT
<1> HIDE DEF h
<1>3. a \in Nat /\ a < (from * to) + from
  BY <1>1, <1>2
<1>4. q \in Nat /\ from * q <= a
  BY <1>3, QuotientLeaves
<1>5. from * q < (from * to) + from
  <2>1. from * q \in Nat /\ from * to \in Nat
    BY <1>4, SMT
  <2> HIDE DEF q, a
  <2> QED BY <1>3, <1>4, <2>1
<1> HIDE DEF q
<1>6. CASE q > to
  <2>1. to + 1 \in Nat /\ to + 1 <= q
    BY <1>4, <1>6
  <2>2. from * (to + 1) <= from * q
    BY <2>1, <1>4, ProductGrows
  <2>3. from * (to + 1) = (from * to) + from
    BY SMT
  <2>4. from * to \in Nat /\ from * q \in Nat
    BY <1>4, SMT
  <2> QED BY <1>5, <2>2, <2>3, <2>4
<1> QED BY <1>4, <1>6 DEF q, h

(* A percentage and a level have an image on the other scale. *)
LEMMA ImagesExist ==
    /\ \A p \in Percents : ToLevel(p) \in Levels
    /\ \A level \in Levels : ToPercent(level) \in Percents
<1>1. ASSUME NEW p \in Percents PROVE ToLevel(p) \in Levels
  BY VolumeConstants, RoundingStays DEF Percents, Levels, ToLevel
<1>2. ASSUME NEW level \in Levels PROVE ToPercent(level) \in Percents
  BY VolumeConstants, RoundingStays DEF Percents, Levels, ToPercent
<1> QED BY <1>1, <1>2

(* Levels are finer than percentages, so a percentage survives being one. *)
LEMMA PercentSurvives ==
    ASSUME NEW p \in Percents
    PROVE  ToPercent(ToLevel(p)) = p
<1> DEFINE P == TopPercent
           L == TopLevel
           l == ToLevel(p)
           up == P \div 2
           down == L \div 2
<1>1. P \in Nat \ {0} /\ L \in Nat \ {0} /\ P < L /\ p \in Nat
  BY VolumeConstants DEF Percents
<1> HIDE DEF P, L
<1>2. /\ up \in Nat /\ down \in Nat /\ P <= (2 * up) + 1 /\ (2 * up) <= P
      /\ L <= (2 * down) + 1 /\ (2 * down) <= L
  BY <1>1, SMT
<1> HIDE DEF up, down
<1>3. /\ l \in Nat
      /\ P * l <= (p * L) + up /\ (p * L) + up < (P * l) + P
  <2>1. l = ((p * L) + up) \div P
    BY DEF l, ToLevel, P, L, up
  <2>2. p * L \in Nat
    BY <1>1, SMT
  <2>3. (p * L) + up \in Nat
    BY <2>2, <1>2
  <2> HIDE DEF l
  <2> QED BY <1>1, <2>1, <2>3, QuotientLeaves
<1> HIDE DEF l
<1>4. P * l \in Nat /\ p * L \in Nat /\ l * P = P * l /\ L * p = p * L
  BY <1>1, <1>3, SMT
<1>5. (L * p) <= (l * P) + down /\ (l * P) + down < (L * p) + L /\ (l * P) + down \in Nat
  <2> DEFINE x == P * l
             y == p * L
  <2>1. x \in Nat /\ y \in Nat /\ x <= y + up /\ y + up < x + P
    BY <1>3, <1>4
  <2> HIDE DEF x, y
  <2>2. y <= x + down /\ x + down < y + L /\ x + down \in Nat
    BY <1>1, <1>2, <2>1
  <2> QED BY <1>4, <2>2 DEF x, y
<1>6. ((l * P) + down) \div L = p
  BY <1>1, <1>5, QuotientIs
<1> QED BY <1>6 DEF ToPercent, l, P, L, down

(* The image of a volume is a level, what a level asks for is a volume, and *)
(* the level of a volume is the level of what it asks for.                          *)
LEMMA ProjectionSurvives ==
    /\ \A v \in Volumes : Project(v) \in Levels /\ Project(Asked(Project(v))) = Project(v)
    /\ \A level \in Levels : Asked(level) \in Volumes
<1>1. 0 \in Levels
  BY VolumeConstants DEF Levels
<1>2. ASSUME NEW v \in Volumes PROVE Project(v) \in Levels
  BY <1>1, ImagesExist DEF Project, Volumes
<1>3. ASSUME NEW level \in Levels PROVE Asked(level) \in Volumes
  <2>1. (level = 0) \in BOOLEAN
    OBVIOUS
  <2> QED BY <2>1, ImagesExist DEF Asked, Volumes
<1>4. ASSUME NEW v \in Volumes PROVE Project(Asked(Project(v))) = Project(v)
  <2> DEFINE l == Project(v)
             a == Asked(l)
  <2>1. a.muted = (l = 0) /\ a.percent = ToPercent(l)
    BY DEF Asked
  <2>2. CASE l = 0
    <3>1. a.muted = TRUE
      BY <2>1, <2>2
    <3> QED BY <2>2, <3>1 DEF Project
  <2>3. CASE l # 0
    <3>1. v.muted # TRUE /\ l = ToLevel(v.percent) /\ v.percent \in Percents
      BY <2>3 DEF Project, Volumes
    <3>2. a.percent = v.percent
      BY <2>1, <3>1, PercentSurvives
    <3>3. a.muted = FALSE
      BY <2>1, <2>3
    <3> HIDE DEF a
    <3>4. Project(a) = ToLevel(v.percent)
      BY <3>2, <3>3 DEF Project
    <3> QED BY <3>1, <3>4 DEF a
  <2> QED BY <2>2, <2>3
<1> QED BY <1>2, <1>3, <1>4

(* No volume is not a volume. *)
LEMMA NoVolumeIsNone == NoVolume \notin Volumes
<1>1. \A v \in Volumes : DOMAIN v = {"percent", "muted"}
  BY DEF Volumes
<1>2. "none" \in DOMAIN NoVolume
  BY DEF NoVolume
<1> QED BY <1>1, <1>2

-------------------------------------------------------------------------------
(* The mapper: what each observation returns and what it leaves alone.              *)

Reducers == [active : BOOLEAN, synced : BOOLEAN, sent : Levels,
             heard : Levels \cup {None}, pending : Levels \cup {None}]
Mappers == [acl : Nat, lease : BOOLEAN, sync : BOOLEAN,
            support : {"unknown", "supported", "unsupported"}, known : BOOLEAN,
            win : Volumes, seen : BOOLEAN, reducer : Reducers]
Results == [m : Mappers, send : Levels \cup {None}, set : Volumes \cup {NoVolume}]

\* A gate that is active has been synchronized, and the endpoint's callback is awaited
\* only for a level that was heard.
Sound(m) ==
    /\ m.reducer.active = TRUE => m.reducer.synced = TRUE
    /\ m.seen = FALSE => m.reducer.pending = None

\* The two mappers differ in their reducers only.
Alike(m, n) ==
    /\ n.acl = m.acl /\ n.lease = m.lease /\ n.sync = m.sync /\ n.support = m.support
    /\ n.known = m.known /\ n.win = m.win /\ n.seen = m.seen

(* None is no level. *)
LEMMA NoneIsNone == None \notin Levels /\ 0 \in Levels
BY VolumeConstants DEF None, Levels

(* A mapper with another reducer. *)
LEMMA WithReducer ==
    ASSUME NEW m \in Mappers, NEW r \in Reducers
    PROVE  /\ [m EXCEPT !.reducer = r] \in Mappers
           /\ [m EXCEPT !.reducer = r].reducer = r
           /\ Alike(m, [m EXCEPT !.reducer = r])
<1> DEFINE n == [m EXCEPT !.reducer = r]
<1>1. n \in Mappers /\ n.reducer = r
  BY DEF Mappers
<1>2. Alike(m, n)
  BY DEF Alike, Mappers
<1> QED BY <1>1, <1>2

(* A quiet result. *)
LEMMA QuietlyIs ==
    ASSUME NEW m \in Mappers
    PROVE  /\ Quietly(m) \in Results
           /\ Quietly(m).m = m /\ Quietly(m).send = None /\ Quietly(m).set = NoVolume
BY DEF Quietly, Results

(* The endpoint's volume is sent. *)
LEMMA AuthoritativeIs ==
    ASSUME NEW m \in Mappers, NEW r, r = Authoritative(m)
    PROVE  /\ r \in Results /\ Alike(m, r.m)
           /\ r.send = Project(m.win) /\ r.send # None /\ r.set = NoVolume
           /\ r.m.reducer.active = m.reducer.active /\ r.m.reducer.synced = TRUE
           /\ r.m.reducer.sent = Project(m.win) /\ r.m.reducer.pending = m.reducer.pending
<1>1. Project(m.win) \in Levels
  BY ProjectionSurvives DEF Mappers
<1> DEFINE level == Project(m.win)
           reducer == [m.reducer EXCEPT !.synced = TRUE, !.sent = level]
<1>2. m.reducer \in Reducers
  BY DEF Mappers
<1> HIDE DEF level
<1>3. /\ reducer \in Reducers /\ reducer.synced = TRUE /\ reducer.sent = level
      /\ reducer.active = m.reducer.active /\ reducer.pending = m.reducer.pending
  BY <1>1, <1>2 DEF Reducers, level
<1>4. [m EXCEPT !.reducer.synced = TRUE, !.reducer.sent = level] = [m EXCEPT !.reducer = reducer]
  BY DEF Mappers
<1> HIDE DEF reducer
<1>5. r = [m |-> [m EXCEPT !.reducer = reducer], send |-> level, set |-> NoVolume]
  BY <1>4 DEF Authoritative, level
<1> DEFINE n == [m EXCEPT !.reducer = reducer]
<1>6. n \in Mappers /\ n.reducer = reducer /\ Alike(m, n)
  BY <1>3, WithReducer
<1> HIDE DEF n
<1>7. r.m = n /\ r.send = level /\ r.set = NoVolume /\ r \in Results
  BY <1>1, <1>5, <1>6 DEF n, Results, level
<1>8. level # None
  BY <1>1, NoneIsNone DEF level
<1> QED BY <1>3, <1>6, <1>7, <1>8 DEF level

(* The gate's session begins once. *)
LEMMA ActivateIs ==
    ASSUME NEW m \in Mappers, Sound(m), NEW r, r = ActivateIfAuthorized(m)
    PROVE  /\ r \in Results /\ Alike(m, r.m) /\ Sound(r.m)
           /\ r.set = NoVolume
           /\ m.reducer.active = TRUE => r = Quietly(m)
           /\ GateCanSynchronize(m) => r.m.reducer.active = TRUE
           /\ r.send # None => m.lease = TRUE
<1>1. CASE GateCanSynchronize(m) /\ ~m.reducer.active
  <2> DEFINE reducer == [Reducer EXCEPT !.active = TRUE]
             n == [m EXCEPT !.reducer = reducer]
  <2>1. reducer \in Reducers /\ reducer.active = TRUE /\ reducer.pending = None
    BY NoneIsNone DEF Reducer, Reducers
  <2> HIDE DEF reducer
  <2>2. n \in Mappers /\ n.reducer = reducer /\ Alike(m, n)
    BY <2>1, WithReducer
  <2>3. r = Authoritative(n)
    BY <1>1 DEF ActivateIfAuthorized, reducer
  <2> HIDE DEF n
  <2>4. /\ r \in Results /\ Alike(n, r.m) /\ r.set = NoVolume
        /\ r.m.reducer.active = TRUE /\ r.m.reducer.synced = TRUE /\ r.m.reducer.pending = None
    BY <2>1, <2>2, <2>3, AuthoritativeIs
  <2>5. Alike(m, r.m)
    BY <2>2, <2>4 DEF Alike
  <2>6. Sound(r.m)
    BY <2>4 DEF Sound
  <2>7. m.lease = TRUE /\ m.reducer.active # TRUE
    BY <1>1 DEF GateCanSynchronize, Mappers
  <2> QED BY <2>4, <2>5, <2>6, <2>7
<1>2. CASE ~(GateCanSynchronize(m) /\ ~m.reducer.active)
  <2>1. r = Quietly(m)
    BY <1>2 DEF ActivateIfAuthorized
  <2>2. r.m = m /\ r.send = None /\ r.set = NoVolume /\ r \in Results
    BY <2>1, QuietlyIs
  <2>3. m.reducer.active \in BOOLEAN
    BY DEF Mappers, Reducers
  <2>4. GateCanSynchronize(m) => m.reducer.active = TRUE
    BY <1>2, <2>3
  <2>5. Alike(m, r.m) /\ Sound(r.m)
    BY <2>2 DEF Alike
  <2> QED BY <2>1, <2>2, <2>4, <2>5
<1> QED BY <1>1, <1>2

(* The filter drops a level, and only before the headset's own was heard. *)
LEMMA FilteredIs ==
    ASSUME NEW r \in Results, NEW s, s = Filtered(r)
    PROVE  /\ s \in Results /\ s.m = r.m /\ s.set = r.set
           /\ r.m.seen = TRUE => s.send = r.send
           /\ s.send # None => r.m.seen = TRUE /\ s.send = r.send
<1>1. r.m.seen \in BOOLEAN
  BY DEF Results, Mappers
<1>2. CASE r.m.seen = TRUE
  BY <1>2 DEF Filtered
<1>3. CASE r.m.seen = FALSE
  <2>1. s = [r EXCEPT !.send = None]
    BY <1>3 DEF Filtered
  <2>2. s \in Results /\ s.m = r.m /\ s.set = r.set /\ s.send = None
    BY <2>1 DEF Results
  <2> QED BY <1>3, <2>2
<1> QED BY <1>1, <1>2, <1>3

CapabilityGives(m, b, r) ==
    /\ r \in Results /\ Sound(r.m) /\ r.set = NoVolume
    /\ r.m.acl = m.acl /\ r.m.lease = m.lease /\ r.m.sync = m.sync
    /\ r.m.known = m.known /\ r.m.win = m.win /\ r.m.seen = m.seen
    /\ r.m.support = IF b = TRUE THEN "supported" ELSE "unsupported"
    /\ r.send # None => m.seen = TRUE /\ m.lease = TRUE
    /\ b = TRUE /\ m.lease = TRUE /\ m.sync = TRUE /\ m.known = TRUE
         => r.m.reducer.active = TRUE

(* What the headset's capability makes of the mapper. *)
LEMMA CapabilityIs ==
    ASSUME NEW m \in Mappers, Sound(m), NEW b \in BOOLEAN, NEW r, r = ObserveCapability(m, b)
    PROVE  CapabilityGives(m, b, r)
<1> USE DEF CapabilityGives
<1>1. CASE b = TRUE
  <2> DEFINE n == [m EXCEPT !.support = "supported"]
             a == ActivateIfAuthorized(n)
  <2>1. /\ n \in Mappers /\ n.support = "supported" /\ n.acl = m.acl /\ n.lease = m.lease
        /\ n.sync = m.sync /\ n.known = m.known /\ n.win = m.win /\ n.seen = m.seen
        /\ n.reducer = m.reducer
    BY DEF Mappers
  <2>2. Sound(n)
    BY <2>1 DEF Sound
  <2>3. r = Filtered(a)
    BY <1>1 DEF ObserveCapability
  <2> HIDE DEF n
  <2>4. /\ a \in Results /\ Alike(n, a.m) /\ Sound(a.m) /\ a.set = NoVolume
        /\ GateCanSynchronize(n) => a.m.reducer.active = TRUE
        /\ a.send # None => n.lease = TRUE
    BY <2>1, <2>2, ActivateIs
  <2> HIDE DEF a
  <2>5. /\ r \in Results /\ r.m = a.m /\ r.set = NoVolume
        /\ r.send # None => a.m.seen = TRUE /\ r.send = a.send
    BY <2>3, <2>4, FilteredIs
  <2>6. m.lease = TRUE /\ m.sync = TRUE /\ m.known = TRUE => GateCanSynchronize(n)
    BY <2>1 DEF GateCanSynchronize
  <2> QED BY <1>1, <2>1, <2>4, <2>5, <2>6 DEF Alike
<1>2. CASE b = FALSE
  <2> DEFINE n == [m EXCEPT !.support = "unsupported", !.reducer = Reducer]
  <2>1. Reducer \in Reducers /\ Reducer.pending = None /\ Reducer.active = FALSE
    BY NoneIsNone DEF Reducer, Reducers
  <2>2. /\ n \in Mappers /\ n.support = "unsupported" /\ n.acl = m.acl /\ n.lease = m.lease
        /\ n.sync = m.sync /\ n.known = m.known /\ n.win = m.win /\ n.seen = m.seen
        /\ n.reducer = Reducer
    BY <2>1 DEF Mappers
  <2>3. Sound(n)
    BY <2>1, <2>2 DEF Sound
  <2>4. r = Quietly(n)
    BY <1>2 DEF ObserveCapability
  <2> HIDE DEF n
  <2>5. r.m = n /\ r.send = None /\ r.set = NoVolume /\ r \in Results
    BY <2>2, <2>4, QuietlyIs
  <2> QED BY <1>2, <2>2, <2>3, <2>5
<1> QED BY <1>1, <1>2 DEF CapabilityGives

ReducedWindows(m, r) ==
    /\ r \in Results /\ Alike(m, r.m) /\ Sound(r.m) /\ r.set = NoVolume
    /\ r.m.reducer.active = m.reducer.active
    /\ r.m.reducer.pending = None
    /\ r.m.reducer.sent = Project(m.win)
    /\ r.send \in {None, Project(m.win)}
    /\ r.send = None => \/ m.reducer.pending = Project(m.win)
                        \/ m.reducer.pending = None /\ m.reducer.sent = Project(m.win)

(* The reducer's view of the endpoint. *)
LEMMA ReduceWindowsIs ==
    ASSUME NEW m \in Mappers, Sound(m), NEW r, r = ReduceWindows(m)
    PROVE  ReducedWindows(m, r)
<1> USE DEF ReducedWindows
<1> DEFINE level == Project(m.win)
           reducer == [m.reducer EXCEPT !.pending = None]
           free == [m EXCEPT !.reducer.pending = None]
           echo == [reducer EXCEPT !.sent = level]
           heard == [free EXCEPT !.reducer.sent = level]
<1>1. level \in Levels /\ level # None
  BY ProjectionSurvives, NoneIsNone DEF Mappers
<1>2. m.reducer \in Reducers
  BY DEF Mappers
<1>3. /\ reducer \in Reducers /\ reducer.pending = None /\ reducer.active = m.reducer.active
      /\ reducer.synced = m.reducer.synced /\ reducer.sent = m.reducer.sent
  BY <1>2 DEF Reducers
<1>4. free = [m EXCEPT !.reducer = reducer]
  BY DEF Mappers
<1> HIDE DEF reducer, level
<1>5. free \in Mappers /\ free.reducer = reducer /\ Alike(m, free)
  BY <1>3, <1>4, WithReducer
<1> HIDE DEF free
<1>6. Sound(free)
  BY <1>3, <1>5 DEF Sound, Alike
<1>7. /\ echo \in Reducers /\ echo.pending = None /\ echo.active = m.reducer.active
      /\ echo.synced = m.reducer.synced /\ echo.sent = level
  BY <1>1, <1>3 DEF Reducers
<1>8. heard = [free EXCEPT !.reducer = echo]
  BY <1>5 DEF Mappers
<1> HIDE DEF echo
<1>9. heard \in Mappers /\ heard.reducer = echo /\ Alike(free, heard)
  BY <1>5, <1>7, <1>8, WithReducer
<1> HIDE DEF heard
<1>10. Sound(heard) /\ Alike(m, heard)
  BY <1>5, <1>7, <1>9 DEF Sound, Alike
<1>11. r = CASE m.reducer.pending = level -> Quietly(heard)
             [] m.reducer.pending \notin {None, level} -> Authoritative(free)
             [] m.reducer.pending = None /\ m.reducer.synced /\ m.reducer.sent = level -> Quietly(m)
             [] OTHER -> Authoritative(m)
  BY DEF ReduceWindows, level, free, heard
<1>12. CASE m.reducer.pending = level
  <2>1. r = Quietly(heard)
    BY <1>1, <1>11, <1>12
  <2>2. r.m = heard /\ r.send = None /\ r.set = NoVolume /\ r \in Results
    BY <1>9, <2>1, QuietlyIs
  <2> QED BY <1>7, <1>9, <1>10, <1>12, <2>2 DEF level
<1>13. ASSUME NEW p \in Mappers, Alike(m, p), p.reducer.pending = None,
              p.reducer.active = m.reducer.active, r = Authoritative(p), m.reducer.pending # level
       PROVE  /\ r \in Results /\ Alike(m, r.m) /\ Sound(r.m) /\ r.set = NoVolume
              /\ r.m.reducer.active = m.reducer.active /\ r.m.reducer.pending = None
              /\ r.m.reducer.sent = level /\ r.send = level
  <2>1. /\ r \in Results /\ Alike(p, r.m) /\ r.send = Project(p.win) /\ r.set = NoVolume
        /\ r.m.reducer.active = p.reducer.active /\ r.m.reducer.synced = TRUE
        /\ r.m.reducer.sent = Project(p.win) /\ r.m.reducer.pending = p.reducer.pending
    BY <1>13, AuthoritativeIs
  <2>2. p.win = m.win
    BY <1>13 DEF Alike
  <2>3. Alike(m, r.m)
    BY <1>13, <2>1 DEF Alike
  <2>4. r.m.reducer.pending = None /\ r.m.reducer.active = m.reducer.active
    BY <1>13, <2>1
  <2>5. Sound(r.m)
    BY <2>1, <2>4 DEF Sound
  <2>6. r.send = level /\ r.m.reducer.sent = level
    BY <2>1, <2>2 DEF level
  <2> QED BY <2>1, <2>3, <2>4, <2>5, <2>6
<1>14. CASE m.reducer.pending = None /\ m.reducer.synced = TRUE /\ m.reducer.sent = level
  <2>1. r = Quietly(m)
    BY <1>1, <1>11, <1>14
  <2>2. r.m = m /\ r.send = None /\ r.set = NoVolume /\ r \in Results
    BY <2>1, QuietlyIs
  <2>3. Alike(m, r.m)
    BY <2>2 DEF Alike
  <2> QED BY <1>14, <2>2, <2>3 DEF level
<1>15. CASE m.reducer.pending # level /\ ~(m.reducer.pending = None /\ m.reducer.synced = TRUE /\ m.reducer.sent = level)
  <2>1. m.reducer.synced \in BOOLEAN
    BY <1>2 DEF Reducers
  <2>2. CASE m.reducer.pending # None
    <3>1. r = Authoritative(free)
      BY <1>1, <1>11, <1>15, <2>2
    <3>2. free.reducer.pending = None /\ free.reducer.active = m.reducer.active
      BY <1>3, <1>5
    <3>3. r.send # None
      BY <1>1, <1>5, <1>13, <1>15, <3>1, <3>2
    <3> QED BY <1>5, <1>13, <1>15, <3>1, <3>2, <3>3 DEF level
  <2>3. CASE m.reducer.pending = None
    <3>1. r = Authoritative(m)
      BY <1>1, <1>11, <1>15, <2>1, <2>3
    <3>2. Alike(m, m)
      BY DEF Alike
    <3>3. r.send # None
      BY <1>1, <1>13, <1>15, <2>3, <3>1, <3>2
    <3> QED BY <1>13, <1>15, <2>3, <3>1, <3>2, <3>3 DEF level
  <2> QED BY <2>2, <2>3
<1> QED BY <1>12, <1>14, <1>15 DEF ReducedWindows

WindowsGives(m, v, r) ==
    /\ r \in Results /\ Sound(r.m) /\ r.set = NoVolume
    /\ r.m.acl = m.acl /\ r.m.lease = m.lease /\ r.m.sync = m.sync
    /\ r.m.support = m.support /\ r.m.known = TRUE /\ r.m.win = v /\ r.m.seen = m.seen
    /\ r.send # None => m.seen = TRUE /\ m.lease = TRUE
    /\ m.lease = TRUE /\ m.sync = TRUE /\ m.support = "supported"
         => r.m.reducer.active = TRUE
    /\ /\ m.lease = TRUE /\ m.sync = TRUE /\ m.support = "supported"
       /\ m.reducer.active = TRUE /\ m.seen = TRUE
       => /\ r.m.reducer.pending = None
          /\ r.m.reducer.sent = Project(v)
          /\ r.send \in {None, Project(v)}
          /\ r.send = None => \/ m.reducer.pending = Project(v)
                              \/ m.reducer.pending = None /\ m.reducer.sent = Project(v)

(* What the endpoint's volume makes of the mapper. *)
LEMMA WindowsIs ==
    ASSUME NEW m \in Mappers, Sound(m), NEW v \in Volumes, NEW r, r = ObserveWindows(m, v)
    PROVE  WindowsGives(m, v, r)
<1> USE DEF WindowsGives
<1> DEFINE n == [m EXCEPT !.known = TRUE, !.win = v]
           a == IF GateCanSynchronize(n) /\ m.reducer.active
                THEN ReduceWindows(n) ELSE ActivateIfAuthorized(n)
<1>1. /\ n \in Mappers /\ n.support = m.support /\ n.acl = m.acl /\ n.lease = m.lease
      /\ n.sync = m.sync /\ n.known = TRUE /\ n.win = v /\ n.seen = m.seen
      /\ n.reducer = m.reducer
  BY DEF Mappers
<1>2. Sound(n)
  BY <1>1 DEF Sound
<1>3. r = Filtered(a)
  BY DEF ObserveWindows
<1> HIDE DEF n
<1>4. /\ GateCanSynchronize(n) => m.lease = TRUE
      /\ m.lease = TRUE /\ m.sync = TRUE /\ m.support = "supported" => GateCanSynchronize(n)
  BY <1>1 DEF GateCanSynchronize, Mappers
<1>5. m.reducer.active \in BOOLEAN
  BY DEF Mappers, Reducers
<1>6. /\ a \in Results /\ Alike(n, a.m) /\ Sound(a.m) /\ a.set = NoVolume
      /\ a.send # None => m.lease = TRUE
      /\ m.lease = TRUE /\ m.sync = TRUE /\ m.support = "supported" => a.m.reducer.active = TRUE
      /\ GateCanSynchronize(n) /\ m.reducer.active = TRUE
           => /\ a.m.reducer.pending = None
              /\ a.m.reducer.sent = Project(v)
              /\ a.send \in {None, Project(v)}
              /\ a.send = None => \/ m.reducer.pending = Project(v)
                                  \/ m.reducer.pending = None /\ m.reducer.sent = Project(v)
  <2>1. CASE GateCanSynchronize(n) /\ m.reducer.active = TRUE
    <3>1. a = ReduceWindows(n)
      BY <2>1
    <3> HIDE DEF a
    <3>0. ReducedWindows(n, a)
      BY <1>1, <1>2, <3>1, ReduceWindowsIs
    <3>2. /\ a \in Results /\ Alike(n, a.m) /\ Sound(a.m) /\ a.set = NoVolume
          /\ a.m.reducer.active = n.reducer.active /\ a.m.reducer.pending = None
          /\ a.m.reducer.sent = Project(n.win) /\ a.send \in {None, Project(n.win)}
          /\ a.send = None => \/ n.reducer.pending = Project(n.win)
                              \/ n.reducer.pending = None /\ n.reducer.sent = Project(n.win)
      BY <3>0 DEF ReducedWindows
    <3> QED BY <1>1, <1>4, <2>1, <3>2
  <2>2. CASE ~(GateCanSynchronize(n) /\ m.reducer.active = TRUE)
    <3>1. a = ActivateIfAuthorized(n)
      BY <1>5, <2>2
    <3> HIDE DEF a
    <3>2. /\ a \in Results /\ Alike(n, a.m) /\ Sound(a.m) /\ a.set = NoVolume
          /\ GateCanSynchronize(n) => a.m.reducer.active = TRUE
          /\ a.send # None => n.lease = TRUE
      BY <1>1, <1>2, <3>1, ActivateIs
    <3> QED BY <1>1, <1>4, <2>2, <3>2
  <2> QED BY <2>1, <2>2
<1> HIDE DEF a
<1>7. /\ r \in Results /\ r.m = a.m /\ r.set = NoVolume
      /\ a.m.seen = TRUE => r.send = a.send
      /\ r.send # None => a.m.seen = TRUE /\ r.send = a.send
  BY <1>3, <1>6, FilteredIs
<1>8. /\ a.m.acl = m.acl /\ a.m.lease = m.lease /\ a.m.sync = m.sync /\ a.m.support = m.support
      /\ a.m.known = TRUE /\ a.m.win = v /\ a.m.seen = m.seen
  BY <1>1, <1>6 DEF Alike
<1> QED BY <1>4, <1>6, <1>7, <1>8 DEF WindowsGives

ReducedLevel(m, level, c, r) ==
    /\ r \in Results /\ Alike(m, r.m) /\ r.send = None
    /\ r.m.reducer.active = m.reducer.active /\ r.m.reducer.synced = m.reducer.synced
    /\ r.m.reducer.sent = m.reducer.sent
    /\ c = FALSE => r = Quietly(m)
    /\ \/ /\ r.set = NoVolume /\ r.m.reducer.pending = m.reducer.pending
          /\ c = TRUE => m.reducer.heard = level \/ Project(m.win) = level
       \/ /\ r.set = Asked(level) /\ r.m.reducer.pending = level /\ c = TRUE

(* What a level of the headset makes of the reducer. *)
LEMMA ReduceXm5Is ==
    ASSUME NEW m \in Mappers, Sound(m), NEW level \in Levels, NEW c \in BOOLEAN,
           NEW r, r = ReduceXm5(m, level, c)
    PROVE  ReducedLevel(m, level, c, r)
<1> USE DEF ReducedLevel
<1> DEFINE reducer == [m.reducer EXCEPT !.heard = level]
           heard == [m EXCEPT !.reducer.heard = level]
           asked == [reducer EXCEPT !.pending = level]
           waits == [heard EXCEPT !.reducer.pending = level]
<1>1. m.reducer \in Reducers
  BY DEF Mappers
<1>2. /\ reducer \in Reducers /\ reducer.pending = m.reducer.pending
      /\ reducer.active = m.reducer.active
      /\ reducer.synced = m.reducer.synced /\ reducer.sent = m.reducer.sent
  BY <1>1 DEF Reducers
<1>3. heard = [m EXCEPT !.reducer = reducer]
  BY DEF Mappers
<1> HIDE DEF reducer
<1>4. heard \in Mappers /\ heard.reducer = reducer /\ Alike(m, heard)
  BY <1>2, <1>3, WithReducer
<1> HIDE DEF heard
<1>5. /\ asked \in Reducers /\ asked.pending = level /\ asked.active = m.reducer.active
      /\ asked.synced = m.reducer.synced /\ asked.sent = m.reducer.sent
  BY <1>2 DEF Reducers
<1>6. waits = [heard EXCEPT !.reducer = asked]
  BY <1>4 DEF Mappers
<1> HIDE DEF asked
<1>7. waits \in Mappers /\ waits.reducer = asked /\ Alike(heard, waits)
  BY <1>4, <1>5, <1>6, WithReducer
<1> HIDE DEF waits
<1>8. Alike(m, waits) /\ Alike(m, m)
  BY <1>4, <1>7 DEF Alike
<1>9. Asked(level) \in Volumes
  BY ProjectionSurvives
<1>10. CASE c = FALSE \/ m.reducer.heard = level
  <2>1. r = Quietly(m)
    BY <1>10 DEF ReduceXm5
  <2>2. r.m = m /\ r.send = None /\ r.set = NoVolume /\ r \in Results
    BY <2>1, QuietlyIs
  <2> QED BY <1>8, <1>10, <2>1, <2>2
<1>11. CASE c = TRUE /\ m.reducer.heard # level /\ Project(m.win) = level
  <2>1. r = Quietly(heard)
    BY <1>11 DEF ReduceXm5, heard
  <2>2. r.m = heard /\ r.send = None /\ r.set = NoVolume /\ r \in Results
    BY <1>4, <2>1, QuietlyIs
  <2> QED BY <1>2, <1>4, <1>11, <2>2
<1>12. CASE c = TRUE /\ m.reducer.heard # level /\ Project(m.win) # level
  <2>1. r = [m |-> waits, send |-> None, set |-> Asked(level)]
    BY <1>12 DEF ReduceXm5, heard, waits
  <2>2. r.m = waits /\ r.send = None /\ r.set = Asked(level) /\ r \in Results
    BY <1>7, <1>9, <2>1 DEF Results
  <2> QED BY <1>5, <1>7, <1>8, <1>12, <2>2
<1> QED BY <1>10, <1>11, <1>12 DEF ReducedLevel

LevelGives(m, level, c, r) ==
    /\ r \in Results /\ Sound(r.m) /\ r.send = None
    /\ r.m.acl = m.acl /\ r.m.lease = m.lease /\ r.m.sync = m.sync
    /\ r.m.support = m.support /\ r.m.known = m.known /\ r.m.win = m.win
    /\ r.m.seen = TRUE
    /\ r.m.reducer.active = m.reducer.active
    /\ r.set \in {NoVolume, Asked(level)}
    /\ c = FALSE /\ m.seen = TRUE => r.m = m /\ r.set = NoVolume
    /\ m.seen = TRUE
         => /\ r.m.reducer.sent = m.reducer.sent
            /\ \/ /\ r.set = NoVolume /\ r.m.reducer.pending = m.reducer.pending
                  /\ /\ c = TRUE
                     /\ GateCanSynchronize(m) /\ m.reducer.active = TRUE
                     => m.reducer.heard = level \/ Project(m.win) = level
               \/ r.set = Asked(level) /\ r.m.reducer.pending = level
    /\ m.seen = FALSE
         => /\ r.m.reducer.sent = level /\ r.m.reducer.pending \in {None, level}
            /\ r.set = NoVolume /\ m.lease = TRUE /\ m.sync = TRUE
                 => m.win = Asked(level) /\ r.m.reducer.pending = None

(* What a level of the headset makes of the mapper.  The first one in a generation is *)
(* the endpoint's from now on, unless it was already.                               *)
LEMMA Xm5Is ==
    ASSUME NEW m \in Mappers, Sound(m), NEW level \in Levels, NEW c \in BOOLEAN,
           NEW r, r = ObserveXm5(m, level, c)
    PROVE  LevelGives(m, level, c, r)
<1> USE DEF LevelGives
<1> DEFINE x == IF GateCanSynchronize(m) /\ m.reducer.active
                THEN ReduceXm5(m, level, c) ELSE Quietly(m)
           adopts == m.lease /\ m.sync /\ x.set = NoVolume /\ ~(m.known /\ m.win = Asked(level))
<1>1. m.reducer.active \in BOOLEAN /\ m.seen \in BOOLEAN
  BY DEF Mappers, Reducers
<1>2. Asked(level) \in Volumes /\ Asked(level) # NoVolume
  BY ProjectionSurvives, NoVolumeIsNone
<1>3. /\ x \in Results /\ Alike(m, x.m) /\ x.send = None
      /\ x.m.reducer.active = m.reducer.active /\ x.m.reducer.synced = m.reducer.synced
      /\ x.m.reducer.sent = m.reducer.sent
      /\ c = FALSE => x = Quietly(m)
      /\ \/ /\ x.set = NoVolume /\ x.m.reducer.pending = m.reducer.pending
            /\ c = TRUE /\ GateCanSynchronize(m) /\ m.reducer.active = TRUE
                 => m.reducer.heard = level \/ Project(m.win) = level
         \/ x.set = Asked(level) /\ x.m.reducer.pending = level
  <2>1. CASE GateCanSynchronize(m) /\ m.reducer.active = TRUE
    <3>1. x = ReduceXm5(m, level, c)
      BY <2>1
    <3> HIDE DEF x
    <3>0. ReducedLevel(m, level, c, x)
      BY <3>1, ReduceXm5Is
    <3>2. /\ x \in Results /\ Alike(m, x.m) /\ x.send = None
          /\ x.m.reducer.active = m.reducer.active /\ x.m.reducer.synced = m.reducer.synced
          /\ x.m.reducer.sent = m.reducer.sent
          /\ c = FALSE => x = Quietly(m)
          /\ \/ /\ x.set = NoVolume /\ x.m.reducer.pending = m.reducer.pending
                /\ c = TRUE => m.reducer.heard = level \/ Project(m.win) = level
             \/ /\ x.set = Asked(level) /\ x.m.reducer.pending = level /\ c = TRUE
      BY <3>0 DEF ReducedLevel
    <3> QED BY <2>1, <3>2
  <2>2. CASE ~(GateCanSynchronize(m) /\ m.reducer.active = TRUE)
    <3>1. x = Quietly(m)
      BY <1>1, <2>2
    <3> HIDE DEF x
    <3>2. x.m = m /\ x.send = None /\ x.set = NoVolume /\ x \in Results
      BY <3>1, QuietlyIs
    <3>3. Alike(m, m)
      BY DEF Alike
    <3> QED BY <2>2, <3>1, <3>2, <3>3
  <2> QED BY <2>1, <2>2
<1>4. r = IF m.seen THEN x
          ELSE [m |-> [x.m EXCEPT !.seen = TRUE, !.reducer.sent = level], send |-> None,
                set |-> IF adopts THEN Asked(level) ELSE x.set]
  BY DEF ObserveXm5
<1> HIDE DEF x
<1>5. CASE m.seen = TRUE
  <2>1. r = x
    BY <1>4, <1>5
  <2>2. Sound(r.m)
    BY <1>3, <1>5, <2>1 DEF Sound, Alike
  <2>3. /\ r.m.acl = m.acl /\ r.m.lease = m.lease /\ r.m.sync = m.sync
        /\ r.m.support = m.support /\ r.m.known = m.known /\ r.m.win = m.win
        /\ r.m.seen = TRUE
    BY <1>3, <1>5, <2>1 DEF Alike
  <2>4. c = FALSE => r.m = m /\ r.set = NoVolume
    BY <1>3, <2>1, QuietlyIs
  <2> QED BY <1>3, <1>5, <2>1, <2>2, <2>3, <2>4
<1>6. CASE m.seen = FALSE
  <2> DEFINE reducer == [x.m.reducer EXCEPT !.sent = level]
             n == [x.m EXCEPT !.seen = TRUE, !.reducer.sent = level]
             set == IF adopts THEN Asked(level) ELSE x.set
  <2>0. x.m \in Mappers /\ x.set \in Volumes \cup {NoVolume}
    BY <1>3 DEF Results
  <2>1. x.m.reducer \in Reducers
    BY <2>0 DEF Mappers
  <2>2. /\ reducer \in Reducers /\ reducer.sent = level /\ reducer.active = m.reducer.active
        /\ reducer.synced = m.reducer.synced /\ reducer.pending = x.m.reducer.pending
    BY <1>3, <2>1 DEF Reducers
  <2>3. n = [x.m EXCEPT !.seen = TRUE, !.reducer = reducer]
    BY <2>0 DEF Mappers
  <2> HIDE DEF reducer
  <2>4. /\ n \in Mappers /\ n.reducer = reducer /\ n.seen = TRUE
        /\ n.acl = x.m.acl /\ n.lease = x.m.lease /\ n.sync = x.m.sync
        /\ n.support = x.m.support /\ n.known = x.m.known /\ n.win = x.m.win
    BY <2>0, <2>2, <2>3 DEF Mappers
  <2> HIDE DEF n
  <2>5. /\ n.acl = m.acl /\ n.lease = m.lease /\ n.sync = m.sync
        /\ n.support = m.support /\ n.known = m.known /\ n.win = m.win
    BY <1>3, <2>4 DEF Alike
  <2>6. Sound(n)
    BY <2>2, <2>4 DEF Sound
  <2>7. set \in {NoVolume, Asked(level)} /\ set \in Volumes \cup {NoVolume}
    BY <1>2, <1>3
  <2>8. m.reducer.pending = None
    BY <1>6 DEF Sound
  <2>9. n.reducer.pending \in {None, level}
    BY <1>3, <2>2, <2>4, <2>8
  <2>10. ASSUME set = NoVolume, m.lease = TRUE, m.sync = TRUE
         PROVE  m.win = Asked(level) /\ n.reducer.pending = None
    <3>1. x.set = NoVolume /\ ~adopts
      BY <1>2, <2>10
    <3>2. m.win = Asked(level)
      BY <2>10, <3>1
    <3> QED BY <1>2, <1>3, <2>2, <2>4, <2>8, <3>1, <3>2
  <2> HIDE DEF set
  <2>11. r = [m |-> n, send |-> None, set |-> set]
    BY <1>4, <1>6 DEF n, set
  <2>12. r.m = n /\ r.send = None /\ r.set = set /\ r \in Results
    BY <2>4, <2>7, <2>11 DEF Results
  <2> QED BY <1>6, <2>2, <2>4, <2>5, <2>6, <2>7, <2>9, <2>10, <2>12
<1> QED BY <1>1, <1>5, <1>6 DEF LevelGives

RevokedGives(m, n) ==
    /\ n \in Mappers /\ Sound(n) /\ n.lease = FALSE
    /\ n.acl = m.acl /\ n.sync = m.sync /\ n.support = m.support
    /\ n.known = m.known /\ n.win = m.win /\ n.seen = m.seen

(* A session's end takes the lease. *)
LEMMA RevokedIs ==
    ASSUME NEW m \in Mappers, Sound(m), NEW n, n = Revoked(m)
    PROVE  RevokedGives(m, n)
<1> USE DEF RevokedGives
<1>1. Reducer \in Reducers /\ Reducer.pending = None /\ Reducer.active = FALSE
  BY NoneIsNone DEF Reducer, Reducers
<1>2. CASE m.lease = TRUE
  <2>1. n = [m EXCEPT !.lease = FALSE, !.reducer = Reducer]
    BY <1>2 DEF Revoked
  <2>2. /\ n \in Mappers /\ n.lease = FALSE /\ n.reducer = Reducer
        /\ n.acl = m.acl /\ n.sync = m.sync /\ n.support = m.support
        /\ n.known = m.known /\ n.win = m.win /\ n.seen = m.seen
    BY <1>1, <2>1 DEF Mappers
  <2>3. Sound(n)
    BY <1>1, <2>2 DEF Sound
  <2> QED BY <2>2, <2>3
<1>3. CASE m.lease = FALSE
  BY <1>3 DEF Revoked
<1>4. m.lease \in BOOLEAN
  BY DEF Mappers
<1> QED BY <1>2, <1>3, <1>4 DEF RevokedGives

-------------------------------------------------------------------------------
(* The invariant: the types of all there is, and that the level of the headset is   *)
(* taken unasked only by a mapper that has not heard the headset in its generation. *)

Packets == [kind : {"capability", "volume", "set"}, level : Levels \cup {None},
            changed : BOOLEAN]
Requests == {p \in Packets : p.kind = "set" => p.level \in Levels}
Answers == {p \in Packets : p.kind # "set" /\ (p.kind = "volume" => p.level \in Levels)}
Maybe == Volumes \cup {NoVolume}

Headsets == [volume : Levels, registered : BOOLEAN, told : BOOLEAN]
Airs == [out : Seq(Requests), in : Seq(Answers)]
TraceIsTyped(t) == t \in Seq(Answers) /\ Len(t) <= Capacity
Sinks == [level : Levels \cup {None}, volume : Maybe, published : Maybe]
Endpoints == [volume : Volumes, notices : Seq(Volumes), endpoint : BOOLEAN]
Hosts == [session : BOOLEAN, set : Maybe, read : Percents,
          pc : {"rest", "events", "mute", "readback", "read", "level", "consume",
                "begun", "query"},
          retries : BOOLEAN, bound : Maybe]
HostIsTyped(h) == h \in Hosts /\ (h.pc = "mute" => h.set \in Volumes)
Links == [acl : Nat, heard : Nat]

\* A mapper that took a level unasked has heard the headset, and takes no other.
Adopts(m, n) ==
    /\ m \in Mappers /\ Sound(m)
    /\ n \in {0, 1} /\ (n = 1 => m.seen = TRUE)

WireInv == headset \in Headsets /\ air \in Airs /\ TraceIsTyped(trace) /\ link \in Links
SinkInv == sink \in Sinks /\ windows \in Endpoints /\ HostIsTyped(host)
VolumeInv == WireInv /\ SinkInv /\ Adopts(mapper, adopted)

(* A packet of the headset's or of Microsoft's. *)
LEMMA PacketsAre ==
    /\ Ask \in Requests /\ Register \in Requests
    /\ \A level \in Levels : Packet("set", level, FALSE) \in Requests
    /\ \A b \in BOOLEAN : Packet("capability", None, b) \in Answers
    /\ \A level \in Levels, b \in BOOLEAN : Packet("volume", level, b) \in Answers
BY DEF Ask, Register, Packet, Requests, Answers, Packets

(* A sequence with one more. *)
LEMMA AppendIs ==
    ASSUME NEW S, NEW s \in Seq(S), NEW e \in S
    PROVE  Append(s, e) \in Seq(S)
OBVIOUS

(* A record of the trace. *)
LEMMA TracedIs ==
    ASSUME TraceIsTyped(trace), NEW e \in Answers
    PROVE  TraceIsTyped(Traced(e))
<1>1. Capacity \in Nat \ {0}
  BY VolumeConstants
<1>2. CASE Len(trace) = Capacity
  <2>1. trace \in Seq(Answers) /\ trace # <<>>
    BY <1>1, <1>2 DEF TraceIsTyped
  <2>2. Tail(trace) \in Seq(Answers) /\ Len(Tail(trace)) = Len(trace) - 1
    BY <2>1
  <2>3. Traced(e) = Append(Tail(trace), e)
    BY <1>2 DEF Traced
  <2> QED BY <1>1, <1>2, <2>2, <2>3 DEF TraceIsTyped
<1>3. CASE Len(trace) # Capacity
  <2>1. Traced(e) = Append(trace, e) /\ Len(trace) < Capacity /\ Len(trace) \in Nat
    BY <1>1, <1>3 DEF Traced, TraceIsTyped
  <2> QED BY <1>1, <2>1 DEF TraceIsTyped
<1> QED BY <1>2, <1>3

(* What is left of the trace. *)
LEMMA TraceTailIs ==
    ASSUME TraceIsTyped(trace), trace # <<>>
    PROVE  TraceIsTyped(Tail(trace)) /\ Head(trace) \in Answers
<1>1. /\ Tail(trace) \in Seq(Answers) /\ Len(Tail(trace)) = Len(trace) - 1
      /\ Head(trace) \in Answers /\ Len(trace) \in Nat
  BY DEF TraceIsTyped
<1> QED BY <1>1, VolumeConstants DEF TraceIsTyped

(* A volume announced to the callbacks. *)
LEMMA ChangedToIs ==
    ASSUME windows \in Endpoints, NEW v \in Volumes
    PROVE  ChangedTo(v) \in Endpoints
<1> DEFINE notices == IF windows.endpoint THEN Append(windows.notices, v) ELSE windows.notices
<1>1. Append(windows.notices, v) \in Seq(Volumes) /\ windows.notices \in Seq(Volumes)
  BY DEF Endpoints
<1>2. notices \in Seq(Volumes)
  BY <1>1
<1>3. ChangedTo(v) \in {windows, [windows EXCEPT !.volume = v, !.notices = notices]}
  BY DEF ChangedTo
<1> HIDE DEF notices
<1>4. [windows EXCEPT !.volume = v, !.notices = notices] \in Endpoints
  BY <1>2 DEF Endpoints
<1> QED BY <1>3, <1>4

(* A level given to the headset, or kept. *)
LEMMA WritesIs ==
    ASSUME NEW level \in Levels \cup {None}, NEW s \in Sinks, air \in Airs,
           Writes(level, s)
    PROVE  air' \in Airs /\ sink' \in Sinks
<1>1. ASSUME level \in Levels PROVE Sent(level) \in Airs
  <2> DEFINE out == Append(air.out, Packet("set", level, FALSE))
  <2>1. Packet("set", level, FALSE) \in Requests /\ air.out \in Seq(Requests)
    BY <1>1, PacketsAre DEF Airs
  <2>2. out \in Seq(Requests)
    BY <2>1, AppendIs
  <2>3. Sent(level) = [air EXCEPT !.out = out]
    BY DEF Sent
  <2> HIDE DEF out
  <2> QED BY <2>2, <2>3 DEF Airs
<1>2. ASSUME NEW n \in Levels \cup {None} PROVE [s EXCEPT !.level = n] \in Sinks
  BY DEF Sinks
<1>3. None \in Levels \cup {None}
  OBVIOUS
<1>4. CASE level = None
  BY <1>4 DEF Writes
<1>5. CASE level # None
  <2>1. level \in Levels
    BY <1>5
  <2>2. air' \in {air, Sent(level)} /\ sink' \in {[s EXCEPT !.level = None], [s EXCEPT !.level = level]}
    BY <1>5 DEF Writes
  <2> QED BY <1>1, <1>2, <1>3, <2>1, <2>2
<1> QED BY <1>4, <1>5

(* The first call of a set. *)
LEMMA SetsScalarIs ==
    ASSUME SinkInv, NEW v \in Volumes, NEW b \in BOOLEAN, SetsScalar(v, b)
    PROVE  windows' \in Endpoints /\ HostIsTyped(host') /\ sink' \in Sinks
<1>1. [windows.volume EXCEPT !.percent = v.percent] \in Volumes
  BY DEF SinkInv, Endpoints, Volumes
<1>2. windows' \in Endpoints
  BY <1>1, ChangedToIs DEF SetsScalar, SinkInv
<1>3. host' = [host EXCEPT !.pc = "mute", !.set = v, !.retries = b]
  BY DEF SetsScalar
<1>4. HostIsTyped(host')
  BY <1>3 DEF SinkInv, HostIsTyped, Hosts, Maybe
<1> QED BY <1>2, <1>4 DEF SetsScalar, SinkInv

(* A set that fails. *)
LEMMA FailsToSetIs ==
    ASSUME SinkInv, NEW v \in Volumes, NEW pc \in {"events", "level"}, FailsToSet(v, pc)
    PROVE  windows' \in Endpoints /\ HostIsTyped(host') /\ sink' \in Sinks
<1>1. sink' = [sink EXCEPT !.volume = v] /\ windows' = windows
  BY DEF FailsToSet
<1>2. host' = [host EXCEPT !.pc = pc, !.set = NoVolume]
  BY DEF FailsToSet
<1>3. HostIsTyped(host')
  BY <1>2 DEF SinkInv, HostIsTyped, Hosts, Maybe
<1> QED BY <1>1, <1>3 DEF SinkInv, Sinks, Maybe

(* The host reads the endpoint's percentage, or fails to. *)
LEMMA ReadsScalarIs ==
    ASSUME SinkInv, NEW pc \in {"read", "query"}, ReadsScalar(pc)
    PROVE  HostIsTyped(host')
<1>1. \/ host' = [host EXCEPT !.pc = pc, !.read = windows.volume.percent]
      \/ host' = [host EXCEPT !.pc = "events"]
  BY DEF ReadsScalar
<1>2. windows.volume.percent \in Percents
  BY DEF SinkInv, Endpoints, Volumes
<1> QED BY <1>1, <1>2 DEF SinkInv, HostIsTyped, Hosts

-------------------------------------------------------------------------------
(* The steps of the world.                                                          *)

(* It begins so. *)
LEMMA VolumesBegin == AvrcpInit => VolumeInv
<1> SUFFICES ASSUME AvrcpInit PROVE VolumeInv
  OBVIOUS
<1>1. 0 \in Levels /\ None \notin Levels /\ 0 \in Percents /\ TopPercent \in Percents
  BY NoneIsNone, VolumeConstants DEF Percents
<1>2. headset \in Headsets
  BY DEF AvrcpInit, Headsets
<1>3. air \in Airs
  BY PacketsAre DEF AvrcpInit, Airs
<1>4. TraceIsTyped(trace)
  BY VolumeConstants DEF AvrcpInit, TraceIsTyped
<1>5. link \in Links
  BY DEF AvrcpInit, Links
<1>6. sink \in Sinks
  BY DEF AvrcpInit, Sinks, Maybe
<1>7. windows \in Endpoints
  BY <1>1 DEF AvrcpInit, Endpoints, Volumes
<1>8. HostIsTyped(host)
  BY <1>1 DEF AvrcpInit, HostIsTyped, Hosts, Maybe
<1>9. NoMapper \in Mappers /\ Sound(NoMapper)
  BY <1>1 DEF NoMapper, Reducer, Mappers, Reducers, Volumes, Sound
<1>10. Adopts(mapper, adopted)
  BY <1>9 DEF AvrcpInit, Adopts
<1> QED BY <1>2, <1>3, <1>4, <1>5, <1>6, <1>7, <1>8, <1>10 DEF VolumeInv, WireInv, SinkInv

(* The headset and the links touch the wire only. *)
LEMMA WireMoves ==
    ASSUME VolumeInv,
           \/ HeadsetAnswers \/ MicrosoftReads \/ TraceOverruns \/ LinkReturns
           \/ \E level \in Levels : HeadsetTurned(level)
    PROVE  VolumeInv'
<1>0. WireInv /\ SinkInv /\ Adopts(mapper, adopted)
  BY DEF VolumeInv
<1> USE DEF WireInv
<1>1. SUFFICES WireInv' /\ UNCHANGED agentVars
  BY <1>0 DEF VolumeInv, SinkInv, agentVars
<1>2. CASE HeadsetAnswers
  <2> DEFINE packet == Head(air.out)
             say(answer) == [out |-> Tail(air.out), in |-> Append(air.in, answer)]
  <2>1. packet \in Requests /\ Tail(air.out) \in Seq(Requests) /\ air.in \in Seq(Answers)
    BY <1>0, <1>2 DEF HeadsetAnswers, Airs
  <2>2. ASSUME NEW a \in Answers PROVE say(a) \in Airs
    BY <2>1, <2>2 DEF Airs
  <2>3. UNCHANGED <<trace, link, agentVars>>
    BY <1>2 DEF HeadsetAnswers
  <2>4. packet.kind \in {"capability", "volume", "set"}
    BY <2>1 DEF Requests, Packets
  <2>5. CASE packet.kind = "capability"
    <3>1. PICK b \in BOOLEAN : air' = say(Packet("capability", None, b)) /\ headset' = headset
      BY <1>2, <2>5 DEF HeadsetAnswers
    <3> QED BY <1>0, <2>2, <2>3, <3>1, PacketsAre
  <2>6. CASE packet.kind = "volume"
    <3>1. /\ air' = say(Packet("volume", headset.volume, FALSE))
          /\ headset' = [headset EXCEPT !.registered = TRUE, !.told = TRUE]
      BY <1>2, <2>6 DEF HeadsetAnswers
    <3>2. headset.volume \in Levels /\ headset' \in Headsets
      BY <1>0, <3>1 DEF Headsets
    <3> QED BY <1>0, <2>2, <2>3, <3>1, <3>2, PacketsAre
  <2>7. CASE packet.kind = "set"
    <3>1. /\ air' = [air EXCEPT !.out = Tail(@)]
          /\ headset' = [headset EXCEPT !.volume = packet.level]
      BY <1>2, <2>7 DEF HeadsetAnswers
    <3>2. packet.level \in Levels
      BY <2>1, <2>7 DEF Requests
    <3>3. air' \in Airs /\ headset' \in Headsets
      BY <1>0, <2>1, <3>1, <3>2 DEF Airs, Headsets
    <3> QED BY <1>0, <2>3, <3>3
  <2> QED BY <2>4, <2>5, <2>6, <2>7
<1>3. CASE MicrosoftReads
  <2>1. Head(air.in) \in Answers /\ Tail(air.in) \in Seq(Answers) /\ air.out \in Seq(Requests)
    BY <1>0, <1>3 DEF MicrosoftReads, Airs
  <2>2. trace' = Traced(Head(air.in)) /\ UNCHANGED <<headset, link, agentVars>>
    BY <1>3 DEF MicrosoftReads
  <2>3. air' = [out |-> IF Head(air.in).changed THEN Append(air.out, Register) ELSE air.out,
                in |-> Tail(air.in)]
    BY <1>3 DEF MicrosoftReads
  <2>4. Append(air.out, Register) \in Seq(Requests)
    BY <2>1, PacketsAre
  <2>5. air' \in Airs
    BY <2>1, <2>3, <2>4 DEF Airs
  <2>6. TraceIsTyped(trace')
    BY <1>0, <2>1, <2>2, TracedIs
  <2> QED BY <1>0, <2>2, <2>5, <2>6
<1>4. CASE TraceOverruns
  <2>1. trace # <<>> /\ trace' = Tail(trace) /\ UNCHANGED <<headset, air, link, agentVars>>
    BY <1>4 DEF TraceOverruns
  <2>2. TraceIsTyped(trace')
    BY <1>0, <2>1, TraceTailIs
  <2> QED BY <1>0, <2>1, <2>2
<1>5. CASE LinkReturns
  <2>1. /\ link' = [link EXCEPT !.acl = @ + 1]
        /\ air' = [out |-> <<Ask>>, in |-> <<>>]
        /\ headset' = [headset EXCEPT !.registered = FALSE, !.told = FALSE]
        /\ UNCHANGED <<trace, agentVars>>
    BY <1>5 DEF LinkReturns
  <2>2. air' \in Airs
    BY <2>1, PacketsAre DEF Airs
  <2>3. headset' \in Headsets
    BY <1>0, <2>1 DEF Headsets
  <2>4. link' \in Links
    BY <1>0, <2>1 DEF Links
  <2> QED BY <1>0, <2>1, <2>2, <2>3, <2>4
<1>6. ASSUME NEW level \in Levels, HeadsetTurned(level)
      PROVE  WireInv' /\ UNCHANGED agentVars
  <2>1. /\ headset' = [headset EXCEPT !.volume = level, !.registered = FALSE]
        /\ air' = IF headset.registered
                  THEN [air EXCEPT !.in = Append(@, Packet("volume", level, TRUE))] ELSE air
        /\ UNCHANGED <<trace, link, agentVars>>
    BY <1>6 DEF HeadsetTurned
  <2>2. [air EXCEPT !.in = Append(@, Packet("volume", level, TRUE))] \in Airs
    <3> DEFINE in == Append(air.in, Packet("volume", level, TRUE))
    <3>1. Packet("volume", level, TRUE) \in Answers /\ air.in \in Seq(Answers)
      BY <1>0, PacketsAre DEF Airs
    <3>2. in \in Seq(Answers)
      BY <3>1, AppendIs
    <3> HIDE DEF in
    <3>3. [air EXCEPT !.in = in] \in Airs
      BY <1>0, <3>2 DEF Airs
    <3> QED BY <3>3 DEF in
  <2>3. headset' \in Headsets
    BY <1>0, <2>1 DEF Headsets
  <2> QED BY <1>0, <2>1, <2>2, <2>3
<1> QED BY <1>2, <1>3, <1>4, <1>5, <1>6

(* The endpoint, its user and its callbacks touch the sink's side only. *)
LEMMA EndpointMoves ==
    ASSUME VolumeInv,
           \/ \E volume \in Volumes : WindowsTurned(volume)
           \/ EndpointGoes \/ EndpointBinds \/ PublishesBound \/ OnNotify
    PROVE  VolumeInv'
<1>0. WireInv /\ SinkInv /\ Adopts(mapper, adopted)
  BY DEF VolumeInv
<1>1. SUFFICES SinkInv' /\ UNCHANGED <<wireVars, mapper, adopted, link>>
  BY <1>0 DEF VolumeInv, WireInv, wireVars
<1> USE DEF SinkInv
<1>2. ASSUME NEW volume \in Volumes, WindowsTurned(volume)
      PROVE  SinkInv' /\ UNCHANGED <<wireVars, mapper, adopted, link>>
  BY <1>0, <1>2, ChangedToIs DEF WindowsTurned
<1>3. CASE EndpointGoes
  <2>1. /\ windows' = [windows EXCEPT !.endpoint = FALSE, !.notices = <<>>]
        /\ UNCHANGED <<wireVars, mapper, sink, host, adopted, link>>
    BY <1>3 DEF EndpointGoes
  <2>2. <<>> \in Seq(Volumes)
    OBVIOUS
  <2>3. windows' \in Endpoints
    BY <1>0, <2>1, <2>2 DEF Endpoints
  <2> QED BY <1>0, <2>1, <2>3
<1>4. CASE EndpointBinds
  <2>1. /\ windows' = [windows EXCEPT !.endpoint = TRUE]
        /\ host' = [host EXCEPT !.bound = windows.volume]
        /\ UNCHANGED <<wireVars, mapper, sink, adopted, link>>
    BY <1>4 DEF EndpointBinds
  <2>2. windows' \in Endpoints /\ windows.volume \in Volumes
    BY <1>0, <2>1 DEF Endpoints
  <2>3. HostIsTyped(host')
    BY <1>0, <2>1, <2>2 DEF HostIsTyped, Hosts, Maybe
  <2> QED BY <1>0, <2>1, <2>2, <2>3
<1>5. CASE PublishesBound
  <2>1. /\ sink' = [sink EXCEPT !.published = host.bound]
        /\ host' = [host EXCEPT !.bound = NoVolume]
        /\ UNCHANGED <<wireVars, mapper, windows, adopted, link>>
    BY <1>5 DEF PublishesBound
  <2>2. sink' \in Sinks
    BY <1>0, <2>1 DEF Sinks, HostIsTyped, Hosts
  <2>3. HostIsTyped(host')
    BY <1>0, <2>1 DEF HostIsTyped, Hosts, Maybe
  <2> QED BY <1>0, <2>1, <2>2, <2>3
<1>6. CASE OnNotify
  <2>1. /\ windows.notices # <<>>
        /\ sink' = [sink EXCEPT !.published = Head(windows.notices)]
        /\ windows' = [windows EXCEPT !.notices = Tail(@)]
        /\ UNCHANGED <<wireVars, mapper, host, adopted, link>>
    BY <1>6 DEF OnNotify
  <2>2. windows.notices \in Seq(Volumes)
    BY <1>0 DEF Endpoints
  <2>3. Head(windows.notices) \in Volumes /\ Tail(windows.notices) \in Seq(Volumes)
    BY <2>1, <2>2
  <2>4. sink' \in Sinks
    BY <1>0, <2>1, <2>3 DEF Sinks, Maybe
  <2>5. windows' \in Endpoints
    BY <1>0, <2>1, <2>3 DEF Endpoints
  <2> QED BY <1>0, <2>1, <2>4, <2>5
<1> QED BY <1>2, <1>3, <1>4, <1>5, <1>6

-------------------------------------------------------------------------------
(* The steps of the host.                                                           *)

(* A result whose mapper keeps what it has heard. *)
LEMMA AdoptsStays ==
    ASSUME NEW m \in Mappers, NEW n, Adopts(m, n), NEW p \in Mappers, Sound(p),
           m.seen = TRUE => p.seen = TRUE
    PROVE  Adopts(p, n)
BY DEF Adopts

(* The volume of a notice or of a query is observed. *)
LEMMA ObservesWell ==
    ASSUME Adopts(mapper, adopted), NEW v \in Volumes
    PROVE  /\ Adopts(ObserveWindows(mapper, v).m, adopted)
           /\ ObserveWindows(mapper, v).send \in Levels \cup {None}
<1> DEFINE r == ObserveWindows(mapper, v)
<1>1. mapper \in Mappers /\ Sound(mapper)
  BY DEF Adopts
<1>2. WindowsGives(mapper, v, r)
  BY <1>1, WindowsIs
<1> HIDE DEF r
<1>3. r \in Results /\ Sound(r.m) /\ r.m.seen = mapper.seen
  BY <1>2 DEF WindowsGives
<1>4. r.m \in Mappers /\ r.send \in Levels \cup {None}
  BY <1>3 DEF Results
<1>5. Adopts(r.m, adopted)
  BY <1>1, <1>3, <1>4, AdoptsStays
<1> QED BY <1>4, <1>5 DEF r

(* A volume of the endpoint's two reads. *)
LEMMA ReadIs ==
    ASSUME SinkInv
    PROVE  [percent |-> host.read, muted |-> windows.volume.muted] \in Volumes
BY DEF SinkInv, HostIsTyped, Hosts, Endpoints, Volumes

(* An event of the trace: the level of the headset is adopted while it was not heard. *)
LEMMA PollEventKeeps == ASSUME VolumeInv, PollEvent PROVE VolumeInv'
<1>0. /\ WireInv /\ SinkInv /\ Adopts(mapper, adopted)
      /\ mapper \in Mappers /\ Sound(mapper) /\ adopted \in {0, 1}
      /\ adopted = 1 => mapper.seen = TRUE
  BY DEF VolumeInv, Adopts
<1> DEFINE event == Head(trace)
           changed == event.kind = "volume" /\ event.changed
           r == IF event.kind = "capability" THEN ObserveCapability(mapper, event.changed)
                ELSE ObserveXm5(mapper, event.level, changed)
<1>1. event \in Answers /\ TraceIsTyped(Tail(trace))
  BY <1>0, TraceTailIs DEF PollEvent, WireInv
<1>2. /\ trace' = Tail(trace) /\ mapper' = r.m /\ UNCHANGED <<headset, link>>
      /\ \/ /\ r.set = NoVolume /\ Writes(r.send, sink)
            /\ host' = [host EXCEPT !.pc = "events"] /\ UNCHANGED <<windows, adopted>>
         \/ /\ r.set # NoVolume
            /\ SetsScalar(r.set, FALSE) \/ FailsToSet(r.set, "events")
            /\ adopted' = adopted + (IF changed THEN 0 ELSE 1)
            /\ UNCHANGED air
  BY DEF PollEvent
<1>3. /\ r \in Results /\ Sound(r.m)
      /\ mapper.seen = TRUE => r.m.seen = TRUE
      /\ r.set # NoVolume => r.m.seen = TRUE
      /\ r.set # NoVolume /\ changed # TRUE => mapper.seen # TRUE
  <2>1. CASE event.kind = "capability"
    <3>1. event.changed \in BOOLEAN
      BY <1>1 DEF Answers, Packets
    <3>2. r = ObserveCapability(mapper, event.changed)
      BY <2>1
    <3> HIDE DEF r
    <3>3. CapabilityGives(mapper, event.changed, r)
      BY <1>0, <3>1, <3>2, CapabilityIs
    <3> QED BY <3>3 DEF CapabilityGives
  <2>2. CASE event.kind # "capability"
    <3>1. event.kind = "volume" /\ event.level \in Levels /\ event.changed \in BOOLEAN
      BY <1>1, <2>2 DEF Answers, Packets
    <3>2. changed \in BOOLEAN /\ r = ObserveXm5(mapper, event.level, changed)
      BY <2>2
    <3> HIDE DEF r, changed
    <3>3. LevelGives(mapper, event.level, changed, r)
      BY <1>0, <3>1, <3>2, Xm5Is
    <3>4. /\ r \in Results /\ Sound(r.m) /\ r.m.seen = TRUE
          /\ changed = FALSE /\ mapper.seen = TRUE => r.set = NoVolume
      BY <3>3 DEF LevelGives
    <3> QED BY <3>2, <3>4
  <2> QED BY <2>1, <2>2
<1>4. changed \in BOOLEAN
  BY <1>1 DEF Answers, Packets
<1> HIDE DEF r, changed
<1>5. r.m \in Mappers /\ r.send \in Levels \cup {None} /\ r.set \in Maybe
  <2>1. r.m \in Mappers
    BY <1>3 DEF Results
  <2>2. r.send \in Levels \cup {None}
    BY <1>3 DEF Results
  <2>3. r.set \in Maybe
    BY <1>3 DEF Results, Maybe
  <2> QED BY <2>1, <2>2, <2>3
<1>6. TraceIsTyped(trace')
  BY <1>1, <1>2
<1>7. air \in Airs /\ sink \in Sinks /\ HostIsTyped(host)
  BY <1>0 DEF WireInv, SinkInv
<1>8. CASE r.set = NoVolume
  <2>1. /\ Writes(r.send, sink) /\ host' = [host EXCEPT !.pc = "events"]
        /\ UNCHANGED <<windows, adopted>>
    BY <1>2, <1>8
  <2>2. air' \in Airs /\ sink' \in Sinks
    BY <1>5, <1>7, <2>1, WritesIs
  <2>3. HostIsTyped(host')
    BY <1>7, <2>1 DEF HostIsTyped, Hosts
  <2>4. Adopts(r.m, adopted)
    BY <1>0, <1>3, <1>5, AdoptsStays
  <2>5. WireInv'
    BY <1>0, <1>2, <1>6, <2>2 DEF WireInv
  <2>6. SinkInv'
    BY <1>0, <2>1, <2>2, <2>3 DEF SinkInv
  <2>7. Adopts(mapper', adopted')
    BY <1>2, <2>1, <2>4
  <2> QED BY <2>5, <2>6, <2>7 DEF VolumeInv
<1>9. CASE r.set # NoVolume
  <2>1. /\ SetsScalar(r.set, FALSE) \/ FailsToSet(r.set, "events")
        /\ adopted' = adopted + (IF changed THEN 0 ELSE 1) /\ UNCHANGED air
    BY <1>2, <1>9
  <2>2. r.set \in Volumes
    BY <1>5, <1>9 DEF Maybe
  <2>3. SinkInv'
    BY <1>0, <2>1, <2>2, SetsScalarIs, FailsToSetIs DEF SinkInv
  <2>4. WireInv'
    BY <1>0, <1>2, <1>6, <2>1 DEF WireInv
  <2>5. r.m.seen = TRUE /\ (changed # TRUE => adopted = 0)
    BY <1>0, <1>3, <1>9
  <2>6. adopted' \in {0, 1}
    <3>1. CASE changed = TRUE
      BY <1>0, <2>1, <3>1
    <3>2. CASE changed = FALSE
      <4>1. adopted = 0 /\ adopted' = adopted + 1
        BY <2>1, <2>5, <3>2
      <4> QED BY <4>1
    <3> QED BY <1>4, <3>1, <3>2
  <2>7. Adopts(r.m, adopted')
    BY <1>3, <1>5, <2>5, <2>6 DEF Adopts
  <2>8. Adopts(mapper', adopted')
    BY <1>2, <2>7
  <2> QED BY <2>3, <2>4, <2>8 DEF VolumeInv
<1> QED BY <1>8, <1>9

(* The volume a set left, or a query's, is told to the mapper. *)
LEMMA ReadKeeps ==
    ASSUME VolumeInv, ObservesReadback \/ SessionPrepared
    PROVE  VolumeInv'
<1> DEFINE v == [percent |-> host.read, muted |-> windows.volume.muted]
           r == ObserveWindows(mapper, v)
<1>1. /\ WireInv /\ SinkInv /\ Adopts(mapper, adopted)
      /\ air \in Airs /\ sink \in Sinks /\ HostIsTyped(host)
  BY DEF VolumeInv, WireInv, SinkInv
<1>2. Adopts(r.m, adopted) /\ r.send \in Levels \cup {None}
  BY <1>1, ReadIs, ObservesWell
<1> HIDE DEF r, v
<1>3. /\ host' = [host EXCEPT !.pc = "events", !.read = 0]
      /\ UNCHANGED <<headset, trace, windows, adopted, link>>
  BY DEF ObservesReadback, SessionPrepared, wireVars
<1>4. \/ mapper' = r.m
      \/ mapper' = mapper
  BY DEF ObservesReadback, SessionPrepared, r, v
<1>5. air' \in Airs /\ sink' \in Sinks
  <2>1. CASE ObservesReadback
    <3>1. Writes(r.send, sink) \/ UNCHANGED <<air, sink>>
      BY <2>1 DEF ObservesReadback, r, v
    <3> QED BY <1>1, <1>2, <3>1, WritesIs
  <2>2. CASE SessionPrepared
    BY <1>1, <2>2 DEF SessionPrepared, wireVars
  <2> QED BY <2>1, <2>2
<1>6. 0 \in Percents
  BY VolumeConstants DEF Percents
<1>7. HostIsTyped(host')
  BY <1>1, <1>3, <1>6 DEF HostIsTyped, Hosts
<1>8. WireInv'
  BY <1>1, <1>3, <1>5 DEF WireInv
<1>9. SinkInv'
  BY <1>1, <1>3, <1>5, <1>7 DEF SinkInv
<1>10. Adopts(mapper', adopted')
  BY <1>1, <1>2, <1>3, <1>4
<1> QED BY <1>8, <1>9, <1>10 DEF VolumeInv

(* The rest of a Poll: the calls of the endpoint, the retries, and the callbacks. *)
LEMMA PollKeeps ==
    ASSUME VolumeInv,
           SetsMute \/ ReadsBack \/ RetriesVolume \/ RetriesLevel \/ Consumes
    PROVE  VolumeInv'
<1>0. /\ WireInv /\ SinkInv /\ Adopts(mapper, adopted)
      /\ air \in Airs /\ sink \in Sinks /\ windows \in Endpoints /\ HostIsTyped(host)
  BY DEF VolumeInv, WireInv, SinkInv
<1>1. CASE SetsMute
  <2>1. UNCHANGED <<wireVars, mapper, adopted, link>> /\ host.pc = "mute"
    BY <1>1 DEF SetsMute
  <2>2. host.set \in Volumes
    BY <1>0, <2>1 DEF HostIsTyped
  <2>3. SinkInv'
    <3> DEFINE pc == IF host.retries THEN "level" ELSE "readback"
               next == IF host.retries THEN "level" ELSE "events"
    <3>1. CASE FailsToSet(host.set, next)
      <4>1. next \in {"events", "level"}
        OBVIOUS
      <4> HIDE DEF next
      <4> QED BY <1>0, <2>2, <3>1, <4>1, FailsToSetIs DEF SinkInv
    <3>2. CASE /\ windows' = ChangedTo([windows.volume EXCEPT !.muted = host.set.muted])
               /\ sink' = [sink EXCEPT !.volume = NoVolume]
               /\ host' = [host EXCEPT !.pc = pc, !.set = NoVolume]
      <4>1. [windows.volume EXCEPT !.muted = host.set.muted] \in Volumes
        BY <1>0, <2>2 DEF Endpoints, Volumes
      <4>2. windows' \in Endpoints
        BY <1>0, <3>2, <4>1, ChangedToIs
      <4>3. sink' \in Sinks
        BY <1>0, <3>2 DEF Sinks, Maybe
      <4>4. pc \in {"level", "readback"}
        OBVIOUS
      <4> HIDE DEF pc
      <4>5. HostIsTyped(host')
        BY <1>0, <3>2, <4>4 DEF HostIsTyped, Hosts, Maybe
      <4> QED BY <4>2, <4>3, <4>5 DEF SinkInv
    <3> QED BY <1>1, <3>1, <3>2 DEF SetsMute
  <2> QED BY <1>0, <2>1, <2>3 DEF VolumeInv, WireInv, wireVars
<1>2. CASE ReadsBack
  <2>1. ReadsScalar("read") /\ UNCHANGED <<wireVars, mapper, sink, windows, adopted, link>>
    BY <1>2 DEF ReadsBack
  <2>2. HostIsTyped(host')
    BY <1>0, <2>1, ReadsScalarIs
  <2> QED BY <1>0, <2>1, <2>2 DEF VolumeInv, WireInv, SinkInv, wireVars
<1>3. CASE RetriesVolume
  <2>1. /\ sink.volume # NoVolume /\ UNCHANGED <<wireVars, mapper, adopted, link>>
        /\ SetsScalar(sink.volume, TRUE) \/ FailsToSet(sink.volume, "level")
    BY <1>3 DEF RetriesVolume
  <2>2. sink.volume \in Volumes
    BY <1>0, <2>1 DEF Sinks, Maybe
  <2>3. SinkInv'
    BY <1>0, <2>1, <2>2, SetsScalarIs, FailsToSetIs DEF SinkInv
  <2> QED BY <1>0, <2>1, <2>3 DEF VolumeInv, WireInv, wireVars
<1>4. CASE RetriesLevel
  <2>1. /\ Writes(sink.level, sink) /\ host' = [host EXCEPT !.pc = "consume"]
        /\ UNCHANGED <<headset, trace, mapper, windows, adopted, link>>
    BY <1>4 DEF RetriesLevel
  <2>2. air' \in Airs /\ sink' \in Sinks
    <3>1. sink.level \in Levels \cup {None}
      BY <1>0 DEF Sinks
    <3> QED BY <1>0, <2>1, <3>1, WritesIs
  <2>3. HostIsTyped(host')
    BY <1>0, <2>1 DEF HostIsTyped, Hosts
  <2> QED BY <1>0, <2>1, <2>2, <2>3 DEF VolumeInv, WireInv, SinkInv
<1>5. CASE Consumes
  <2> DEFINE r == IF sink.published # NoVolume THEN ObserveWindows(mapper, sink.published)
                  ELSE Quietly(mapper)
             s == [sink EXCEPT !.published = NoVolume]
  <2>1. /\ mapper' = r.m /\ Writes(r.send, s) /\ host' = [host EXCEPT !.pc = "rest"]
        /\ UNCHANGED <<headset, trace, windows, adopted, link>>
    BY <1>5 DEF Consumes
  <2>2. Adopts(r.m, adopted) /\ r.send \in Levels \cup {None}
    <3>1. CASE sink.published # NoVolume
      <4>1. sink.published \in Volumes
        BY <1>0, <3>1 DEF Sinks, Maybe
      <4> QED BY <1>0, <3>1, <4>1, ObservesWell
    <3>2. CASE sink.published = NoVolume
      <4>1. r = Quietly(mapper)
        BY <3>2
      <4> QED BY <1>0, <4>1 DEF Quietly
    <3> QED BY <3>1, <3>2
  <2>3. s \in Sinks
    BY <1>0 DEF Sinks, Maybe
  <2> HIDE DEF r, s
  <2>4. air' \in Airs /\ sink' \in Sinks
    BY <1>0, <2>1, <2>2, <2>3, WritesIs
  <2>5. HostIsTyped(host')
    BY <1>0, <2>1 DEF HostIsTyped, Hosts
  <2> QED BY <1>0, <2>1, <2>2, <2>4, <2>5 DEF VolumeInv, WireInv, SinkInv
<1> QED BY <1>1, <1>2, <1>3, <1>4, <1>5

(* A session of a generation new to the mapper has heard and adopted nothing. *)
LEMMA SessionKeeps ==
    ASSUME VolumeInv, SessionBegins
    PROVE  VolumeInv'
<1>0. /\ WireInv /\ SinkInv /\ Adopts(mapper, adopted)
      /\ mapper \in Mappers /\ Sound(mapper) /\ TraceIsTyped(trace) /\ HostIsTyped(host)
      /\ link.heard \in Nat
  BY DEF VolumeInv, WireInv, SinkInv, Adopts, Links
<1> DEFINE fresh == mapper.acl # link.heard
           begun == IF fresh THEN [NoMapper EXCEPT !.acl = link.heard] ELSE mapper
           owned == [begun EXCEPT !.sync = TRUE, !.lease = TRUE]
<1>1. /\ trace' = IF fresh THEN <<>> ELSE trace
      /\ mapper' = ActivateIfAuthorized(owned).m
      /\ adopted' = IF fresh THEN 0 ELSE adopted
      /\ host' = [host EXCEPT !.session = TRUE, !.pc = "begun"]
      /\ UNCHANGED <<headset, air, sink, windows, link>>
  BY DEF SessionBegins
<1>2. /\ begun \in Mappers /\ Sound(begun)
      /\ adopted' \in {0, 1} /\ (adopted' = 1 => begun.seen = TRUE)
  <2>1. CASE fresh
    <3>1. 0 \in Levels /\ None \notin Levels /\ 0 \in Percents
      BY NoneIsNone, VolumeConstants DEF Percents
    <3>2. NoMapper \in Mappers /\ Sound(NoMapper)
      BY <3>1 DEF NoMapper, Reducer, Mappers, Reducers, Volumes, Sound
    <3>3. begun = [NoMapper EXCEPT !.acl = link.heard] /\ adopted' = 0
      BY <1>1, <2>1
    <3>4. begun \in Mappers /\ begun.reducer = NoMapper.reducer /\ begun.seen = NoMapper.seen
      BY <1>0, <3>2, <3>3 DEF Mappers
    <3>5. Sound(begun)
      BY <3>2, <3>4 DEF Sound
    <3> QED BY <3>3, <3>4, <3>5
  <2>2. CASE ~fresh
    BY <1>0, <1>1, <2>2 DEF Adopts
  <2> QED BY <2>1, <2>2
<1> HIDE DEF begun
<1>3. owned \in Mappers /\ owned.reducer = begun.reducer /\ owned.seen = begun.seen
  BY <1>2 DEF Mappers
<1>4. Sound(owned)
  BY <1>2, <1>3 DEF Sound
<1> HIDE DEF owned
<1> DEFINE r == ActivateIfAuthorized(owned)
<1>5. r \in Results /\ Alike(owned, r.m) /\ Sound(r.m)
  BY <1>3, <1>4, ActivateIs
<1> HIDE DEF r
<1>6. r.m \in Mappers /\ r.m.seen = begun.seen
  BY <1>3, <1>5 DEF Results, Alike
<1>7. Adopts(r.m, adopted')
  BY <1>2, <1>5, <1>6 DEF Adopts
<1>8. TraceIsTyped(trace')
  <2>1. TraceIsTyped(<<>>)
    BY VolumeConstants DEF TraceIsTyped
  <2> QED BY <1>0, <1>1, <2>1
<1>9. HostIsTyped(host')
  BY <1>0, <1>1 DEF HostIsTyped, Hosts
<1>10. WireInv'
  BY <1>0, <1>1, <1>8 DEF WireInv
<1>11. SinkInv'
  BY <1>0, <1>1, <1>9 DEF SinkInv
<1>12. Adopts(mapper', adopted')
  BY <1>1, <1>7 DEF r
<1> QED BY <1>10, <1>11, <1>12 DEF VolumeInv

(* The end of a session keeps what was heard. *)
LEMMA SessionEndKeeps ==
    ASSUME VolumeInv, QueriesWindows \/ SessionEnds \/ AgentHears
    PROVE  VolumeInv'
<1>0. /\ WireInv /\ SinkInv /\ Adopts(mapper, adopted)
      /\ mapper \in Mappers /\ Sound(mapper) /\ HostIsTyped(host) /\ link \in Links
  BY DEF VolumeInv, WireInv, SinkInv, Adopts
<1>1. CASE QueriesWindows
  <2>1. ReadsScalar("query") /\ UNCHANGED <<wireVars, mapper, sink, windows, adopted, link>>
    BY <1>1 DEF QueriesWindows
  <2>2. HostIsTyped(host')
    BY <1>0, <2>1, ReadsScalarIs
  <2> QED BY <1>0, <2>1, <2>2 DEF VolumeInv, WireInv, SinkInv, wireVars
<1>2. CASE SessionEnds \/ AgentHears
  <2>1. /\ mapper' = Revoked(mapper) /\ host' = [host EXCEPT !.session = FALSE, !.pc = "rest"]
        /\ UNCHANGED <<wireVars, sink, windows, adopted>>
        /\ link' \in {link, [link EXCEPT !.heard = @ + 1]}
    BY <1>2 DEF SessionEnds, AgentHears, Dismissed
  <2>2. RevokedGives(mapper, Revoked(mapper))
    BY <1>0, RevokedIs
  <2>3. mapper' \in Mappers /\ Sound(mapper') /\ mapper'.seen = mapper.seen
    BY <2>1, <2>2 DEF RevokedGives
  <2>4. Adopts(mapper', adopted')
    BY <1>0, <2>1, <2>3, AdoptsStays
  <2>5. HostIsTyped(host')
    BY <1>0, <2>1 DEF HostIsTyped, Hosts
  <2>6. [link EXCEPT !.heard = @ + 1] \in Links
    BY <1>0 DEF Links
  <2>7. WireInv'
    BY <1>0, <2>1, <2>6 DEF WireInv, wireVars
  <2>8. SinkInv'
    BY <1>0, <2>1, <2>5 DEF SinkInv
  <2> QED BY <2>4, <2>7, <2>8 DEF VolumeInv
<1> QED BY <1>1, <1>2

-------------------------------------------------------------------------------
(* The theorems.                                                                    *)

(* Every step keeps the invariant. *)
LEMMA VolumesStep == ASSUME VolumeInv, [AvrcpNext]_volumeVars PROVE VolumeInv'
<1>1. CASE WorldSteps
  BY <1>1, WireMoves, EndpointMoves DEF WorldSteps
<1>2. CASE HostSteps
  BY <1>2, PollEventKeeps, ReadKeeps, PollKeeps, SessionKeeps, SessionEndKeeps DEF HostSteps
<1>3. CASE UNCHANGED volumeVars
  BY <1>3 DEF volumeVars, wireVars, agentVars, VolumeInv, WireInv, SinkInv
<1> QED BY <1>1, <1>2, <1>3 DEF AvrcpNext

(* The invariant holds throughout. *)
LEMMA VolumesHold == AvrcpSpec => []VolumeInv
BY VolumesBegin, VolumesStep, PTL DEF AvrcpSpec

(* The records of mapper, sink, endpoint and host keep their shape and the trace its *)
(* bound: what VolumeTypeOK says of every operation of v1_avrcp_action_mapper.cpp,  *)
(* avrcp_absolute_volume_state.cpp, v1_avrcp_windows_sink.cpp and of the filter     *)
(* host's Poll, for every scale, every trace and any number of actions.             *)
THEOREM VolumeTypeCorrect == AvrcpSpec => []VolumeTypeOK
<1>1. VolumeInv => VolumeTypeOK
  BY DEF VolumeInv, WireInv, SinkInv, VolumeTypeOK, Headsets, TraceIsTyped, Adopts, Mappers,
         Reducers, Sinks, Maybe, Endpoints, HostIsTyped, Hosts
<1> QED BY <1>1, VolumesHold, PTL

(* In one generation of the link the level of the headset is taken for the endpoint's *)
(* volume at most once without the headset having been turned: V1AvrcpObserveXm5Volume *)
(* adopts the first level only, and neither the end of a session, nor a revoked lease, *)
(* nor a lost capability makes it the first again.                                  *)
THEOREM GenerationsAdoptOnce == AvrcpSpec => []AdoptsOnce
<1>1. VolumeInv => AdoptsOnce
  BY DEF VolumeInv, Adopts, AdoptsOnce
<1> QED BY <1>1, VolumesHold, PTL
===============================================================================
