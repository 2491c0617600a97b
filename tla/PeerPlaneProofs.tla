--------------------------- MODULE PeerPlaneProofs ---------------------------
(***************************************************************************)
(* Proofs about what the processes know of one another: the daemon's echo  *)
(* subscribers and its watchdog of the player, for every table size, rate  *)
(* limit, time-out and interval; and the registry in which the plug-in     *)
(* instances list themselves for the daemon, for any number of hosts,      *)
(* instances, ports, launches and boots. And about one such instance: what *)
(* its threads leave of the values of a parameter, for any number of       *)
(* objects, any automated parameters and any capacity of the rings.        *)
(***************************************************************************)
EXTENDS PeerPlane, PluginRegistry, PluginHost, SequenceTheorems, FiniteSetTheorems,
        WellFoundedInduction, TLAPS

-------------------------------------------------------------------------------
(* The watchdog                                                             *)

\* Once the check of this second is over, a silence it has seen has a warning
\* that has not reached the interval.
WatchInv ==
    /\ pinged \in Nat \cup {Never} /\ warned \in Nat
    /\ pinged > Stale => warned <= Interval
    /\ check = "done" /\ pinged >= Stale => warned < Interval

LEMMA WatchedUnchanged ==
    ASSUME WatchInv, UNCHANGED <<pinged, warned, check>>
    PROVE  WatchInv'
BY DEF WatchInv

\* However the player's pings fall between the check and the warning, its
\* silence has a warning no older than the interval (SpatialEngine.cpp:1205).
THEOREM StaleAlwaysTold == Spec => []StaleTold
<1> USE TimeAssumption DEF Never
<1>1. Init => WatchInv
  BY DEF Init, WatchInv
<1>2. ASSUME WatchInv, [Next]_vars PROVE WatchInv'
  <2>1. CASE CheckAge
    BY <1>2, <2>1 DEF CheckAge, WatchInv
  <2>2. CASE Warn
    BY <1>2, <2>2 DEF Warn, WatchInv
  <2>3. CASE Second
    <3>1. /\ check = "done" /\ check' = "due"
          /\ pinged' = Later(pinged, Stale) /\ warned' = Later(warned, Interval)
      BY <2>3 DEF Second
    <3> HIDE DEF Never
    <3>2. \/ pinged' = pinged /\ (pinged = Never \/ pinged > Stale)
          \/ pinged' = pinged + 1 /\ pinged \in Nat /\ pinged <= Stale
      BY <1>2, <3>1 DEF Later, WatchInv, Never
    <3>3. \/ warned' = warned /\ warned > Interval
          \/ warned' = warned + 1 /\ warned <= Interval
      BY <1>2, <3>1 DEF Later, WatchInv, Never
    <3>4. pinged >= Stale => warned < Interval
      BY <1>2, <3>1 DEF WatchInv
    <3>5. pinged' \in Nat \cup {Never} /\ warned' \in Nat
      BY <1>2, <3>2, <3>3 DEF WatchInv, Never
    <3>6. CASE pinged >= Stale
      BY <1>2, <3>1, <3>3, <3>4, <3>5, <3>6 DEF WatchInv
    <3>7. CASE pinged < Stale
      BY <1>2, <3>1, <3>2, <3>5, <3>7 DEF WatchInv
    <3> QED BY <1>2, <3>6, <3>7 DEF WatchInv
  <2>4. CASE \E a \in Addresses : PlayerPing(a)
    BY <1>2, <2>4 DEF PlayerPing, WatchInv
  <2>5. CASE Close \/ PlayerPinged \/ UNCHANGED vars
    <3>1. UNCHANGED <<pinged, warned, check>>
      BY <2>5 DEF Close, PlayerPinged, vars, watchVars
    <3> QED BY <1>2, <3>1, WatchedUnchanged
  <2>6. CASE \/ Message({}) \/ \E b \in ToSet(Bits) : Message({b})
             \/ \E p \in Peers : Subscribe(p)
             \/ \E a \in Addresses : OtherPing(a)
    <3>1. UNCHANGED <<pinged, warned, check>>
      BY <2>6 DEF Message, Subscribe, OtherPing, watchVars
    <3> QED BY <1>2, <3>1, WatchedUnchanged
  <2> QED BY <1>2, <2>1, <2>2, <2>3, <2>4, <2>5, <2>6 DEF Next
<1>3. WatchInv => StaleTold
  BY DEF WatchInv, StaleTold
<1> QED BY <1>1, <1>2, <1>3, PTL DEF Spec

-------------------------------------------------------------------------------
(* The subscriber table                                                     *)

\* A set of numbers that is not empty has a least.
LEMMA Least ==
    ASSUME NEW S \in SUBSET Nat, S # {}
    PROVE  FirstOf(S) \in S
<1> DEFINE R == OpToRel(<, Nat)
<1>1. R = {ss \in Nat \X Nat : ss[1] < ss[2]}
  BY DEF OpToRel
<1>2. IsWellFoundedOn(R, Nat)
  BY NatLessThanWellFounded
<1> HIDE DEF R
<1>3. \E x \in S : \A y \in S : ~(<<y, x>> \in R)
  BY <1>2, WFMin
<1>4. \A x \in Nat : \A y \in Nat : <<y, x>> \notin R => x <= y
  BY <1>1
<1>5. \E x \in S : \A y \in S : x <= y
  BY <1>3, <1>4
<1> QED BY <1>5 DEF FirstOf

\* No slot of the table is beyond the reach of Least.
LEMMA FirstSlot ==
    ASSUME NEW S \in SUBSET Slots, S # {}
    PROVE  FirstOf(S) \in S
<1>1. Slots \subseteq Nat
  BY SizeAssumption DEF Slots
<1> QED BY <1>1, Least

Entry == [active : BOOLEAN, peer : Peers \cup {<<>>}, quiet : Nat, window : {0, 1},
          tokens : 0 .. RateLimit, dropped : BOOLEAN]

TableTypes ==
    /\ entries \in [Slots -> Entry]
    /\ heard \in [Peers -> Nat]
    /\ DOMAIN behind = Slots
    /\ dirty \subseteq ToSet(Bits)
    /\ \A s \in Active : entries[s].peer \in Peers

\* The time kept for a subscriber is that since it, or its address, was heard.
QuietTrue == \A s \in Active : entries[s].quiet = heard[entries[s].peer]

\* What a subscriber lacks it has been told of, or will be.
GapTold == \A s \in Active : behind[s] # {} => s \in told \/ entries[s].dropped

TableInv == TableTypes /\ OneSlotEach /\ QuietTrue /\ GapTold

-------------------------------------------------------------------------------
LEMMA VacantEntry == Vacant \in Entry /\ ~Vacant.active
<1>1. 0 \in 0 .. RateLimit
  BY SizeAssumption
<1> QED BY <1>1 DEF Vacant, Entry

LEMMA TableUnchanged ==
    ASSUME TableInv, UNCHANGED <<entries, dirty, ghosts>>
    PROVE  TableInv'
BY DEF TableInv, TableTypes, OneSlotEach, QuietTrue, GapTold, Active, ghosts

LEMMA InitTable == Init => TableInv
<1> SUFFICES ASSUME Init PROVE TableInv
  OBVIOUS
<1>1. Active = {}
  BY VacantEntry DEF Init, Active
<1>2. entries \in [Slots -> Entry] /\ dirty \subseteq ToSet(Bits) /\ DOMAIN behind = Slots
  BY VacantEntry DEF Init
<1>3. heard \in [Peers -> Nat]
  BY TimeAssumption DEF Init
<1> QED BY <1>1, <1>2, <1>3 DEF TableInv, TableTypes, OneSlotEach, QuietTrue, GapTold

-------------------------------------------------------------------------------
(* The flush                                                                *)

LEMMA PlacesFinite ==
    ASSUME NEW marked
    PROVE  /\ IsFiniteSet(Pending(marked)) /\ Cardinality(Pending(marked)) \in Nat
           /\ \A i \in Pending(marked) :
                 Cardinality({j \in Pending(marked) : j <= i}) <= Cardinality(Pending(marked))
<1>1. DOMAIN Bits = 1 .. Len(Bits) /\ Len(Bits) \in Nat
  BY BitsAssumption
<1>2. IsFiniteSet(DOMAIN Bits)
  BY <1>1, FS_Interval
<1>3. IsFiniteSet(Pending(marked))
  BY <1>2, FS_Subset DEF Pending
<1>4. ASSUME NEW i \in Pending(marked)
      PROVE  Cardinality({j \in Pending(marked) : j <= i}) <= Cardinality(Pending(marked))
  BY <1>3, FS_Subset
<1> QED BY <1>3, <1>4, FS_CardinalityType

\* If nothing is pending nothing known was marked; if everything passes the rate
\* guard, everything marked is sent.
LEMMA AllSent ==
    ASSUME NEW marked \in SUBSET ToSet(Bits)
    PROVE  LET n == Cardinality(Pending(marked))
           IN  /\ n = 0 => marked = {}
               /\ marked \subseteq {Bits[i] : i \in First(Pending(marked), n)}
<1> DEFINE n == Cardinality(Pending(marked))
<1>1. \A b \in marked : \E i \in Pending(marked) : Bits[i] = b
  BY DEF ToSet, Pending
<1>2. n = 0 => Pending(marked) = {}
  BY PlacesFinite, FS_EmptySet
<1>3. Pending(marked) \subseteq First(Pending(marked), n)
  BY PlacesFinite DEF First
<1> QED BY <1>1, <1>2, <1>3

LEMMA AllowedRange ==
    ASSUME NEW e \in Entry, NEW n \in Nat
    PROVE  /\ Allowed(e, n) \in 0 .. n
           /\ Guarded(e).tokens + Allowed(e, n) \in 0 .. RateLimit
           /\ Guarded(e) \in Entry
           /\ Guarded(e).active = e.active /\ Guarded(e).peer = e.peer
           /\ Guarded(e).quiet = e.quiet
           /\ e.window = 0 => Guarded(e) = e
<1>1. RateLimit \in Nat
  BY SizeAssumption
<1>2. /\ Guarded(e).active = e.active /\ Guarded(e).peer = e.peer
      /\ Guarded(e).quiet = e.quiet
      /\ e.window = 0 => Guarded(e) = e
  BY DEF Entry, Guarded
<1>3. Guarded(e) \in Entry
  <2>1. CASE e.window >= 1
    <3>1. Guarded(e) = [e EXCEPT !.window = 0, !.tokens = 0, !.dropped = FALSE]
      BY <2>1 DEF Guarded
    <3>2. 0 \in 0 .. RateLimit
      BY <1>1
    <3>3. Guarded(e) = [active |-> e.active, peer |-> e.peer, quiet |-> e.quiet,
                        window |-> 0, tokens |-> 0, dropped |-> FALSE]
      BY <3>1 DEF Entry
    <3> QED BY <3>2, <3>3 DEF Entry
  <2>2. CASE ~(e.window >= 1)
    BY <2>2 DEF Guarded
  <2> QED BY <2>1, <2>2
<1>4. PICK t \in 0 .. RateLimit : t = Guarded(e).tokens
  BY <1>3 DEF Entry
<1>5. Allowed(e, n) \in 0 .. n /\ t + Allowed(e, n) \in 0 .. RateLimit
  BY <1>1, <1>4 DEF Allowed
<1> QED BY <1>2, <1>3, <1>4, <1>5

LEMMA FlushTable ==
    ASSUME TableInv, NEW marked \in SUBSET ToSet(Bits), Flush(marked), heard' = heard
    PROVE  TableInv'
<1> DEFINE n    == Cardinality(Pending(marked))
           k(s) == Allowed(entries[s], n)
           Sent(s) == {Bits[i] : i \in First(Pending(marked), k(s))}
<1>f. TableTypes /\ OneSlotEach /\ QuietTrue /\ GapTold
  BY DEF TableInv
<1>n. n \in Nat
  BY PlacesFinite
<1>e. \A s \in Slots : entries[s] \in Entry
  BY <1>f DEF TableTypes
<1>k. \A s \in Slots : /\ k(s) \in 0 .. n
                       /\ Guarded(entries[s]).tokens + k(s) \in 0 .. RateLimit
                       /\ Guarded(entries[s]) \in Entry
                       /\ Guarded(entries[s]).active = entries[s].active
                       /\ Guarded(entries[s]).peer = entries[s].peer
                       /\ Guarded(entries[s]).quiet = entries[s].quiet
                       /\ entries[s].window = 0 => Guarded(entries[s]) = entries[s]
  BY <1>n, <1>e, AllowedRange
<1>s. \A s \in Slots : k(s) = n => marked \subseteq Sent(s)
  BY AllSent
<1>m. n = 0 => marked = {}
  BY AllSent
<1>h. /\ entries' = [s \in Slots |->
            IF s \in Active /\ n > 0
            THEN [Guarded(entries[s]) EXCEPT !.tokens = @ + k(s), !.dropped = @ \/ k(s) < n]
            ELSE entries[s]]
      /\ behind' = [s \in Slots |->
            IF s \in Active THEN (behind[s] \cup marked) \ Sent(s) ELSE behind[s]]
      /\ told' = {s \in Slots : s \in Active =>
            k(s) = n /\ (s \in told \/ (n > 0 /\ Reported(entries[s])))}
      /\ dirty' = {}
  BY DEF Flush
<1> HIDE DEF n, k, Sent
<1>1. ASSUME NEW s \in Slots
      PROVE  /\ entries'[s] \in Entry
             /\ entries'[s].active = entries[s].active
             /\ entries'[s].peer = entries[s].peer
             /\ entries'[s].quiet = entries[s].quiet
  <2>1. CASE s \in Active /\ n > 0
    <3> DEFINE g == Guarded(entries[s])
    <3>1. entries'[s] = [g EXCEPT !.tokens = @ + k(s), !.dropped = @ \/ k(s) < n]
      BY <1>h, <2>1
    <3>2. /\ g \in Entry /\ g.tokens + k(s) \in 0 .. RateLimit
          /\ g.active = entries[s].active /\ g.peer = entries[s].peer
          /\ g.quiet = entries[s].quiet
      BY <1>k
    <3> HIDE DEF g
    <3>3. (g.dropped \/ k(s) < n) \in BOOLEAN
      OBVIOUS
    <3> QED BY <3>1, <3>2, <3>3 DEF Entry
  <2>2. CASE ~(s \in Active /\ n > 0)
    BY <1>h, <1>e, <2>2
  <2> QED BY <2>1, <2>2
<1>2. Active' = Active
  BY <1>1 DEF Active
<1>3. TableTypes'
  BY <1>f, <1>h, <1>1, <1>2 DEF TableTypes, Active
<1>4. OneSlotEach' /\ QuietTrue'
  BY <1>f, <1>1, <1>2 DEF OneSlotEach, QuietTrue, Active
<1>5. ASSUME NEW s \in Active, behind'[s] # {} PROVE s \in told' \/ entries'[s].dropped
  <2>1. s \in Slots /\ behind'[s] = (behind[s] \cup marked) \ Sent(s)
    BY <1>h DEF Active
  <2>2. CASE k(s) # n
    <3>1. n > 0 /\ k(s) < n
      BY <1>n, <1>k, <2>1, <2>2
    <3>2. entries'[s] = [Guarded(entries[s]) EXCEPT !.tokens = @ + k(s), !.dropped = @ \/ k(s) < n]
      BY <1>h, <2>1, <3>1
    <3> QED BY <1>k, <2>1, <3>1, <3>2 DEF Entry
  <2>3. CASE k(s) = n
    <3>1. behind[s] # {}
      BY <1>s, <1>5, <2>1, <2>3
    <3>2. CASE s \in told
      BY <1>h, <2>1, <2>3, <3>2
    <3>3. CASE n > 0 /\ Reported(entries[s])
      BY <1>h, <2>1, <2>3, <3>3
    <3>4. CASE s \notin told /\ n = 0
      BY <1>f, <1>h, <1>n, <2>1, <3>1, <3>4 DEF GapTold
    <3>5. CASE s \notin told /\ n > 0 /\ ~Reported(entries[s])
      <4>1. entries[s].dropped /\ entries[s].window = 0
        BY <1>f, <1>e, <2>1, <3>1, <3>5 DEF GapTold, Reported, Entry
      <4>2. entries'[s] = [entries[s] EXCEPT !.tokens = @ + k(s), !.dropped = @ \/ k(s) < n]
        BY <1>h, <1>k, <2>1, <3>5, <4>1
      <4> QED BY <1>e, <2>1, <4>1, <4>2 DEF Entry
    <3> QED BY <1>n, <3>2, <3>3, <3>4, <3>5
  <2> QED BY <2>2, <2>3
<1>6. GapTold'
  BY <1>2, <1>5 DEF GapTold
<1> QED BY <1>3, <1>4, <1>6 DEF TableInv

-------------------------------------------------------------------------------
(* Handshakes, pings, seconds                                               *)

LEMMA SubscribeTable ==
    ASSUME TableInv, NEW p \in Peers, Subscribe(p)
    PROVE  TableInv'
<1> DEFINE hers == {s \in Active : entries[s].peer = p}
<1>f. TableTypes /\ OneSlotEach /\ QuietTrue /\ GapTold
  BY DEF TableInv
<1>h. heard' = [heard EXCEPT ![p] = 0] /\ dirty' = dirty
  BY DEF Subscribe
<1>t. heard' \in [Peers -> Nat] /\ \A q \in Peers : heard'[q] = IF q = p THEN 0 ELSE heard[q]
  BY <1>f, <1>h DEF TableTypes
<1>1. CASE /\ hers # {}
           /\ entries' = [entries EXCEPT ![FirstOf(hers)].quiet = 0]
           /\ UNCHANGED <<behind, told>>
  <2>1. PICK f \in Active : f = FirstOf(hers) /\ entries[f].peer = p
    BY <1>1, FirstSlot DEF Active
  <2>2. f \in Slots /\ entries' = [entries EXCEPT ![f].quiet = 0]
    BY <1>1, <2>1 DEF Active
  <2>3. \A s \in Slots : /\ entries'[s] \in Entry
                         /\ entries'[s].active = entries[s].active
                         /\ entries'[s].peer = entries[s].peer
                         /\ entries'[s].dropped = entries[s].dropped
                         /\ entries'[s].quiet = IF s = f THEN 0 ELSE entries[s].quiet
    BY <1>f, <2>2 DEF TableTypes, Entry
  <2>4. Active' = Active
    BY <2>3 DEF Active
  <2>5. entries' \in [Slots -> Entry]
    BY <1>f, <2>2, <2>3 DEF TableTypes
  <2>6. TableTypes'
    BY <1>f, <1>1, <1>h, <1>t, <2>3, <2>4, <2>5 DEF TableTypes, Active
  <2>7. OneSlotEach'
    BY <1>f, <2>3, <2>4 DEF OneSlotEach, Active
  <2>8. GapTold'
    BY <1>f, <1>1, <2>3, <2>4 DEF GapTold, Active
  <2>9. QuietTrue'
    BY <1>f, <1>t, <2>1, <2>3, <2>4 DEF TableTypes, OneSlotEach, QuietTrue, Active
  <2> QED BY <2>6, <2>7, <2>8, <2>9 DEF TableInv
<1>2. CASE hers = {} /\ Active # Slots /\ Attach(FirstOf(Slots \ Active), p)
  <2>1. PICK f \in Slots : f = FirstOf(Slots \ Active) /\ f \notin Active
    BY <1>2, FirstSlot DEF Active
  <2> DEFINE new == [Vacant EXCEPT !.active = TRUE, !.peer = p]
  <2>2. new \in Entry /\ new.active /\ new.peer = p /\ new.quiet = 0
    BY VacantEntry DEF Entry, Vacant
  <2> HIDE DEF new
  <2>3. /\ entries' = [entries EXCEPT ![f] = new]
        /\ behind' = [behind EXCEPT ![f] = {}] /\ told' = told \cup {f}
    BY <1>2, <2>1 DEF Attach, new
  <2>4. Active' = Active \cup {f}
    BY <1>f, <2>2, <2>3 DEF TableTypes, Active
  <2>5. \A s \in Active : s # f /\ entries'[s] = entries[s] /\ entries[s].peer # p
    BY <1>2, <1>f, <2>1, <2>3 DEF TableTypes, Active
  <2>6. entries'[f] = new /\ f \in told' /\ \A s \in Active : behind'[s] = behind[s]
    BY <1>f, <2>3, <2>5 DEF TableTypes, Active
  <2>7. TableTypes'
    BY <1>f, <1>h, <1>t, <2>2, <2>3, <2>4, <2>5, <2>6 DEF TableTypes
  <2>8. OneSlotEach'
    BY <1>f, <2>2, <2>4, <2>5, <2>6 DEF OneSlotEach
  <2>9. QuietTrue'
    BY <1>f, <1>t, <2>2, <2>4, <2>5, <2>6 DEF QuietTrue, TableTypes
  <2>10. GapTold'
    BY <1>f, <2>3, <2>4, <2>5, <2>6 DEF GapTold
  <2> QED BY <2>7, <2>8, <2>9, <2>10 DEF TableInv
<1> QED BY <1>1, <1>2 DEF Subscribe

\* A ping refreshes every subscriber of its address and leaves the others'
\* times; who goes has been silent for longer than the time-out.
LEMMA TouchTable ==
    ASSUME TableInv, NEW a, Touch(a)
    PROVE  /\ TableInv'
           /\ \A s \in Active : entries'[s].active \/ heard[entries[s].peer] > Ttl
<1>f. TableTypes /\ OneSlotEach /\ QuietTrue /\ GapTold
  BY DEF TableInv
<1>h. /\ entries' = [s \in Slots |->
            IF s \in AtAddress(a) THEN [entries[s] EXCEPT !.quiet = 0]
            ELSE IF s \in Active /\ entries[s].quiet <= Ttl THEN entries[s] ELSE Vacant]
      /\ heard' = [p \in Peers |-> IF p[1] = a THEN 0 ELSE heard[p]]
      /\ UNCHANGED <<dirty, behind, told>>
  BY DEF Touch
<1>1. \A s \in Slots : s \in AtAddress(a) =>
          /\ s \in Active /\ entries[s].peer[1] = a /\ entries'[s] \in Entry
          /\ entries'[s].active /\ entries'[s].peer = entries[s].peer
          /\ entries'[s].quiet = 0 /\ entries'[s].dropped = entries[s].dropped
  BY <1>f, <1>h DEF AtAddress, Active, TableTypes, Entry
<1>2. \A s \in Slots : s \in Active /\ s \notin AtAddress(a) /\ entries[s].quiet <= Ttl =>
          /\ entries'[s] = entries[s] /\ entries[s].peer[1] # a
  BY <1>h DEF AtAddress
<1>3. \A s \in Slots : s \notin AtAddress(a) /\ ~(s \in Active /\ entries[s].quiet <= Ttl) =>
          entries'[s] = Vacant
  BY <1>h
<1>4. \A s \in Slots : entries'[s] \in Entry
  BY <1>f, <1>1, <1>2, <1>3, VacantEntry DEF TableTypes
<1>5. ASSUME NEW s \in Active'
      PROVE  /\ s \in Active /\ entries'[s].peer = entries[s].peer
             /\ entries'[s].dropped = entries[s].dropped
             /\ s \in AtAddress(a) \/ (entries'[s] = entries[s] /\ entries[s].peer[1] # a)
  <2>1. s \in Slots /\ entries'[s].active
    BY DEF Active
  <2>2. CASE s \in AtAddress(a)
    BY <1>1, <2>1, <2>2
  <2>3. CASE s \in Active /\ s \notin AtAddress(a) /\ entries[s].quiet <= Ttl
    <3>1. entries'[s] = entries[s] /\ entries[s].peer[1] # a
      BY <1>2, <2>1, <2>3
    <3> QED BY <2>3, <3>1
  <2>4. CASE s \notin AtAddress(a) /\ ~(s \in Active /\ entries[s].quiet <= Ttl)
    BY <1>3, <2>1, <2>4, VacantEntry
  <2> QED BY <2>2, <2>3, <2>4
<1>6. heard' \in [Peers -> Nat]
  BY <1>f, <1>h DEF TableTypes
<1>7. TableTypes'
  <2>1. entries' \in [Slots -> Entry]
    BY <1>h, <1>4
  <2>2. \A s \in Active' : entries'[s].peer \in Peers
    BY <1>f, <1>5 DEF TableTypes
  <2> QED BY <1>f, <1>h, <1>6, <2>1, <2>2 DEF TableTypes
<1>8. OneSlotEach' /\ GapTold'
  <2>1. OneSlotEach'
    BY <1>f, <1>5 DEF OneSlotEach
  <2>2. GapTold'
    BY <1>f, <1>h, <1>5 DEF GapTold
  <2> QED BY <2>1, <2>2
<1>9. QuietTrue'
  <2> SUFFICES ASSUME NEW s \in Active' PROVE entries'[s].quiet = heard'[entries'[s].peer]
    BY DEF QuietTrue
  <2>1. s \in Slots /\ s \in Active /\ entries[s].peer \in Peers /\ entries'[s].peer = entries[s].peer
    BY <1>f, <1>5 DEF TableTypes, Active
  <2>2. CASE s \in AtAddress(a)
    BY <1>1, <1>h, <2>1, <2>2
  <2>3. CASE entries'[s] = entries[s] /\ entries[s].peer[1] # a
    BY <1>f, <1>h, <2>1, <2>3 DEF QuietTrue
  <2> QED BY <1>5, <2>2, <2>3
<1>10. ASSUME NEW s \in Active PROVE entries'[s].active \/ heard[entries[s].peer] > Ttl
  <2>1. s \in Slots /\ entries[s].active /\ entries[s].quiet \in Nat /\ Ttl \in Nat
    BY <1>f, TimeAssumption DEF Active, TableTypes, Entry
  <2>2. entries[s].quiet = heard[entries[s].peer]
    BY <1>f DEF QuietTrue
  <2>3. CASE s \in AtAddress(a) \/ entries[s].quiet <= Ttl
    BY <1>1, <1>2, <2>1, <2>3
  <2> QED BY <2>1, <2>2, <2>3
<1> QED BY <1>7, <1>8, <1>9, <1>10 DEF TableInv

LEMMA SecondTable ==
    ASSUME TableInv, Second
    PROVE  TableInv' /\ Active' = Active
<1>f. TableTypes /\ OneSlotEach /\ QuietTrue /\ GapTold
  BY DEF TableInv
<1>h. /\ entries' = [s \in Slots |->
            IF s \in Active THEN [entries[s] EXCEPT !.quiet = Later(@, Ttl), !.window = 1]
            ELSE entries[s]]
      /\ heard' = [p \in Peers |-> Later(heard[p], Ttl)]
      /\ UNCHANGED <<dirty, behind, told>>
  BY DEF Second
<1>1. \A n \in Nat : Later(n, Ttl) \in Nat
  BY DEF Later, Never
<1>2. ASSUME NEW s \in Slots
      PROVE  /\ entries'[s] \in Entry
             /\ entries'[s].active = entries[s].active /\ entries'[s].peer = entries[s].peer
             /\ entries'[s].dropped = entries[s].dropped
             /\ s \in Active => entries'[s].quiet = Later(entries[s].quiet, Ttl)
  <2>1. entries[s] \in Entry /\ Later(entries[s].quiet, Ttl) \in Nat
    BY <1>f, <1>1 DEF TableTypes, Entry
  <2>2. CASE s \in Active
    <3>1. entries'[s] = [entries[s] EXCEPT !.quiet = Later(entries[s].quiet, Ttl), !.window = 1]
      BY <1>h, <2>2
    <3> QED BY <2>1, <3>1 DEF Entry
  <2>3. CASE s \notin Active
    BY <1>h, <2>1, <2>3
  <2> QED BY <2>2, <2>3
<1>3. Active' = Active
  BY <1>2 DEF Active
<1>4. heard' \in [Peers -> Nat]
  BY <1>f, <1>h, <1>1 DEF TableTypes
<1>5. TableTypes'
  <2>1. entries' \in [Slots -> Entry]
    BY <1>h, <1>2
  <2>2. \A s \in Active' : entries'[s].peer \in Peers
    BY <1>f, <1>2, <1>3 DEF TableTypes, Active
  <2> QED BY <1>f, <1>h, <1>4, <2>1, <2>2 DEF TableTypes
<1>6. OneSlotEach'
  BY <1>f, <1>2, <1>3 DEF OneSlotEach, Active
<1>7. GapTold'
  BY <1>f, <1>h, <1>2, <1>3 DEF GapTold, Active
<1>8. QuietTrue'
  <2> SUFFICES ASSUME NEW s \in Active PROVE entries'[s].quiet = heard'[entries'[s].peer]
    BY <1>3 DEF QuietTrue
  <2>1. s \in Slots /\ entries[s].peer \in Peers /\ entries'[s].peer = entries[s].peer
    BY <1>f, <1>2 DEF TableTypes, Active
  <2>2. entries'[s].quiet = Later(heard[entries[s].peer], Ttl)
    BY <1>f, <1>2, <2>1 DEF QuietTrue
  <2>3. heard'[entries[s].peer] = Later(heard[entries[s].peer], Ttl)
    BY <1>h, <2>1
  <2> QED BY <2>1, <2>2, <2>3
<1> QED BY <1>3, <1>5, <1>6, <1>7, <1>8 DEF TableInv

\* Every step keeps the table, and one that is not a stop keeps its subscribers.
LEMMA StepTable ==
    ASSUME TableInv, [Next]_vars
    PROVE  /\ TableInv'
           /\ ~Close => \A s \in Active : entries'[s].active \/ heard[entries[s].peer] > Ttl
<1> DEFINE Stays == \A s \in Active : entries'[s].active
<1>f. TableTypes /\ OneSlotEach /\ QuietTrue /\ GapTold
  BY DEF TableInv
<1>1. ASSUME NEW marks \in SUBSET ToSet(Bits), Message(marks) PROVE TableInv' /\ Stays
  <2>1. Marked(marks) \subseteq ToSet(Bits) /\ heard' = heard
    BY <1>1, <1>f DEF Marked, TableTypes, Message
  <2>2. CASE Active # {}
    <3>1. Flush(Marked(marks))
      BY <1>1, <2>2 DEF Message
    <3>2. \A s \in Slots : entries[s].active => Guarded(entries[s]).active
      BY <1>f DEF TableTypes, Guarded, Entry
    <3>3. ASSUME NEW s \in Active PROVE entries'[s].active
      <4>1. \/ entries'[s] = entries[s]
            \/ \E t, d : entries'[s] = [Guarded(entries[s]) EXCEPT !.tokens = t, !.dropped = d]
        BY <3>1 DEF Flush, Active
      <4>2. s \in Slots /\ entries[s].active /\ entries[s] \in Entry
        BY <1>f DEF Active, TableTypes
      <4>3. Guarded(entries[s]) \in Entry
        BY <4>2, AllowedRange
      <4> QED BY <3>2, <4>1, <4>2, <4>3 DEF Entry
    <3> QED BY <2>1, <3>1, <3>3, FlushTable
  <2>3. CASE Active = {}
    <3>1. UNCHANGED <<entries, behind, told, heard>> /\ dirty' = Marked(marks)
      BY <1>1, <2>1, <2>3 DEF Message
    <3>2. Active' = Active
      BY <3>1 DEF Active
    <3> QED BY <1>f, <2>1, <2>3, <3>1, <3>2
            DEF TableInv, TableTypes, OneSlotEach, QuietTrue, GapTold
  <2> QED BY <2>2, <2>3
<1>2. ASSUME NEW p \in Peers, Subscribe(p) PROVE TableInv' /\ Stays
  <2>1. TableInv'
    BY <1>2, SubscribeTable
  <2>2. \E s \in Slots : \/ entries' = [entries EXCEPT ![s].quiet = 0]
                         \/ entries' = [entries EXCEPT ![s] = [Vacant EXCEPT !.active = TRUE, !.peer = p]]
    <3>1. CASE \E S \in SUBSET Slots : /\ S # {}
                                       /\ entries' = [entries EXCEPT ![FirstOf(S)].quiet = 0]
      BY <3>1, FirstSlot
    <3>2. CASE \E S \in SUBSET Slots : S # {} /\ Attach(FirstOf(S), p)
      BY <3>2, FirstSlot DEF Attach
    <3> QED BY <1>2, <3>1, <3>2 DEF Subscribe, Active
  <2>3. Stays
    BY <1>f, <2>2 DEF TableTypes, Entry, Active, Vacant
  <2> QED BY <2>1, <2>3
<1>3. CASE Close
  <2>1. Active' = {} /\ entries' \in [Slots -> Entry]
    BY <1>3, VacantEntry DEF Close, Active
  <2> QED BY <1>3, <1>f, <2>1
          DEF Close, ghosts, TableInv, TableTypes, OneSlotEach, QuietTrue, GapTold
<1>4. ASSUME NEW a \in Addresses, PlayerPing(a) PROVE TableInv' /\ Stays
  <2>1. UNCHANGED <<entries, dirty, ghosts>>
    BY <1>4 DEF PlayerPing, echoVars
  <2> QED BY <2>1, TableUnchanged DEF Active
<1>5. ASSUME PlayerPinged \/ \E a \in Addresses : OtherPing(a)
      PROVE  /\ TableInv'
             /\ \A s \in Active : entries'[s].active \/ heard[entries[s].peer] > Ttl
  <2>1. \E a : Touch(a)
    BY <1>5 DEF PlayerPinged, OtherPing
  <2> QED BY <2>1, TouchTable
<1>6. CASE CheckAge \/ Warn \/ UNCHANGED vars
  <2>1. UNCHANGED <<entries, dirty, ghosts>>
    BY <1>6 DEF CheckAge, Warn, vars, echoVars, ghosts
  <2> QED BY <2>1, TableUnchanged DEF Active
<1>7. CASE Second
  BY <1>7, SecondTable DEF Active
<1> QED BY <1>1, <1>2, <1>3, <1>4, <1>5, <1>6, <1>7 DEF Next

\* No peer is ever in the table twice, and a subscriber that lacks the last value
\* of anything marked since it attached has been told that echoes were dropped,
\* or will be by its next echo (EchoSubscriber.cpp:45, 101, 196).
THEOREM GapNeverSilent == Spec => []NoSilentGap
<1>1. TableInv /\ [Next]_vars => TableInv'
  BY StepTable
<1>2. TableInv => NoSilentGap
  BY DEF TableInv, GapTold, NoSilentGap
<1> QED BY InitTable, <1>1, <1>2, PTL DEF Spec

\* A ping evicts only subscribers whose own address has been silent for more
\* than the time-out, whoever sends it (EchoSubscriber.cpp:82).
THEOREM PingingAlwaysStays == Spec => PingingStays
<1>1. TableInv /\ [Next]_vars => TableInv'
  BY StepTable
<1>2. TableInv /\ [Next]_vars =>
        [~Close => \A s \in Active : entries'[s].active \/ heard[entries[s].peer] > Ttl]_vars
  BY StepTable
<1> QED BY InitTable, <1>1, <1>2, PTL DEF Spec, PingingStays
-------------------------------------------------------------------------------
(* The registry of plug-in instances                                        *)

Steps == {"off", "read", "open", "lock", "write", "on"}

\* What an instance lists itself with.
ListedEntry == [pid : Pids, start : Nat \ {0}, id : Nat, port : Nat \ {0}, boot : Nat]

RegistryTyped ==
    /\ boot \in Nat /\ clock \in Nat
    /\ proc \in [Hosts -> [pid : Pids \cup {0}, start : Nat]] /\ counter \in [Hosts -> Nat]
    /\ Listed \in SUBSET ListedEntry
    /\ pc \in [Instances -> Steps] /\ port \in [Instances -> Nat]
    /\ mine \in [Instances -> ListedEntry \cup {NoEntry}]
    /\ listing \in [Instances -> SUBSET ListedEntry]

\* One update at a time.
OneUpdates == \A i, j \in Instances : Inside(i) /\ Inside(j) => i = j

\* Process ids and start times tell the processes apart that run.
ProcessesDiffer ==
    /\ \A h \in Hosts : Runs(h) => proc[h].pid # 0 /\ proc[h].start \in 1 .. clock
    /\ \A g, h \in Hosts : Runs(g) /\ Runs(h) /\ g # h =>
          proc[g].pid # proc[h].pid /\ proc[g].start # proc[h].start

\* An instance's entry is about its own process and socket.
OwnEntry(i) ==
    /\ Runs(HostOf[i])
    /\ mine[i] \in ListedEntry
    /\ mine[i].pid = HostProc(i).pid /\ mine[i].start = HostProc(i).start
    /\ mine[i].boot = boot /\ mine[i].id <= counter[HostOf[i]]
    /\ port[i] \in {0, mine[i].port} /\ (pc[i] = "on" => port[i] # 0)

EntriesOwn ==
    \A i \in Instances : IF pc[i] = "off" THEN port[i] = 0 ELSE OwnEntry(i)

\* Two sockets have two ports, two instances in a process two ids.
EntriesDiffer ==
    \A i, j \in Instances : i # j =>
        /\ port[i] = port[j] => port[i] = 0
        /\ pc[i] # "off" /\ pc[j] # "off" /\ HostOf[i] = HostOf[j] => mine[i].id # mine[j].id

\* A list of entries is faithful to the instances in J: no entry is of a time
\* to come, one whose process is alive is of one of them, no port of this boot is there
\* twice, and every instance that is on is there.
Faithful(S, J) ==
    /\ \A e \in S : e.boot <= boot /\ (e.boot = boot => e.start <= clock)
    /\ \A e \in S \ unsaved : e.boot = boot /\ Alive(e) =>
          \E j \in J : e = mine[j]
    /\ \A d, e \in S \ unsaved : d.boot = boot /\ e.boot = boot /\ d.port = e.port => d = e
    /\ \A j \in Instances : pc[j] = "on" => mine[j] \in S \cup unsaved

Known == {j \in Instances : pc[j] # "off"}

\* The instances an update of i leaves on.
StaysOn(i) == {j \in Instances : pc[j] = "on" \/ (j = i /\ Registering(i))}

UpdateFaithful ==
    \A i \in Instances : pc[i] \in {"open", "lock", "write"} =>
        /\ Faithful(listing[i], StaysOn(i))
        /\ Registering(i) => mine[i] \in listing[i]

Apart ==
    /\ RegistryTyped /\ OneUpdates /\ ProcessesDiffer /\ EntriesOwn /\ EntriesDiffer
    /\ Faithful(Listed, Known) /\ UpdateFaithful

RegistryInv == ~raced => Apart

-------------------------------------------------------------------------------
(* Ports *)

\* A finite set of numbers has a smallest: the sets of those below one of them
\* are ordered by inclusion.
LEMMA SmallestNumber ==
    ASSUME NEW T, IsFiniteSet(T), T \subseteq Int, T # {}
    PROVE  \E i \in T : \A j \in T : i <= j
<1> DEFINE Below(i) == {j \in T : j < i}
           Lower == {Below(i) : i \in T}
           R == StrictSubsetOrdering(T)
<1>1. Lower \subseteq FiniteSubsetsOf(T) /\ Lower # {}
  <2>1. FiniteSubsetsOf(T) = SUBSET T
    BY FS_FiniteSubsetsOfFinite
  <2>2. \A i \in T : Below(i) \in SUBSET T
    OBVIOUS
  <2> HIDE DEF Below
  <2>3. Lower \subseteq SUBSET T
    BY <2>2
  <2>4. Lower # {}
    OBVIOUS
  <2> QED BY <2>1, <2>3, <2>4
<1>2. IsWellFoundedOn(R, FiniteSubsetsOf(T))
  BY FS_StrictSubsetOrderingWellFounded
<1> HIDE DEF Lower
<1>3. PICK B \in Lower : \A C \in Lower : <<C, B>> \notin R
  BY <1>1, <1>2, WFMin
<1>4. PICK i \in T : B = Below(i)
  BY <1>3 DEF Lower
<1>5. ASSUME NEW j \in T, j < i PROVE FALSE
  <2>1. Below(j) \in Lower
    BY DEF Lower
  <2>2. Below(j) \subseteq Below(i) /\ j \in Below(i) /\ j \notin Below(j)
    <3>1. i \in Int /\ j \in Int /\ j < i /\ \A x \in T : x \in Int
      BY <1>5
    <3>2. \A x \in T : x < j => x < i
      BY <3>1
    <3>3. ~(j < j)
      BY <3>1
    <3> QED BY <1>5, <3>2, <3>3
  <2>3. <<Below(j), Below(i)>> \in R
    BY <2>2 DEF StrictSubsetOrdering
  <2> QED BY <1>3, <1>4, <2>1, <2>3
<1>6. i \in Int /\ \A j \in T : j \in Int /\ ~(j < i)
  BY <1>5
<1>7. \A j \in T : i <= j
  BY <1>6
<1> QED BY <1>7

\* There are more ports to try than sockets: the search ends at a free one.
LEMMA FreePortIs ==
    ASSUME port \in [Instances -> Nat], NEW k \in Instances, port[k] = 0
    PROVE  /\ FreePort \in Nat \ {0}
           /\ \A i \in Instances : port[i] # FreePort
<1> DEFINE n == Cardinality(Instances)
           m == PortRange + n
           free == (1 .. m) \ Bound
           used == {port[i] : i \in Instances}
<1>1. n \in Nat /\ m \in Nat /\ m >= n
  BY InstancesAssumption, RangeAssumption, FS_CardinalityType
<1>2. IsFiniteSet(used) /\ Cardinality(used) <= n
  <2>1. port \in Surjection(Instances, used)
    BY DEF Surjection
  <2> QED BY <2>1, InstancesAssumption, FS_Surjection
<1>3. free # {}
  <2> SUFFICES ASSUME free = {} PROVE FALSE
    OBVIOUS
  <2>1. 0 .. m \subseteq used
    <3>1. 0 \in used
      OBVIOUS
    <3>2. \A p \in 1 .. m : p \in used
      BY DEF Bound
    <3> HIDE DEF used
    <3> QED BY <1>1, <3>1, <3>2
  <2> HIDE DEF m, n, used
  <2>2. IsFiniteSet(0 .. m) /\ Cardinality(0 .. m) = m + 1
    <3>1. 0 \in Int /\ m \in Int /\ ~(0 > m) /\ m - 0 + 1 = m + 1
      BY <1>1
    <3> QED BY <3>1, FS_Interval
  <2>3. Cardinality(0 .. m) <= Cardinality(used)
    BY <1>2, <2>1, FS_Subset
  <2>4. Cardinality(used) \in Nat
    BY <1>2, FS_CardinalityType
  <2> QED BY <1>1, <1>2, <2>2, <2>3, <2>4
<1>4. IsFiniteSet(free) /\ free \subseteq Int
  <2>1. IsFiniteSet(1 .. m)
    BY <1>1, FS_Interval
  <2>2. free \in SUBSET (1 .. m) /\ 1 .. m \subseteq Int
    BY <1>1
  <2> HIDE DEF m, free
  <2> QED BY <2>1, <2>2, FS_Subset
<1>5. FreePort = CHOOSE p \in free : \A q \in free : p <= q
  BY DEF FreePort
<1> HIDE DEF free
<1>6. FreePort \in free
  BY <1>3, <1>4, <1>5, SmallestNumber
<1>7. FreePort \in 1 .. m /\ FreePort \notin Bound
  BY <1>6 DEF free
<1> QED BY <1>1, <1>7 DEF Bound

-------------------------------------------------------------------------------
(* Lists *)

\* A list stays faithful when time passes, processes end and more is known
\* not to have been written.
LEMMA StillFaithful ==
    ASSUME NEW S \in SUBSET ListedEntry, NEW J, NEW K, Faithful(S, J),
           boot' = boot, clock \in Nat, clock' \in Nat, clock <= clock', boot \in Nat,
           unsaved \subseteq unsaved',
           \A e \in S : e.boot = boot /\ e.start <= clock /\ Alive(e)' => Alive(e),
           \A e \in S, j \in J : e = mine[j] /\ Alive(e)' =>
              e \in unsaved' \/ (j \in K /\ mine'[j] = mine[j]),
           \A j \in Instances : pc'[j] = "on" => mine'[j] \in S \cup unsaved'
    PROVE  Faithful(S, K)'
<1>1. \A e \in S : e.boot <= boot' /\ (e.boot = boot' => e.start <= clock')
  <2> SUFFICES ASSUME NEW e \in S
               PROVE  e.boot <= boot' /\ (e.boot = boot' => e.start <= clock')
    OBVIOUS
  <2>1. e.start \in Nat /\ e.boot \in Nat
    BY DEF ListedEntry
  <2> QED BY <2>1 DEF Faithful
<1>2. \A e \in S \ unsaved' : e.boot = boot' /\ Alive(e)' => \E j \in K : e = mine'[j]
  <2> SUFFICES ASSUME NEW e \in S, e \notin unsaved', e.boot = boot, Alive(e)'
               PROVE  \E j \in K : e = mine'[j]
    OBVIOUS
  <2>1. Alive(e) /\ e \notin unsaved
    BY DEF Faithful
  <2>2. PICK j \in J : e = mine[j]
    BY <2>1 DEF Faithful
  <2> QED BY <2>2
<1>3. \A d, e \in S \ unsaved' :
         d.boot = boot' /\ e.boot = boot' /\ d.port = e.port => d = e
  BY DEF Faithful
<1> QED BY <1>1, <1>2, <1>3 DEF Faithful

\* Processes that run differ: an id and a process id belong to one instance.
LEMMA OneOwner ==
    ASSUME ProcessesDiffer, EntriesOwn, EntriesDiffer,
           NEW i \in Instances, NEW j \in Instances, pc[i] # "off", pc[j] # "off",
           mine[i].id = mine[j].id,
           mine[i].pid = mine[j].pid \/ mine[i].start = mine[j].start
    PROVE  i = j
<1>1. OwnEntry(i) /\ OwnEntry(j) /\ HostOf[i] \in Hosts /\ HostOf[j] \in Hosts
  BY DEF EntriesOwn, Hosts
<1>2. HostOf[i] = HostOf[j]
  BY <1>1 DEF OwnEntry, ProcessesDiffer, HostProc
<1> QED BY <1>2 DEF EntriesDiffer

LEMMA OwnAlive ==
    ASSUME RegistryTyped, ProcessesDiffer, EntriesOwn, NEW i \in Instances, pc[i] # "off"
    PROVE  Alive(mine[i]) /\ mine[i].boot = boot /\ mine[i].start <= clock
<1>1. OwnEntry(i) /\ HostOf[i] \in Hosts
  BY DEF EntriesOwn, Hosts
<1>2. HostProc(i) \in [pid : Pids \cup {0}, start : Nat]
  BY <1>1 DEF RegistryTyped, HostProc
<1>3. HostProc(i) = [pid |-> HostProc(i).pid, start |-> HostProc(i).start]
  BY <1>2
<1>4. Alive(mine[i])
  BY <1>1, <1>3 DEF Alive, OwnEntry, HostProc
<1> QED BY <1>1, <1>4 DEF OwnEntry, ProcessesDiffer, HostProc

Writing == {"open", "lock", "write"}

\* Both kinds of lists stay faithful in a step that starts, stops and finishes
\* no update.
LEMMA ListsKept ==
    ASSUME Apart, boot' = boot, clock' \in Nat, clock <= clock',
           unsaved' = unsaved, Listed' = Listed,
           \A e \in ListedEntry : e.boot = boot /\ e.start <= clock /\ Alive(e)' => Alive(e),
           \A j \in Instances : \A e \in ListedEntry :
              pc[j] # "off" /\ e = mine[j] /\ Alive(e)' => pc'[j] # "off",
           \A j \in Instances : pc'[j] # "off" =>
              /\ pc'[j] = pc[j] \/ {pc[j], pc'[j]} \subseteq Writing
              /\ mine'[j] = mine[j] /\ listing'[j] = listing[j] /\ port'[j] = port[j]
    PROVE  Faithful(Listed, Known)' /\ UpdateFaithful'
<1> USE DEF Writing
<1>1. boot \in Nat /\ clock \in Nat
  BY DEF Apart, RegistryTyped
<1>2. Faithful(Listed, Known)'
  <2>1. PICK S, J, K : S = Listed /\ J = Known /\ K = Known'
    OBVIOUS
  <2>2. S \in SUBSET ListedEntry /\ Faithful(S, J)
    BY <2>1 DEF Apart, RegistryTyped
  <2>3. \A j \in Instances : pc'[j] = "on" => mine'[j] \in S \cup unsaved'
    BY <2>2 DEF Faithful
  <2>4. \A e \in S, j \in J : e = mine[j] /\ Alive(e)' =>
           e \in unsaved' \/ (j \in K /\ mine'[j] = mine[j])
    BY <2>1, <2>2 DEF Known
  <2>5. \A e \in S : e.boot = boot /\ e.start <= clock /\ Alive(e)' => Alive(e)
    BY <2>2
  <2>6. Faithful(S, K)'
    BY <1>1, <2>2, <2>3, <2>4, <2>5, StillFaithful
  <2> QED BY <2>1, <2>6
<1>3. UpdateFaithful'
  <2> SUFFICES ASSUME NEW i \in Instances, pc'[i] \in Writing
               PROVE  /\ Faithful(listing[i], StaysOn(i))'
                      /\ Registering(i)' => mine'[i] \in listing'[i]
    BY DEF UpdateFaithful
  <2>1. /\ pc[i] \in Writing
        /\ mine'[i] = mine[i] /\ listing'[i] = listing[i] /\ port'[i] = port[i]
    OBVIOUS
  <2>2. PICK S, J, K : S = listing[i] /\ J = StaysOn(i) /\ K = StaysOn(i)'
    OBVIOUS
  <2>3. S \in SUBSET ListedEntry /\ Faithful(S, J) /\ (Registering(i) => mine[i] \in listing[i])
    BY <2>1, <2>2 DEF Apart, RegistryTyped, UpdateFaithful
  <2>4. \A j \in Instances : pc'[j] = "on" => mine'[j] \in S \cup unsaved'
    BY <2>3 DEF Faithful
  <2>5. \A e \in S, j \in J : e = mine[j] /\ Alive(e)' =>
           e \in unsaved' \/ (j \in K /\ mine'[j] = mine[j])
    <3> SUFFICES ASSUME NEW e \in S, NEW j \in J, e = mine[j], Alive(e)'
                 PROVE  j \in K /\ mine'[j] = mine[j]
      OBVIOUS
    <3>1. j \in Instances /\ (pc[j] = "on" \/ (j = i /\ Registering(i)))
      <4>1. j \in StaysOn(i)
        BY <2>2
      <4> QED BY <4>1 DEF StaysOn
    <3>2. pc[j] # "off" /\ e \in ListedEntry
      BY <2>1, <2>3, <3>1
    <3>3. pc'[j] # "off"
      BY <3>1, <3>2
    <3>4. (pc[j] = "on" => pc'[j] = "on") /\ mine'[j] = mine[j]
      BY <3>1, <3>3
    <3>5. Registering(i)' <=> Registering(i)
      BY <2>1 DEF Registering
    <3> QED BY <2>2, <3>1, <3>4, <3>5 DEF StaysOn
  <2>6. \A e \in S : e.boot = boot /\ e.start <= clock /\ Alive(e)' => Alive(e)
    BY <2>3
  <2>7. Faithful(S, K)'
    BY <1>1, <2>3, <2>4, <2>5, <2>6, StillFaithful
  <2>8. Registering(i)' => Registering(i)
    BY <2>1 DEF Registering
  <2> QED BY <2>1, <2>2, <2>3, <2>7, <2>8
<1> QED BY <1>2, <1>3

LEMMA RegistryInitApart == RegistryInit => Apart
<1> SUFFICES ASSUME RegistryInit PROVE Apart
  OBVIOUS
<1>1. Listed = {}
  BY DEF RegistryInit, Listed, Absent, Corrupt, Newer
<1>2. RegistryTyped
  BY <1>1 DEF RegistryInit, RegistryTyped, NoProcess, Steps
<1>3. \A i \in Instances : pc[i] = "off" /\ port[i] = 0
  BY DEF RegistryInit
<1>4. OneUpdates /\ EntriesOwn /\ EntriesDiffer /\ UpdateFaithful
  BY <1>3 DEF OneUpdates, Inside, EntriesOwn, EntriesDiffer, UpdateFaithful
<1>5. ProcessesDiffer
  BY DEF RegistryInit, ProcessesDiffer, Runs
<1>6. \A S, J : S = {} => Faithful(S, J)
  BY <1>3 DEF Faithful
<1> QED BY <1>1, <1>2, <1>4, <1>5, <1>6 DEF Apart

LEMMA LaunchKeeps ==
    ASSUME Apart, NEW h \in Hosts, Launch(h)
    PROVE  Apart'
<1>1. PICK pid \in Pids :
         /\ \A g \in Hosts : proc[g].pid # pid
         /\ proc' = [proc EXCEPT ![h] = [pid |-> pid, start |-> clock + 1]]
  BY DEF Launch
<1>2. /\ boot' = boot /\ clock' = clock + 1 /\ counter' = [counter EXCEPT ![h] = 0]
      /\ UNCHANGED <<doc, pc, port, mine, listing, unsaved>> /\ ~Runs(h)
  BY DEF Launch, registry, local, traces
<1>3. /\ boot \in Nat /\ clock \in Nat
      /\ proc \in [Hosts -> [pid : Pids \cup {0}, start : Nat]]
      /\ counter \in [Hosts -> Nat]
  BY DEF Apart, RegistryTyped
<1>4. pid # 0
  BY <1>1, <1>2 DEF Runs, NoProcess
<1>5. RegistryTyped'
  BY <1>1, <1>2, <1>3 DEF Apart, RegistryTyped, Listed
<1>6. \A g \in Hosts \ {h} : proc'[g] = proc[g] /\ counter'[g] = counter[g]
  BY <1>1, <1>2, <1>3
<1>7. proc'[h] = [pid |-> pid, start |-> clock + 1]
  BY <1>1, <1>3
<1>8. ProcessesDiffer'
  <2> SUFFICES ASSUME NEW g \in Hosts, Runs(g)', NEW f \in Hosts
               PROVE  /\ proc'[g].pid # 0 /\ proc'[g].start \in 1 .. clock'
                      /\ Runs(f)' /\ g # f =>
                            proc'[g].pid # proc'[f].pid /\ proc'[g].start # proc'[f].start
    BY DEF ProcessesDiffer
  <2>1. \A k \in Hosts \ {h} : Runs(k)' =>
           proc[k].pid # 0 /\ proc[k].start \in 1 .. clock /\ Runs(k)
    BY <1>6 DEF Apart, ProcessesDiffer, Runs
  <2>2. \A j, k \in Hosts \ {h} : Runs(j)' /\ Runs(k)' /\ j # k =>
           proc[j].pid # proc[k].pid /\ proc[j].start # proc[k].start
    BY <1>6 DEF Apart, ProcessesDiffer, Runs
  <2>3. \A k \in Hosts \ {h} : Runs(k)' =>
           proc'[k].pid # pid /\ proc'[k].start # clock + 1 /\ proc'[k].start \in 1 .. clock + 1
    BY <1>1, <1>3, <1>6, <2>1
  <2>4. proc'[h].pid = pid /\ proc'[h].start = clock + 1 /\ clock + 1 \in 1 .. clock + 1
    BY <1>3, <1>7
  <2>5. CASE g # h /\ f # h
    BY <1>2, <1>6, <2>1, <2>2, <2>3, <2>5
  <2>6. CASE g = h /\ f # h
    BY <1>2, <1>4, <2>3, <2>4, <2>6
  <2>7. CASE g # h /\ f = h
    BY <1>2, <1>6, <2>1, <2>3, <2>4, <2>7
  <2>8. CASE g = h /\ f = h
    BY <1>2, <1>4, <2>4, <2>8
  <2> QED BY <2>5, <2>6, <2>7, <2>8
<1>9. EntriesOwn'
  <2> SUFFICES ASSUME NEW i \in Instances
               PROVE  IF pc[i] = "off" THEN port[i] = 0 ELSE OwnEntry(i)'
    BY <1>2 DEF EntriesOwn
  <2>1. IF pc[i] = "off" THEN port[i] = 0 ELSE OwnEntry(i)
    BY DEF Apart, EntriesOwn
  <2>2. CASE pc[i] # "off"
    <3>1. HostOf[i] \in Hosts \ {h}
      BY <1>2, <2>1, <2>2 DEF Hosts, OwnEntry
    <3> QED BY <1>2, <1>6, <2>1, <2>2, <3>1 DEF OwnEntry, HostProc, Runs
  <2> QED BY <2>1, <2>2
<1>10. \A e \in ListedEntry : e.boot = boot /\ e.start <= clock /\ Alive(e)' => Alive(e)
  <2> SUFFICES ASSUME NEW e \in ListedEntry, e.start <= clock, Alive(e)' PROVE Alive(e)
    OBVIOUS
  <2>1. PICK g \in Hosts : proc'[g] = [pid |-> e.pid, start |-> e.start]
    BY DEF Alive
  <2>2. e.start # clock + 1
    BY <1>3 DEF ListedEntry
  <2>3. g # h
    BY <1>7, <2>1, <2>2
  <2> QED BY <1>6, <2>1, <2>3 DEF Alive
<1>11. Faithful(Listed, Known)' /\ UpdateFaithful'
  <2>1. clock' \in Nat /\ clock <= clock' /\ Listed' = Listed
    BY <1>2, <1>3 DEF Listed
  <2> QED BY <1>2, <1>10, <2>1, ListsKept
<1>12. OneUpdates' /\ EntriesDiffer'
  BY <1>2 DEF Apart, OneUpdates, Inside, EntriesDiffer
<1> QED BY <1>5, <1>8, <1>9, <1>11, <1>12 DEF Apart

LEMMA KillKeeps ==
    ASSUME Apart, NEW h \in Hosts, Kill(h)
    PROVE  Apart'
<1> DEFINE I == {i \in Instances : HostOf[i] = h}
<1>1. /\ proc' = [proc EXCEPT ![h] = NoProcess]
      /\ UNCHANGED <<boot, clock, counter, doc, unsaved>>
      /\ Unstarted(I)
  BY DEF Kill, registry, traces
<1>2. \A i \in Instances :
         /\ pc'[i] = IF i \in I THEN "off" ELSE pc[i]
         /\ port'[i] = IF i \in I THEN 0 ELSE port[i]
         /\ mine'[i] = IF i \in I THEN NoEntry ELSE mine[i]
         /\ listing'[i] = IF i \in I THEN {} ELSE listing[i]
  BY <1>1 DEF Unstarted
<1>3. /\ boot \in Nat /\ clock \in Nat
      /\ proc \in [Hosts -> [pid : Pids \cup {0}, start : Nat]]
  BY DEF Apart, RegistryTyped
<1>4. RegistryTyped'
  <2>1. /\ pc' \in [Instances -> Steps] /\ port' \in [Instances -> Nat]
        /\ mine' \in [Instances -> ListedEntry \cup {NoEntry}]
        /\ listing' \in [Instances -> SUBSET ListedEntry]
    BY <1>1 DEF Unstarted, Apart, RegistryTyped, Steps
  <2>2. proc' \in [Hosts -> [pid : Pids \cup {0}, start : Nat]]
    BY <1>1, <1>3 DEF NoProcess
  <2> QED BY <1>1, <2>1, <2>2 DEF Apart, RegistryTyped, Listed
<1>5. /\ \A g \in Hosts \ {h} : proc'[g] = proc[g]
      /\ proc'[h] = NoProcess
  BY <1>1, <1>3
<1>6. ProcessesDiffer'
  BY <1>1, <1>5 DEF Apart, ProcessesDiffer, Runs
<1>7. EntriesOwn'
  <2> SUFFICES ASSUME NEW i \in Instances
               PROVE  IF pc'[i] = "off" THEN port'[i] = 0 ELSE OwnEntry(i)'
    BY DEF EntriesOwn
  <2>1. IF pc[i] = "off" THEN port[i] = 0 ELSE OwnEntry(i)
    BY DEF Apart, EntriesOwn
  <2>2. CASE i \in I
    BY <1>2, <2>2
  <2>3. CASE i \notin I
    <3>1. HostOf[i] \in Hosts \ {h}
      BY <2>3 DEF Hosts
    <3> QED BY <1>1, <1>2, <1>5, <2>1, <2>3, <3>1 DEF OwnEntry, HostProc, Runs
  <2> QED BY <2>2, <2>3
<1>8. OneUpdates' /\ EntriesDiffer'
  BY <1>2 DEF Apart, OneUpdates, Inside, EntriesDiffer
<1>9. \A e \in ListedEntry, g \in Hosts : proc'[g] = [pid |-> e.pid, start |-> e.start] =>
         g # h /\ proc[g] = [pid |-> e.pid, start |-> e.start]
  <2> SUFFICES ASSUME NEW e \in ListedEntry, NEW g \in Hosts,
                      proc'[g] = [pid |-> e.pid, start |-> e.start]
               PROVE  g # h
    BY <1>5
  <2>1. e.start # 0
    BY DEF ListedEntry
  <2> QED BY <1>5, <2>1 DEF NoProcess
<1>10. \A e \in ListedEntry : e.boot = boot /\ e.start <= clock /\ Alive(e)' => Alive(e)
  BY <1>9 DEF Alive
<1>11. \A j \in Instances : \A e \in ListedEntry :
          pc[j] # "off" /\ e = mine[j] /\ Alive(e)' => pc'[j] # "off"
  <2> SUFFICES ASSUME NEW j \in I, NEW e \in ListedEntry, pc[j] # "off", e = mine[j], Alive(e)'
               PROVE  FALSE
    BY <1>2
  <2>1. PICK g \in Hosts : proc'[g] = [pid |-> e.pid, start |-> e.start]
    BY DEF Alive
  <2>2. g # h /\ proc[g] = [pid |-> e.pid, start |-> e.start]
    BY <1>9, <2>1
  <2>3. Runs(h) /\ e.start = proc[h].start
    BY DEF Apart, EntriesOwn, OwnEntry, HostProc
  <2>4. Runs(g) /\ proc[g].start = e.start
    <3>1. e.start # 0
      BY DEF ListedEntry
    <3>2. proc[g].start = e.start
      BY <2>2
    <3> QED BY <3>1, <3>2 DEF Runs, NoProcess
  <2> QED BY <2>2, <2>3, <2>4 DEF Apart, ProcessesDiffer
<1>12. Faithful(Listed, Known)' /\ UpdateFaithful'
  <2>1. clock' \in Nat /\ clock <= clock' /\ Listed' = Listed /\ boot' = boot /\ unsaved' = unsaved
    BY <1>1, <1>3 DEF Listed
  <2>2. \A j \in Instances : pc'[j] # "off" =>
           /\ pc'[j] = pc[j] \/ {pc[j], pc'[j]} \subseteq Writing
           /\ mine'[j] = mine[j] /\ listing'[j] = listing[j] /\ port'[j] = port[j]
    BY <1>2
  <2> QED BY <1>10, <1>11, <2>1, <2>2, ListsKept
<1> QED BY <1>4, <1>6, <1>7, <1>8, <1>12 DEF Apart

LEMMA RebootKeeps ==
    ASSUME Apart, Reboot
    PROVE  Apart'
<1>1. /\ boot' = boot + 1 /\ clock' = 0 /\ proc' = [h \in Hosts |-> NoProcess]
      /\ UNCHANGED <<counter, doc, unsaved>> /\ Unstarted(Instances)
  BY DEF Reboot, registry, traces
<1>2. \A i \in Instances : pc'[i] = "off" /\ port'[i] = 0
  BY <1>1 DEF Unstarted
<1>3. boot \in Nat /\ Listed' = Listed /\ Listed \in SUBSET ListedEntry
  BY <1>1 DEF Apart, RegistryTyped, Listed
<1>4. RegistryTyped'
  <2>1. /\ pc' \in [Instances -> Steps] /\ port' \in [Instances -> Nat]
        /\ mine' \in [Instances -> ListedEntry \cup {NoEntry}]
        /\ listing' \in [Instances -> SUBSET ListedEntry]
    BY <1>1 DEF Unstarted, Steps
  <2>2. proc' \in [Hosts -> [pid : Pids \cup {0}, start : Nat]]
    BY <1>1 DEF NoProcess
  <2> QED BY <1>1, <1>3, <2>1, <2>2 DEF Apart, RegistryTyped
<1>5. OneUpdates' /\ EntriesOwn' /\ EntriesDiffer' /\ UpdateFaithful'
  BY <1>2 DEF OneUpdates, Inside, EntriesOwn, EntriesDiffer, UpdateFaithful
<1>6. ProcessesDiffer'
  BY <1>1 DEF ProcessesDiffer, Runs
<1>7. Faithful(Listed, Known)'
  <2>1. PICK S, K : S = Listed /\ K = Known'
    OBVIOUS
  <2>2. \A e \in S : e.boot < boot' /\ e.boot <= boot' /\ e.boot # boot'
    <3> SUFFICES ASSUME NEW e \in S PROVE e.boot < boot' /\ e.boot <= boot' /\ e.boot # boot'
      OBVIOUS
    <3>1. e.boot <= boot /\ e.boot \in Nat
      BY <1>3, <2>1 DEF Apart, Faithful, ListedEntry
    <3> QED BY <1>1, <1>3, <3>1
  <2>3. Faithful(S, K)'
    BY <1>2, <2>2 DEF Faithful
  <2> QED BY <1>3, <2>1, <2>3
<1> QED BY <1>4, <1>5, <1>6, <1>7 DEF Apart

LEMMA StartKeeps ==
    ASSUME Apart, NEW i \in Instances, Start(i), ~raced'
    PROVE  Apart'
<1> DEFINE h == HostOf[i]   n == counter[h] + 1
           e == [pid |-> HostProc(i).pid, start |-> HostProc(i).start, id |-> n,
                 port |-> FreePort, boot |-> boot]
<1>1. /\ pc[i] = "off" /\ Runs(h) /\ h \in Hosts /\ \A j \in Instances : ~Inside(j)
      /\ UNCHANGED <<boot, clock, proc, doc, listing, unsaved>>
  BY DEF Start, Begin, registry, Hosts
<1>2. /\ boot \in Nat /\ clock \in Nat
      /\ proc \in [Hosts -> [pid : Pids \cup {0}, start : Nat]]
      /\ counter \in [Hosts -> Nat] /\ pc \in [Instances -> Steps]
      /\ port \in [Instances -> Nat] /\ mine \in [Instances -> ListedEntry \cup {NoEntry}]
  BY DEF Apart, RegistryTyped
<1>3. counter' = [counter EXCEPT ![h] = n] /\ counter'[h] = n
  BY <1>1, <1>2 DEF Start
<1>4. /\ port' = [port EXCEPT ![i] = FreePort] /\ mine' = [mine EXCEPT ![i] = e]
      /\ pc' = [pc EXCEPT ![i] = "read"]
  BY <1>3 DEF Start
<1>5. /\ \A j \in Instances \ {i} : pc'[j] = pc[j] /\ port'[j] = port[j] /\ mine'[j] = mine[j]
      /\ pc'[i] = "read" /\ port'[i] = FreePort /\ mine'[i] = e
  BY <1>2, <1>4
<1>6. FreePort \in Nat \ {0} /\ \A j \in Instances : port[j] # FreePort
  <2>1. port[i] = 0
    BY <1>1 DEF Apart, EntriesOwn
  <2> QED BY <1>2, <2>1, FreePortIs
<1>7. /\ proc[h].pid \in Pids /\ proc[h].start \in Nat \ {0} /\ n \in Nat
  <2>1. proc[h].pid # 0 /\ proc[h].start \in 1 .. clock
    BY <1>1 DEF Apart, ProcessesDiffer
  <2> QED BY <1>1, <1>2, <2>1
<1>8. e \in ListedEntry
  BY <1>2, <1>6, <1>7 DEF ListedEntry, HostProc
<1>9. RegistryTyped'
  <2>1. pc' \in [Instances -> Steps] /\ port' \in [Instances -> Nat]
    BY <1>2, <1>4, <1>6 DEF Steps
  <2>2. mine' \in [Instances -> ListedEntry \cup {NoEntry}] /\ counter' \in [Hosts -> Nat]
    BY <1>2, <1>3, <1>4, <1>7, <1>8
  <2> QED BY <1>1, <2>1, <2>2 DEF Apart, RegistryTyped, Listed
<1> HIDE DEF n
<1>10. OneUpdates' /\ UpdateFaithful'
  <2>1. \A j \in Instances \ {i} : pc'[j] \in {"off", "on"}
    BY <1>1, <1>5 DEF Inside
  <2> QED BY <1>5, <2>1 DEF OneUpdates, Inside, UpdateFaithful
<1>11. ProcessesDiffer'
  BY <1>1 DEF Apart, ProcessesDiffer, Runs
<1>12. EntriesOwn'
  <2> SUFFICES ASSUME NEW j \in Instances
               PROVE  IF pc'[j] = "off" THEN port'[j] = 0 ELSE OwnEntry(j)'
    BY DEF EntriesOwn
  <2>1. CASE j = i
    <3>1. mine'[i] \in ListedEntry /\ mine'[i].pid = proc'[h].pid /\ mine'[i].start = proc'[h].start
      BY <1>1, <1>5, <1>8 DEF HostProc
    <3>2. /\ mine'[i].boot = boot' /\ mine'[i].id <= counter'[h] /\ port'[i] = mine'[i].port
      BY <1>1, <1>3, <1>5, <1>7
    <3> QED BY <1>1, <1>5, <1>6, <2>1, <3>1, <3>2 DEF OwnEntry, HostProc, Runs
  <2>2. CASE j # i
    <3>1. IF pc[j] = "off" THEN port[j] = 0 ELSE OwnEntry(j)
      BY DEF Apart, EntriesOwn
    <3>2. CASE pc[j] # "off"
      <4>1. mine[j].id <= counter[HostOf[j]] /\ mine[j].id \in Nat /\ HostOf[j] \in Hosts
        BY <3>1, <3>2 DEF OwnEntry, ListedEntry, Hosts
      <4>2. counter'[HostOf[j]] \in Nat /\ counter[HostOf[j]] <= counter'[HostOf[j]]
        <5>1. CASE HostOf[j] = h
          BY <1>2, <1>3, <4>1, <5>1 DEF n
        <5>2. CASE HostOf[j] # h
          BY <1>2, <1>3, <4>1, <5>2
        <5> QED BY <5>1, <5>2
      <4>3. mine'[j].id <= counter'[HostOf[j]]
        BY <1>2, <1>5, <2>2, <4>1, <4>2
      <4> QED BY <1>1, <1>5, <2>2, <3>1, <3>2, <4>3 DEF OwnEntry, HostProc, Runs
    <3> QED BY <1>5, <2>2, <3>1, <3>2
  <2> QED BY <2>1, <2>2
<1>13. EntriesDiffer'
  <2>1. \A j \in Instances \ {i} : pc[j] # "off" /\ HostOf[j] = h => mine[j].id # n
    <3> SUFFICES ASSUME NEW j \in Instances \ {i}, pc[j] # "off", HostOf[j] = h
                 PROVE  mine[j].id # n
      OBVIOUS
    <3>1. mine[j].id <= counter[h] /\ mine[j].id \in Nat
      BY DEF Apart, EntriesOwn, OwnEntry, ListedEntry
    <3> QED BY <1>1, <1>2, <3>1 DEF n
  <2>2. mine'[i].id = n
    BY <1>5
  <2> HIDE DEF e
  <2>3. \A j \in Instances \ {i} : port'[i] # port'[j] /\
           (pc'[j] # "off" /\ HostOf[j] = HostOf[i] => mine'[i].id # mine'[j].id)
    BY <1>5, <1>6, <2>1, <2>2
  <2>4. \A j, k \in Instances \ {i} : j # k =>
           /\ port'[j] = port'[k] => port'[j] = 0
           /\ pc'[j] # "off" /\ pc'[k] # "off" /\ HostOf[j] = HostOf[k] =>
                 mine'[j].id # mine'[k].id
    BY <1>5 DEF Apart, EntriesDiffer
  <2> QED BY <2>3, <2>4 DEF EntriesDiffer
<1>14. Faithful(Listed, Known)'
  <2>1. PICK S, J, K : S = Listed /\ J = Known /\ K = Known'
    OBVIOUS
  <2>2. S \in SUBSET ListedEntry /\ Faithful(S, J) /\ S = Listed'
    BY <1>1, <2>1 DEF Apart, RegistryTyped, Listed
  <2>3. \A j \in Instances : pc'[j] = "on" => mine'[j] \in S \cup unsaved'
    <3> SUFFICES ASSUME NEW j \in Instances, pc'[j] = "on" PROVE mine'[j] \in S \cup unsaved'
      OBVIOUS
    <3>1. j # i
      BY <1>5
    <3> QED BY <1>1, <1>5, <2>2, <3>1 DEF Faithful
  <2>4. \A s \in S, j \in J : s = mine[j] /\ Alive(s)' =>
           s \in unsaved' \/ (j \in K /\ mine'[j] = mine[j])
    <3> SUFFICES ASSUME NEW j \in J PROVE j \in K /\ mine'[j] = mine[j]
      OBVIOUS
    <3>1. j \in Instances /\ pc[j] # "off"
      BY <2>1 DEF Known
    <3>2. j # i /\ pc'[j] # "off" /\ mine'[j] = mine[j]
      BY <1>1, <1>5, <3>1
    <3> QED BY <2>1, <3>1, <3>2 DEF Known
  <2>5. \A s \in S : s.boot = boot /\ s.start <= clock /\ Alive(s)' => Alive(s)
    BY <1>1 DEF Alive
  <2>6. Faithful(S, K)'
    BY <1>1, <1>2, <2>2, <2>3, <2>4, <2>5, StillFaithful
  <2> QED BY <2>1, <2>2, <2>6
<1> QED BY <1>9, <1>10, <1>11, <1>12, <1>13, <1>14 DEF Apart

LEMMA StopKeeps ==
    ASSUME Apart, NEW i \in Instances, Stop(i), ~raced'
    PROVE  Apart'
<1>1. /\ pc[i] = "on" /\ \A j \in Instances : ~Inside(j)
      /\ port' = [port EXCEPT ![i] = 0] /\ pc' = [pc EXCEPT ![i] = "read"]
      /\ UNCHANGED <<boot, clock, proc, counter, doc, mine, listing, unsaved>>
  BY DEF Stop, Begin, registry, machine
<1>2. /\ boot \in Nat /\ clock \in Nat
      /\ pc \in [Instances -> Steps] /\ port \in [Instances -> Nat]
  BY DEF Apart, RegistryTyped
<1>3. /\ \A j \in Instances \ {i} : pc'[j] = pc[j] /\ port'[j] = port[j]
      /\ pc'[i] = "read" /\ port'[i] = 0
  BY <1>1, <1>2
<1>4. RegistryTyped'
  <2>1. pc' \in [Instances -> Steps] /\ port' \in [Instances -> Nat]
    BY <1>1, <1>2 DEF Steps
  <2> QED BY <1>1, <2>1 DEF Apart, RegistryTyped, Listed
<1>5. OneUpdates' /\ UpdateFaithful'
  <2>1. \A j \in Instances \ {i} : pc'[j] \in {"off", "on"}
    BY <1>1, <1>3 DEF Inside
  <2> QED BY <1>3, <2>1 DEF OneUpdates, Inside, UpdateFaithful
<1>6. ProcessesDiffer'
  BY <1>1 DEF Apart, ProcessesDiffer, Runs
<1>7. EntriesOwn'
  <2> SUFFICES ASSUME NEW j \in Instances
               PROVE  IF pc'[j] = "off" THEN port'[j] = 0 ELSE OwnEntry(j)'
    BY DEF EntriesOwn
  <2>1. IF pc[j] = "off" THEN port[j] = 0 ELSE OwnEntry(j)
    BY DEF Apart, EntriesOwn
  <2>2. CASE j = i
    BY <1>1, <1>3, <2>1, <2>2 DEF OwnEntry, HostProc, Runs
  <2>3. CASE j # i
    BY <1>1, <1>3, <2>1, <2>3 DEF OwnEntry, HostProc, Runs
  <2> QED BY <2>2, <2>3
<1>8. EntriesDiffer'
  <2>1. /\ \A j \in Instances : port'[j] = port[j] \/ port'[j] = 0
        /\ \A j \in Instances : pc'[j] # "off" => pc[j] # "off"
    BY <1>1, <1>3
  <2> QED BY <1>1, <2>1 DEF Apart, EntriesDiffer
<1>9. Faithful(Listed, Known)'
  <2>1. PICK S, J, K : S = Listed /\ J = Known /\ K = Known'
    OBVIOUS
  <2>2. S \in SUBSET ListedEntry /\ Faithful(S, J) /\ S = Listed'
    BY <1>1, <2>1 DEF Apart, RegistryTyped, Listed
  <2>3. \A j \in Instances : pc'[j] = "on" => mine'[j] \in S \cup unsaved'
    BY <1>1, <1>3, <2>2 DEF Faithful
  <2>4. J = K
    <3>1. \A j \in Instances : pc'[j] # "off" <=> pc[j] # "off"
      BY <1>1, <1>3
    <3> QED BY <2>1, <3>1 DEF Known
  <2>5. \A s \in S : s.boot = boot /\ s.start <= clock /\ Alive(s)' => Alive(s)
    BY <1>1 DEF Alive
  <2>6. Faithful(S, K)'
    BY <1>1, <1>2, <2>2, <2>3, <2>4, <2>5, StillFaithful
  <2> QED BY <2>1, <2>2, <2>6
<1> QED BY <1>4, <1>5, <1>6, <1>7, <1>8, <1>9 DEF Apart

\* Opening and locking the file changes no list.
LEMMA OpenLockKeeps ==
    ASSUME Apart, NEW i \in Instances, OpenFile(i) \/ Lock(i)
    PROVE  Apart'
<1>1. PICK s \in Writing : pc[i] \in Writing /\ pc' = [pc EXCEPT ![i] = s]
  BY DEF OpenFile, Lock, Writing
<1>2. UNCHANGED <<boot, clock, proc, counter, doc, port, mine, listing, unsaved>>
  BY DEF OpenFile, Lock, machine, registry, traces
<1>3. pc \in [Instances -> Steps] /\ boot \in Nat /\ clock \in Nat
  BY DEF Apart, RegistryTyped
<1>4. /\ \A j \in Instances \ {i} : pc'[j] = pc[j]
      /\ pc'[i] = s /\ s \notin {"off", "on"} /\ pc[i] \notin {"off", "on"}
  BY <1>1, <1>3 DEF Writing
<1>5. RegistryTyped'
  <2>1. pc' \in [Instances -> Steps]
    BY <1>1, <1>3 DEF Writing, Steps
  <2> QED BY <1>2, <2>1 DEF Apart, RegistryTyped, Listed
<1>6. \A j \in Instances : /\ pc'[j] = "off" <=> pc[j] = "off"
                           /\ pc'[j] = "on" <=> pc[j] = "on"
  BY <1>4
<1>7. OneUpdates' /\ EntriesDiffer' /\ ProcessesDiffer'
  BY <1>2, <1>6 DEF Apart, OneUpdates, Inside, EntriesDiffer, ProcessesDiffer, Runs
<1>8. EntriesOwn'
  BY <1>2, <1>6 DEF Apart, EntriesOwn, OwnEntry, HostProc, Runs
<1>9. Faithful(Listed, Known)' /\ UpdateFaithful'
  <2>1. clock' \in Nat /\ clock <= clock' /\ Listed' = Listed
    BY <1>2, <1>3 DEF Listed
  <2>2. \A e \in ListedEntry : e.boot = boot /\ e.start <= clock /\ Alive(e)' => Alive(e)
    BY <1>2 DEF Alive
  <2>3. \A j \in Instances : pc'[j] = pc[j] \/ {pc[j], pc'[j]} \subseteq Writing
    BY <1>1, <1>4
  <2> QED BY <1>2, <1>6, <2>1, <2>2, <2>3, ListsKept
<1> QED BY <1>5, <1>7, <1>8, <1>9 DEF Apart

\* An update ends: the file lists S, with the instance's own entry in it or
\* not, or the failure is known.
LEMMA LeaveKeeps ==
    ASSUME Apart, NEW i \in Instances, NEW ok, Inside(i), Leave(i, ok),
           UNCHANGED <<machine, port>>,
           NEW S \in SUBSET ListedEntry, S = Listed', Faithful(S, Known),
           Registering(i) => mine[i] \in S \cup unsaved',
           ~Registering(i) => mine[i] \notin S \ unsaved'
    PROVE  Apart'
<1> DEFINE s == IF Registering(i) THEN "on" ELSE "off"
           m == IF Registering(i) THEN mine[i] ELSE NoEntry
<1>1. /\ pc' = [pc EXCEPT ![i] = s] /\ mine' = [mine EXCEPT ![i] = m]
      /\ listing' = [listing EXCEPT ![i] = {}]
      /\ unsaved \subseteq unsaved'
      /\ UNCHANGED <<boot, clock, proc, counter, port>>
  BY DEF Leave, machine
<1>2. /\ boot \in Nat /\ clock \in Nat /\ pc \in [Instances -> Steps]
      /\ mine \in [Instances -> ListedEntry \cup {NoEntry}] /\ port \in [Instances -> Nat]
      /\ listing \in [Instances -> SUBSET ListedEntry]
  BY DEF Apart, RegistryTyped
<1>3. /\ \A j \in Instances \ {i} : pc'[j] = pc[j] /\ mine'[j] = mine[j]
      /\ pc'[i] = s /\ mine'[i] = m
  BY <1>1, <1>2
<1>4. \A j \in Instances \ {i} : pc[j] \in {"off", "on"}
  BY DEF Apart, OneUpdates, Inside
<1>5. RegistryTyped'
  <2>1. pc' \in [Instances -> Steps] /\ mine' \in [Instances -> ListedEntry \cup {NoEntry}]
    BY <1>1, <1>2 DEF Steps
  <2>2. listing' \in [Instances -> SUBSET ListedEntry]
    BY <1>1, <1>2
  <2> QED BY <1>1, <2>1, <2>2 DEF Apart, RegistryTyped
<1>6. OneUpdates' /\ UpdateFaithful'
  <2>1. \A j \in Instances : pc'[j] \in {"off", "on"}
    BY <1>3, <1>4
  <2> QED BY <2>1 DEF OneUpdates, Inside, UpdateFaithful
<1>7. ProcessesDiffer'
  BY <1>1 DEF Apart, ProcessesDiffer, Runs
<1>8. pc[i] # "off"
  BY DEF Inside
<1>9. EntriesOwn'
  <2> SUFFICES ASSUME NEW j \in Instances
               PROVE  IF pc'[j] = "off" THEN port'[j] = 0 ELSE OwnEntry(j)'
    BY DEF EntriesOwn
  <2>1. IF pc[j] = "off" THEN port[j] = 0 ELSE OwnEntry(j)
    BY DEF Apart, EntriesOwn
  <2>2. CASE j # i
    BY <1>1, <1>3, <2>1, <2>2 DEF OwnEntry, HostProc, Runs
  <2>3. CASE j = i /\ Registering(i)
    BY <1>1, <1>3, <1>8, <2>1, <2>3 DEF OwnEntry, HostProc, Runs, Registering
  <2>4. CASE j = i /\ ~Registering(i)
    BY <1>1, <1>3, <2>4 DEF Registering
  <2> QED BY <2>2, <2>3, <2>4
<1>10. EntriesDiffer'
  <2>1. \A j \in Instances : pc'[j] # "off" => pc[j] # "off" /\ mine'[j] = mine[j]
    BY <1>3, <1>8
  <2> QED BY <1>1, <2>1 DEF Apart, EntriesDiffer
<1>11. Faithful(Listed, Known)'
  <2>1. PICK J, K : J = Known /\ K = Known'
    OBVIOUS
  <2>2. Faithful(S, J)
    BY <2>1
  <2>3. \A j \in Instances : pc'[j] = "on" => mine'[j] \in S \cup unsaved'
    BY <1>1, <1>3, <2>2 DEF Faithful
  <2>4. \A e \in S, j \in J : e = mine[j] /\ Alive(e)' =>
           e \in unsaved' \/ (j \in K /\ mine'[j] = mine[j])
    <3> SUFFICES ASSUME NEW e \in S, NEW j \in J, e = mine[j], e \notin unsaved'
                 PROVE  j \in K /\ mine'[j] = mine[j]
      OBVIOUS
    <3>1. j \in Instances /\ pc[j] # "off"
      BY <2>1 DEF Known
    <3>2. j = i => Registering(i)
      OBVIOUS
    <3>3. pc'[j] # "off" /\ mine'[j] = mine[j]
      BY <1>3, <3>1, <3>2
    <3> QED BY <2>1, <3>1, <3>3 DEF Known
  <2>5. \A e \in S : e.boot = boot /\ e.start <= clock /\ Alive(e)' => Alive(e)
    BY <1>1 DEF Alive
  <2>6. Faithful(S, K)'
    BY <1>1, <1>2, <2>2, <2>3, <2>4, <2>5, StillFaithful
  <2> QED BY <2>1, <2>6
<1> QED BY <1>5, <1>6, <1>7, <1>9, <1>10, <1>11 DEF Apart

\* A failed update leaves the file and is known.
LEMMA FailureKeeps ==
    ASSUME Apart, NEW i \in Instances, Inside(i), Leave(i, FALSE),
           UNCHANGED <<machine, registry, port>>
    PROVE  Apart'
<1>1. PICK S : S = Listed
  OBVIOUS
<1>2. S \in SUBSET ListedEntry /\ S = Listed' /\ Faithful(S, Known) /\ mine[i] \in unsaved'
  BY <1>1 DEF Apart, RegistryTyped, Listed, registry, Leave
<1>3. UNCHANGED <<machine, port>>
  OBVIOUS
<1>4. /\ Registering(i) => mine[i] \in S \cup unsaved'
      /\ ~Registering(i) => mine[i] \notin S \ unsaved'
  BY <1>2
<1> QED BY <1>2, <1>3, <1>4, LeaveKeeps

\* What a sweep keeps is listed for the instances that are known.
LEMMA SweepIs ==
    ASSUME Apart, NEW D, D \subseteq Listed
    PROVE  /\ Sweep(D) \in SUBSET ListedEntry
           /\ \A e \in Sweep(D) :
                 /\ e \in Listed /\ e.boot = boot /\ e.start <= clock
                 /\ e \notin unsaved => \E j \in Known : e = mine[j]
           /\ \A j \in Known : mine[j] \in D => mine[j] \in Sweep(D)
<1>1. Sweep(D) \subseteq D /\ \A e \in Sweep(D) : Alive(e) /\ e.boot = boot
  BY DEF Sweep
<1>2. Listed \in SUBSET ListedEntry
  BY DEF Apart, RegistryTyped
<1>3. \A e \in Sweep(D) : /\ e.start <= clock
                          /\ e \notin unsaved => \E j \in Known : e = mine[j]
  BY <1>1 DEF Apart, Faithful
<1>4. ASSUME NEW j \in Known, mine[j] \in D PROVE mine[j] \in Sweep(D)
  <2>1. Alive(mine[j]) /\ mine[j].boot = boot
    BY OwnAlive DEF Apart, Known
  <2> QED BY <1>4, <2>1 DEF Sweep
<1> QED BY <1>1, <1>2, <1>3, <1>4

\* What an update of i is going to write, if it goes on.
ToWrite(i) ==
    IF Registering(i)
    THEN Sweep(Listed) \cup {mine[i]}
    ELSE Sweep({e \in Listed : e.id # mine[i].id \/ e.pid # mine[i].pid})

LEMMA ToWriteFaithful ==
    ASSUME Apart, NEW i \in Instances, Inside(i)
    PROVE  /\ ToWrite(i) \in SUBSET ListedEntry /\ Faithful(ToWrite(i), StaysOn(i))
           /\ Registering(i) => mine[i] \in ToWrite(i)
           /\ ToWrite(i) \subseteq {mine[j] : j \in StaysOn(i)} \cup unsaved
<1> DEFINE D == {e \in Listed : e.id # mine[i].id \/ e.pid # mine[i].pid}
<1>1. \A j \in Known : j # i => pc[j] = "on"
  BY DEF Apart, OneUpdates, Inside, Known
<1>2. i \in Known /\ mine[i] \in ListedEntry /\ OwnEntry(i)
  BY DEF Inside, Known, Apart, EntriesOwn, OwnEntry
<1>3. mine[i].boot = boot /\ mine[i].start <= clock
  BY <1>2, OwnAlive DEF Apart, Known
<1>4. boot \in Nat /\ clock \in Nat
  BY DEF Apart, RegistryTyped
<1>5. \A e \in ToWrite(i) :
         /\ e \in ListedEntry /\ e.boot = boot /\ e.start <= clock
         /\ e \notin unsaved => \E j \in StaysOn(i) : e = mine[j]
  <2>1. CASE Registering(i)
    <3>1. \A j \in Known : j \in StaysOn(i)
      BY <1>1, <2>1 DEF StaysOn, Known
    <3> QED BY <1>2, <1>3, <2>1, <3>1, SweepIs DEF ToWrite, Known
  <2>2. CASE ~Registering(i)
    <3> SUFFICES ASSUME NEW e \in Sweep(D)
                 PROVE  /\ e \in ListedEntry /\ e.boot = boot /\ e.start <= clock
                        /\ e \notin unsaved => \E j \in StaysOn(i) : e = mine[j]
      BY <2>2 DEF ToWrite
    <3>1. D \subseteq Listed
      OBVIOUS
    <3>2. /\ e \in ListedEntry /\ e.boot = boot /\ e.start <= clock
          /\ e \notin unsaved => \E j \in Known : e = mine[j]
      BY <3>1, SweepIs
    <3>3. e \in D
      BY DEF Sweep
    <3>4. e # mine[i]
      BY <3>3
    <3> QED BY <1>1, <3>2, <3>4 DEF StaysOn, Known
  <2> QED BY <2>1, <2>2
<1>6. Registering(i) => mine[i] \in ToWrite(i)
  BY DEF ToWrite
<1>7. \A d, e \in ToWrite(i) \ unsaved : d.port = e.port => d = e
  <2> SUFFICES ASSUME NEW d \in ToWrite(i), NEW e \in ToWrite(i), d \notin unsaved, e \notin unsaved,
                      d.port = e.port
               PROVE  d = e
    OBVIOUS
  <2>1. PICK j \in StaysOn(i), k \in StaysOn(i) : d = mine[j] /\ e = mine[k]
    BY <1>5
  <2>2. j \in Instances /\ k \in Instances /\ port[j] # 0 /\ port[k] # 0
    <3>1. \A x \in StaysOn(i) : x \in Instances /\ pc[x] # "off" /\ port[x] # 0
      BY DEF StaysOn, Registering, Inside, Apart, EntriesOwn, OwnEntry
    <3> QED BY <2>1, <3>1
  <2>3. pc[j] # "off" /\ pc[k] # "off"
    BY <2>2 DEF Apart, EntriesOwn
  <2>4. port[j] = mine[j].port /\ port[k] = mine[k].port
    BY <2>2, <2>3 DEF Apart, EntriesOwn, OwnEntry
  <2>5. j = k
    BY <2>1, <2>2, <2>4 DEF Apart, EntriesDiffer
  <2> QED BY <2>1, <2>5
<1>8. \A j \in Instances : pc[j] = "on" => mine[j] \in ToWrite(i) \cup unsaved
  <2> SUFFICES ASSUME NEW j \in Instances, pc[j] = "on", mine[j] \notin unsaved
               PROVE  mine[j] \in ToWrite(i)
    OBVIOUS
  <2>1. j \in Known /\ mine[j] \in Listed /\ j # i
    BY DEF Known, Apart, Faithful, Inside
  <2>2. CASE Registering(i)
    BY <2>1, <2>2, SweepIs DEF ToWrite
  <2>3. CASE ~Registering(i)
    <3>1. mine[j].id # mine[i].id \/ mine[j].pid # mine[i].pid
      BY <1>2, <2>1, OneOwner DEF Apart, Known
    <3>2. mine[j] \in D /\ D \subseteq Listed
      BY <2>1, <3>1
    <3> HIDE DEF D
    <3>3. mine[j] \in Sweep(D)
      BY <2>1, <3>2, SweepIs
    <3> QED BY <2>3, <3>3 DEF ToWrite, D
  <2> QED BY <2>2, <2>3
<1>9. Faithful(ToWrite(i), StaysOn(i))
  <2>1. \A e \in ToWrite(i) : e.boot <= boot /\ (e.boot = boot => e.start <= clock)
    BY <1>4, <1>5
  <2> QED BY <1>5, <1>7, <1>8, <2>1 DEF Faithful
<1> QED BY <1>5, <1>6, <1>9

\* Reading with success changes nothing but the list to be written.
LEMMA ReadKeeps ==
    ASSUME Apart, NEW i \in Instances, pc[i] = "read",
           listing' = [listing EXCEPT ![i] = ToWrite(i)], pc' = [pc EXCEPT ![i] = "open"],
           UNCHANGED <<machine, registry, port, mine, traces>>
    PROVE  Apart'
<1>1. UNCHANGED <<boot, clock, proc, counter, doc, port, mine, unsaved>>
  BY DEF machine, registry, traces
<1>2. /\ boot \in Nat /\ clock \in Nat /\ pc \in [Instances -> Steps]
      /\ listing \in [Instances -> SUBSET ListedEntry]
  BY DEF Apart, RegistryTyped
<1>3. /\ Inside(i) /\ pc'[i] = "open" /\ listing'[i] = ToWrite(i)
      /\ \A j \in Instances \ {i} : pc'[j] = pc[j] /\ listing'[j] = listing[j]
  BY <1>2 DEF Inside
<1>4. RegistryTyped'
  <2>1. pc' \in [Instances -> Steps]
    BY <1>2 DEF Steps
  <2>2. listing' \in [Instances -> SUBSET ListedEntry]
    BY <1>2, <1>3, ToWriteFaithful
  <2> QED BY <1>1, <2>1, <2>2 DEF Apart, RegistryTyped, Listed
<1>5. \A j \in Instances : (pc'[j] = "off" <=> pc[j] = "off") /\ (pc'[j] = "on" <=> pc[j] = "on")
  BY <1>3
<1>6. OneUpdates' /\ EntriesDiffer' /\ ProcessesDiffer' /\ EntriesOwn'
  <2>1. OneUpdates' /\ EntriesDiffer' /\ ProcessesDiffer'
    BY <1>1, <1>5 DEF Apart, OneUpdates, Inside, EntriesDiffer, ProcessesDiffer, Runs
  <2>2. EntriesOwn'
    BY <1>1, <1>5 DEF Apart, EntriesOwn, OwnEntry, HostProc, Runs
  <2> QED BY <2>1, <2>2
<1>7. ASSUME NEW S \in SUBSET ListedEntry, NEW J, Faithful(S, J)
      PROVE  Faithful(S, J)'
  BY <1>1, <1>5, <1>7 DEF Faithful, Alive
<1>8. Faithful(Listed, Known)'
  <2>1. PICK S, J : S = Listed /\ J = Known
    OBVIOUS
  <2>2. S \in SUBSET ListedEntry /\ Faithful(S, J)
    BY <2>1 DEF Apart, RegistryTyped
  <2>3. S = Listed' /\ J = Known'
    BY <1>1, <1>5, <2>1 DEF Listed, Known
  <2> QED BY <1>7, <2>2, <2>3
<1>9. UpdateFaithful'
  <2>1. \A j \in Instances : pc'[j] \in {"open", "lock", "write"} => j = i
    BY <1>3 DEF Apart, OneUpdates, Inside
  <2>2. PICK S, J : S = ToWrite(i) /\ J = StaysOn(i)
    OBVIOUS
  <2>3. S \in SUBSET ListedEntry /\ Faithful(S, J) /\ (Registering(i) => mine[i] \in S)
    BY <1>3, <2>2, ToWriteFaithful
  <2>4. S = listing'[i] /\ J = StaysOn(i)'
    BY <1>1, <1>3, <1>5, <2>2 DEF StaysOn, Registering
  <2>5. Faithful(S, J)'
    BY <1>7, <2>3
  <2> QED BY <1>1, <2>1, <2>3, <2>4, <2>5 DEF UpdateFaithful, Registering
<1> QED BY <1>4, <1>6, <1>8, <1>9 DEF Apart

\* What a read does: it gives up or goes on with its list.
LEMMA ReadIs ==
    ASSUME NEW i \in Instances, ReadToRegister(i) \/ ReadToUnregister(i)
    PROVE  /\ pc[i] = "read" /\ UNCHANGED <<machine, registry, port>>
           /\ \/ Leave(i, FALSE)
              \/ Leave(i, TRUE) /\ ~Registering(i) /\ Listed = {}
              \/ /\ listing' = [listing EXCEPT ![i] = ToWrite(i)]
                 /\ pc' = [pc EXCEPT ![i] = "open"]
                 /\ UNCHANGED <<mine, traces>>
<1>1. CASE ReadToRegister(i)
  <2>1. CASE doc = Newer
    BY <1>1, <2>1 DEF ReadToRegister
  <2>2. CASE doc # Newer
    BY <1>1, <2>2 DEF ReadToRegister, ToWrite
  <2> QED BY <2>1, <2>2
<1>2. CASE ReadToUnregister(i)
  <2>1. CASE doc = Absent
    BY <1>2, <2>1 DEF ReadToUnregister, Listed, Absent
  <2>2. CASE doc \in {Corrupt, Newer} /\ doc # Absent
    <3>1. Leave(i, doc = Absent)
      BY <1>2, <2>2 DEF ReadToUnregister
    <3>2. Leave(i, FALSE)
      BY <2>2, <3>1 DEF Leave
    <3> QED BY <1>2, <3>2 DEF ReadToUnregister
  <2>3. CASE doc \notin {Absent, Corrupt, Newer}
    BY <1>2, <2>3 DEF ReadToUnregister, ToWrite
  <2> QED BY <2>1, <2>2, <2>3
<1> QED BY <1>1, <1>2

LEMMA ReadsKeep ==
    ASSUME Apart, NEW i \in Instances, ReadToRegister(i) \/ ReadToUnregister(i)
    PROVE  Apart'
<1>1. pc[i] = "read" /\ Inside(i) /\ UNCHANGED <<machine, registry, port>>
  BY ReadIs DEF Inside
<1>2. CASE Leave(i, FALSE)
  BY <1>1, <1>2, FailureKeeps
<1>3. CASE Leave(i, TRUE) /\ ~Registering(i) /\ Listed = {}
  <2>1. PICK S : S = Listed
    OBVIOUS
  <2>2. S \in SUBSET ListedEntry /\ S = Listed' /\ Faithful(S, Known) /\ mine[i] \notin S
    BY <1>1, <1>3, <2>1 DEF Apart, RegistryTyped, Listed, registry
  <2>3. UNCHANGED <<machine, port>>
    BY <1>1
  <2> QED BY <1>1, <1>3, <2>2, <2>3, LeaveKeeps
<1>4. CASE /\ listing' = [listing EXCEPT ![i] = ToWrite(i)] /\ pc' = [pc EXCEPT ![i] = "open"]
           /\ UNCHANGED <<mine, traces>>
  BY <1>1, <1>4, ReadKeeps
<1> QED BY <1>2, <1>3, <1>4, ReadIs

LEMMA ReplaceKeeps ==
    ASSUME Apart, NEW i \in Instances, Replace(i)
    PROVE  Apart'
<1>1. PICK S : S = listing[i]
  OBVIOUS
<1>2. /\ pc[i] = "write" /\ Inside(i) /\ Leave(i, TRUE) /\ UNCHANGED <<machine, port>>
      /\ S = Listed' /\ unsaved' = unsaved
  BY <1>1 DEF Replace, Inside, Listed, Json, Leave
<1>3. /\ S \in SUBSET ListedEntry /\ Faithful(S, StaysOn(i))
      /\ Registering(i) => mine[i] \in S
  BY <1>1, <1>2 DEF Apart, RegistryTyped, UpdateFaithful
<1>4. StaysOn(i) \subseteq Known
  BY <1>2 DEF StaysOn, Known, Inside
<1>5. Faithful(S, Known)
  BY <1>3, <1>4 DEF Faithful
<1>6. ASSUME ~Registering(i), mine[i] \in S, mine[i] \notin unsaved PROVE FALSE
  <2>1. Alive(mine[i]) /\ mine[i].boot = boot
    BY <1>2, OwnAlive DEF Apart, Inside
  <2>2. PICK j \in StaysOn(i) : mine[i] = mine[j]
    BY <1>3, <1>6, <2>1 DEF Faithful
  <2>3. j \in Instances /\ pc[j] = "on" /\ pc[i] # "off"
    BY <1>2, <1>6 DEF StaysOn
  <2>4. i = j
    BY <2>2, <2>3, OneOwner DEF Apart
  <2> QED BY <1>2, <2>3, <2>4
<1>7. /\ Registering(i) => mine[i] \in S \cup unsaved'
      /\ ~Registering(i) => mine[i] \notin S \ unsaved'
  BY <1>2, <1>3, <1>6
<1> QED BY <1>2, <1>3, <1>5, <1>7, LeaveKeeps

LEMMA UpdateKeeps ==
    ASSUME Apart, NEW i \in Instances, Update(i)
    PROVE  Apart'
<1>1. CASE LockTimesOut(i) \/ ReplaceFails(i)
  BY <1>1, FailureKeeps DEF LockTimesOut, ReplaceFails, Inside
<1> QED BY <1>1, ReadsKeep, OpenLockKeeps, ReplaceKeeps DEF Update

\* Once two updates have overlapped, they have for ever.
LEMMA RacedStays ==
    ASSUME NEW i \in Instances, Update(i)
    PROVE  raced' = raced
<1>1. CASE ReadToRegister(i) \/ ReadToUnregister(i)
  BY <1>1, ReadIs DEF Leave, traces
<1>2. CASE OpenFile(i) \/ Lock(i) \/ LockTimesOut(i) \/ Replace(i) \/ ReplaceFails(i)
  BY <1>2 DEF OpenFile, Lock, LockTimesOut, Replace, ReplaceFails, Leave, traces
<1> QED BY <1>1, <1>2 DEF Update

LEMMA RegistryStepInv == RegistryInv /\ [RegistryNext]_registryVars => RegistryInv'
<1> SUFFICES ASSUME RegistryInv, [RegistryNext]_registryVars, ~raced' PROVE Apart'
  BY DEF RegistryInv
<1>1. CASE \E h \in Hosts : Launch(h) \/ Kill(h)
  <2>1. PICK h \in Hosts : Launch(h) \/ Kill(h)
    BY <1>1
  <2>2. Apart
    BY <2>1 DEF Launch, Kill, RegistryInv
  <2> QED BY <2>1, <2>2, LaunchKeeps, KillKeeps
<1>2. CASE Reboot
  <2>1. Apart
    BY <1>2 DEF Reboot, RegistryInv
  <2> QED BY <1>2, <2>1, RebootKeeps
<1>3. CASE \E i \in Instances : Start(i) \/ Stop(i)
  <2>1. PICK i \in Instances : Start(i) \/ Stop(i)
    BY <1>3
  <2>2. Apart
    BY <2>1 DEF Start, Stop, Begin, RegistryInv
  <2> QED BY <2>1, <2>2, StartKeeps, StopKeeps
<1>4. CASE \E i \in Instances : Update(i)
  <2>1. PICK i \in Instances : Update(i)
    BY <1>4
  <2>2. Apart
    BY <2>1, RacedStays DEF RegistryInv
  <2> QED BY <2>1, <2>2, UpdateKeeps
<1>5. CASE UNCHANGED registryVars
  <2>1. Apart /\ UNCHANGED <<boot, clock, proc, counter, doc, pc, port, mine, listing, unsaved>>
    BY <1>5 DEF registryVars, machine, registry, local, traces, RegistryInv
  <2>2. RegistryTyped' /\ OneUpdates' /\ ProcessesDiffer' /\ EntriesDiffer'
    BY <2>1 DEF Apart, RegistryTyped, Listed, OneUpdates, Inside, ProcessesDiffer, Runs, EntriesDiffer
  <2>3. EntriesOwn'
    BY <2>1 DEF Apart, EntriesOwn, OwnEntry, HostProc, Runs
  <2>4. Faithful(Listed, Known)' /\ UpdateFaithful'
    <3>1. clock' \in Nat /\ clock <= clock'
      BY <2>1 DEF Apart, RegistryTyped
    <3>2. \A e \in ListedEntry : Alive(e)' => Alive(e)
      BY <2>1 DEF Alive
    <3>3. Listed' = Listed
      BY <2>1 DEF Listed
    <3> QED BY <2>1, <3>1, <3>2, <3>3, ListsKept
  <2> QED BY <2>2, <2>3, <2>4 DEF Apart
<1> QED BY <1>1, <1>2, <1>3, <1>4, <1>5 DEF RegistryNext

\* Between updates the list is that of the instances that run.
LEMMA ForwardedIs == RegistryInv => (~raced => RunningForwarded)
<1> SUFFICES ASSUME Apart, \A i \in Instances : ~Inside(i)
             PROVE  /\ {mine[i] : i \in {j \in Instances : pc[j] = "on"}} \subseteq Forwarded \cup unsaved
                    /\ \A d, e \in Forwarded \ unsaved : d.port = e.port => d = e
  BY DEF RegistryInv, RunningForwarded
<1>1. ASSUME NEW i \in Instances, pc[i] = "on", mine[i] \notin unsaved
      PROVE  mine[i] \in Forwarded
  <2>1. mine[i] \in Listed
    BY <1>1 DEF Apart, Faithful
  <2>2. mine[i].boot = boot /\ mine[i].port # 0
    BY <1>1 DEF Apart, EntriesOwn, OwnEntry, ListedEntry
  <2> QED BY <2>1, <2>2 DEF Forwarded
<1>2. \A d, e \in Forwarded \ unsaved : d.port = e.port => d = e
  BY DEF Forwarded, Apart, Faithful
<1> QED BY <1>1, <1>2

\* An update reads the file, and takes over only what is about instances on.
LEMMA ListedIs == RegistryInv => (~raced => OnlyRunningListed)
<1> SUFFICES ASSUME Apart, NEW i \in Instances, ReadToRegister(i) \/ ReadToUnregister(i)
             PROVE  listing'[i] \subseteq {mine[j] : j \in StaysOn(i)} \cup unsaved
  BY DEF RegistryInv, OnlyRunningListed, StaysOn
<1>1. Inside(i) /\ listing \in [Instances -> SUBSET ListedEntry]
  BY ReadIs DEF Inside, Apart, RegistryTyped
<1>2. CASE Leave(i, FALSE) \/ Leave(i, TRUE)
  BY <1>1, <1>2 DEF Leave
<1>3. CASE listing' = [listing EXCEPT ![i] = ToWrite(i)]
  BY <1>1, <1>3, ToWriteFaithful
<1> QED BY <1>2, <1>3, ReadIs

\* As long as no two updates overlap, between updates the daemon forwards to
\* every instance that runs, once, and an update takes over no entry of one
\* that stopped, was killed or ran before a reboot, for any number of
\* instances, hosts, ports, boots and launches (PluginInstanceRegistry.cpp:434).
THEOREM RegistryAlwaysTrue == RegistrySpec => RegistryTrue
<1>1. RegistryInit => RegistryInv
  BY RegistryInitApart DEF RegistryInv
<1>2. RegistryInv /\ [RegistryNext]_registryVars => [~raced => OnlyRunningListed]_registryVars
  BY ListedIs
<1> QED BY <1>1, <1>2, RegistryStepInv, ForwardedIs, PTL DEF RegistrySpec, RegistryTrue

-------------------------------------------------------------------------------
(* An instance of the plug-in                                               *)

\* Values in range, and as OSC or a file may bring them.
Halves == 0 .. 2
Values == -1 .. 3
RowFields == {"PanAz", "PanEl", "Width", "Gain", "Order"}
Rows == RowFields \cup {"Active"}
Kinds == {"ObjMove", "ObjXYZ", "ObjGain", "ObjWidth", "ObjDsp", "SysAmbiOrder", "ObjMute",
          "ObjActive", "ObjActiveAdm"}
Commands == {Move(tag, o, az, el) : tag \in Kinds, o \in Objects, az \in Values, el \in Values}
            \cup {Set(tag, o, f, v) : tag \in Kinds, o \in Objects,
                                     f \in {"Width", "Gain", "Order", "Active"}, v \in Values}
Files == [version : {4}, whole : {TRUE}, core : [Params -> Values]]
LoadSteps == {"store", "dispatch"} \X Params \X Values

PluginTyped ==
    /\ norm \in [Params -> Values] /\ ctl \in [Params -> Halves]
    /\ engine \in [Objects -> [Rows -> Values]]
    /\ fifo \in Seq(Commands) /\ fromOsc \in Seq(Commands) /\ Len(fromOsc) <= RingCap
    /\ edits \in Seq(Params \X Halves)
    /\ todo \in [Params -> Halves \cup {None}] /\ batch \in [Params -> Halves \cup {None}]
    /\ audio \in {"idle", "changes", "drain"} \cup Params
    /\ ui \in Seq(LoadSteps)
    /\ file \in {<<>>} \cup Files
    /\ known \subseteq RowFields /\ edited \subseteq Params
    /\ {lost, fresh, linked, wired, connected} \subseteq BOOLEAN

\* What the phases of a block and of a load have in common with the values:
\* a block that is over has used up its changes, and what is about to be
\* dispatched is stored.
Phases ==
    /\ audio \in {"idle", "drain"} => batch = NoChange
    /\ audio \in Params => batch[audio] # None /\ norm[audio] = batch[audio]
    /\ Loading => audio = "idle"
    /\ \A i \in DOMAIN ui : i > 1 => ui[i][1] = "store"
    /\ \A i, j \in DOMAIN ui : ui[i][2] = ui[j][2] => i = j
    /\ \A i \in DOMAIN ui : ui[i][1] = "dispatch" => norm[ui[i][2]] = ui[i][3]

\* A load has the parameter still to store; still to store or dispatch.
ToStore(p) == \E i \in DOMAIN ui : ui[i][1] = "store" /\ ui[i][2] = p
ToLoad(p) == \E i \in DOMAIN ui : ui[i][2] = p
InEdits(p) == \E i \in DOMAIN edits : edits[i][1] = p

\* The value a parameter is about to have is the controller's, which shows a
\* value out of range as the nearest in range.
ControllerInv ==
    /\ \A i \in DOMAIN ui : Clamped(ui[i][3]) = ctl[ui[i][2]]
    /\ \A p \in Params \ edited :
          /\ todo[p] # None => todo[p] = ctl[p]
          /\ todo[p] = None /\ batch[p] # None => batch[p] = ctl[p]
          /\ linked /\ todo[p] = None /\ batch[p] = None /\ ~ToStore(p) => Clamped(norm[p]) = ctl[p]

\* The same of the file that is loaded.
ReloadInv ==
    fresh => /\ file \in Files /\ todo = NoChange /\ batch = NoChange
             /\ \A i \in DOMAIN ui : ui[i][3] = file.core[ui[i][2]]
             /\ \A p \in Params : ~ToStore(p) => norm[p] = file.core[p]

Sets(c, p) == c.obj = 0 /\ p \in DOMAIN c.set

\* A change of p will still be dispatched.
Awaited(p) == InEdits(p) \/ todo[p] # None \/ batch[p] # None \/ ToLoad(p)

\* The last command in the FIFO that sets p of object 0 gives it what the
\* parameter's value sounds as, or there is none and the engine has that.
Settled(p) ==
    \/ \E i \in DOMAIN fifo : /\ Sets(fifo[i], p) /\ fifo[i].set[p] = Sounds(p, norm[p])
                              /\ \A j \in DOMAIN fifo : j > i => ~Sets(fifo[j], p)
    \/ /\ engine[0][p] = Sounds(p, norm[p])
       /\ \A j \in DOMAIN fifo : ~Sets(fifo[j], p)

EngineInv ==
    ~lost =>
       /\ \A i \in DOMAIN fromOsc, p \in RowFields :
             Sets(fromOsc[i], p) =>
                InEdits(p) \/ todo[p] # None \/ EditsOf(fromOsc[i]) = <<>>
       /\ \A p \in known : Awaited(p) \/ Settled(p)

PluginInv == PluginTyped /\ Phases /\ ControllerInv /\ ReloadInv /\ EngineInv

LEMMA FieldsAre ==
    /\ RowFields \subseteq Params /\ DOMAIN AtRest = Rows /\ 0 \in Objects
    /\ None \notin Values /\ \A p \in Params : NoChange[p] = None
    /\ Halves \subseteq Values /\ None \notin Halves
    /\ Default \in [Params -> Halves] /\ AtRest \in [Rows -> Values]
<1>1. {Fields[i] : i \in DOMAIN Fields} = RowFields
  <2>1. DOMAIN Fields = 1 .. 5
    BY DEF Fields
  <2>2. /\ Fields[1] = "PanAz" /\ Fields[2] = "PanEl" /\ Fields[3] = "Width"
        /\ Fields[4] = "Gain" /\ Fields[5] = "Order"
    BY DEF Fields
  <2>3. 1 .. 5 = {1, 2, 3, 4, 5}
    OBVIOUS
  <2> QED BY <2>1, <2>2, <2>3 DEF RowFields
<1>2. RowFields \subseteq Params
  BY DEF RowFields, Params
<1>3. Default \in [Params -> Halves]
  BY DEF Default, Halves
<1>4. AtRest = [f \in Rows |-> IF f \in Params THEN Default[f] ELSE 0]
  BY <1>1 DEF AtRest, Rows
<1>5. AtRest \in [Rows -> Values]
  <2>1. 0 \in Values /\ Halves \subseteq Values
    BY DEF Halves, Values
  <2>2. \A f \in Rows : (IF f \in Params THEN Default[f] ELSE 0) \in Values
    BY <1>3, <2>1
  <2> QED BY <1>4, <2>2
<1>6. /\ None \notin Values /\ None \notin Halves /\ Halves \subseteq Values
      /\ \A p \in Params : NoChange[p] = None
  BY DEF None, Halves, Values, NoChange
<1> QED BY <1>2, <1>3, <1>4, <1>5, <1>6, ObjectAssumption

\* A value in range stays what it is.
LEMMA ClampIs ==
    /\ \A v \in Values : Clamped(v) \in Halves
    /\ \A v \in Halves : Clamped(v) = v
BY DEF Clamped, Values, Halves

LEMMA SoundIs ==
    ASSUME NEW p, NEW v \in Values
    PROVE  /\ Sounds(p, v) \in Values
           /\ p \in {"PanAz", "PanEl", "Width"} => Sounds(p, v) = v
<1>1. Clamped(v) \in Values /\ 0 \in Values
  BY ClampIs DEF Values, Halves
<1> QED BY <1>1 DEF Sounds

\* A state file names each parameter once.
LEMMA CoreIs ==
    /\ \A i \in 1 .. 8 : Core[i] \in Params
    /\ \A i, j \in 1 .. 8 : Core[i] = Core[j] => i = j
    /\ \A p \in Params : \E i \in 1 .. 8 : Core[i] = p
<1> DEFINE rest == <<"Room", "Bypass", "Mute">>
<1>1. Fields \in Seq(Params) /\ rest \in Seq(Params) /\ Len(Fields) = 5 /\ Len(rest) = 3
  <2>1. Fields \in Seq(Params) /\ Len(Fields) = 5
    BY DEF Fields, Params
  <2>2. rest \in Seq(Params) /\ Len(rest) = 3
    BY DEF Params
  <2> QED BY <2>1, <2>2
<1>2. /\ Fields[1] = "PanAz" /\ Fields[2] = "PanEl" /\ Fields[3] = "Width"
      /\ Fields[4] = "Gain" /\ Fields[5] = "Order"
      /\ rest[1] = "Room" /\ rest[2] = "Bypass" /\ rest[3] = "Mute"
  BY DEF Fields
<1> HIDE DEF rest
<1>3. \A i \in 1 .. 8 : Core[i] = IF i <= 5 THEN Fields[i] ELSE rest[i - 5]
  <2>1. \A i \in 1 .. Len(Fields) + Len(rest) :
           (Fields \o rest)[i] = IF i <= Len(Fields) THEN Fields[i] ELSE rest[i - Len(Fields)]
    BY <1>1, ConcatProperties
  <2>2. Core = Fields \o rest
    BY DEF Core, rest
  <2>3. Len(Fields) + Len(rest) = 8
    BY <1>1
  <2>4. \A i \in 1 .. 8 : Core[i] = IF i <= Len(Fields) THEN Fields[i] ELSE rest[i - Len(Fields)]
    BY <2>1, <2>2, <2>3
  <2> QED BY <1>1, <2>4
<1>4. /\ Core[1] = "PanAz" /\ Core[2] = "PanEl" /\ Core[3] = "Width" /\ Core[4] = "Gain"
      /\ Core[5] = "Order" /\ Core[6] = "Room" /\ Core[7] = "Bypass" /\ Core[8] = "Mute"
  BY <1>2, <1>3
<1>5. 1 .. 8 = {1, 2, 3, 4, 5, 6, 7, 8}
  OBVIOUS
<1> QED BY <1>4, <1>5 DEF Params

LEMMA MoveIs ==
    ASSUME NEW tag, NEW o, NEW az, NEW el
    PROVE  LET c == Move(tag, o, az, el)
           IN  /\ c.tag = tag /\ c.obj = o /\ DOMAIN c.set = {"PanAz", "PanEl", "Active"}
               /\ c.set["PanAz"] = az /\ c.set["PanEl"] = el /\ c.set["Active"] = 1
BY DEF Move

LEMMA SetIs ==
    ASSUME NEW tag, NEW o, NEW f, NEW v
    PROVE  LET c == Set(tag, o, f, v)
           IN  c.tag = tag /\ c.obj = o /\ DOMAIN c.set = {f} /\ c.set[f] = v
BY DEF Set

LEMMA CommandType ==
    ASSUME NEW c \in Commands
    PROVE  /\ c.obj \in Objects /\ DOMAIN c.set \subseteq Rows
           /\ \A f \in DOMAIN c.set : c.set[f] \in Values
<1>1. CASE \E tag \in Kinds, o \in Objects, az \in Values, el \in Values : c = Move(tag, o, az, el)
  <2>1. 1 \in Values
    BY DEF Values
  <2> QED BY <1>1, <2>1, MoveIs DEF Rows, RowFields
<1>2. CASE \E tag \in Kinds, o \in Objects, f \in {"Width", "Gain", "Order", "Active"}, v \in Values :
              c = Set(tag, o, f, v)
  BY <1>2, SetIs DEF Rows, RowFields
<1> QED BY <1>1, <1>2 DEF Commands

\* A parameter the engine has becomes one command, which sets it to what the
\* value dispatched sounds as and any other parameter to the value stored.
LEMMA CommandOfIs ==
    ASSUME norm \in [Params -> Values], NEW p \in Params, NEW v \in Values
    PROVE  \/ p \notin RowFields /\ CommandOf(p, v) = <<>>
           \/ /\ p \in RowFields
              /\ \E c \in Commands :
                    /\ CommandOf(p, v) = <<c>> /\ c.obj = 0
                    /\ p \in DOMAIN c.set /\ c.set[p] = Sounds(p, v)
                    /\ DOMAIN c.set \cap Params \subseteq RowFields
                    /\ \A q \in DOMAIN c.set \cap Params : q # p => c.set[q] = Sounds(q, norm[q])
<1>1. /\ 0 \in Objects /\ "PanAz" \in Params /\ "PanEl" \in Params
      /\ norm["PanAz"] \in Values /\ norm["PanEl"] \in Values /\ "ObjMove" \in Kinds
  BY FieldsAre DEF Params, Kinds
<1>2. Sounds(p, v) \in Values /\ (p \in {"PanAz", "PanEl"} => Sounds(p, v) = v)
  BY SoundIs
<1>3. Sounds("PanAz", norm["PanAz"]) = norm["PanAz"] /\ Sounds("PanEl", norm["PanEl"]) = norm["PanEl"]
  BY <1>1, SoundIs
<1>4. DOMAIN TagOf = {"Width", "Gain", "Order"} /\ \A x \in DOMAIN TagOf : TagOf[x] \in Kinds
  BY DEF TagOf, Kinds
<1>5. CASE p = "PanAz"
  <2> DEFINE c == Move("ObjMove", 0, v, norm["PanEl"])
  <2>1. CommandOf(p, v) = <<c>>
    BY <1>4, <1>5 DEF CommandOf
  <2>2. c \in Commands
    BY <1>1 DEF Commands
  <2>3. /\ c.obj = 0 /\ DOMAIN c.set = {"PanAz", "PanEl", "Active"}
        /\ c.set["PanAz"] = v /\ c.set["PanEl"] = norm["PanEl"]
    BY MoveIs
  <2> HIDE DEF c
  <2> QED BY <1>2, <1>3, <1>5, <2>1, <2>2, <2>3 DEF RowFields, Params
<1>6. CASE p = "PanEl"
  <2> DEFINE c == Move("ObjMove", 0, norm["PanAz"], v)
  <2>1. CommandOf(p, v) = <<c>>
    BY <1>4, <1>6 DEF CommandOf
  <2>2. c \in Commands
    BY <1>1 DEF Commands
  <2>3. /\ c.obj = 0 /\ DOMAIN c.set = {"PanAz", "PanEl", "Active"}
        /\ c.set["PanEl"] = v /\ c.set["PanAz"] = norm["PanAz"]
    BY MoveIs
  <2> HIDE DEF c
  <2> QED BY <1>2, <1>3, <1>6, <2>1, <2>2, <2>3 DEF RowFields, Params
<1>7. CASE p \in {"Width", "Gain", "Order"}
  <2> DEFINE w == Sounds(p, v)
             c == Set(TagOf[p], 0, p, w)
  <2>1. CommandOf(p, v) = <<c>>
    BY <1>4, <1>7 DEF CommandOf
  <2>2. c \in Commands
    BY <1>1, <1>2, <1>4, <1>7 DEF Commands
  <2>3. c.obj = 0 /\ DOMAIN c.set = {p} /\ c.set[p] = w
    BY SetIs
  <2> HIDE DEF c
  <2> QED BY <1>7, <2>1, <2>2, <2>3 DEF RowFields
<1>8. CASE p \notin RowFields
  BY <1>4, <1>8 DEF CommandOf, RowFields
<1> QED BY <1>5, <1>6, <1>7, <1>8 DEF RowFields

LEMMA FieldsOfCommand ==
    /\ FieldsOf(<<>>) = {}
    /\ \A c : FieldsOf(<<c>>) = DOMAIN c.set \cap Params
<1>1. \A c : DOMAIN <<c>> = {1} /\ <<c>>[1] = c
  OBVIOUS
<1>2. DOMAIN <<>> = {}
  OBVIOUS
<1>3. FieldsOf(<<>>) = {}
  BY <1>2 DEF FieldsOf
<1>4. ASSUME NEW c PROVE FieldsOf(<<c>>) = DOMAIN c.set \cap Params
  <2> DEFINE s == <<c>>
  <2>1. DOMAIN s = {1} /\ s[1] = c
    BY <1>1
  <2> HIDE DEF s
  <2>2. FieldsOf(s) = {p \in Params : p \in DOMAIN c.set}
    BY <2>1 DEF FieldsOf
  <2> QED BY <2>2 DEF s
<1> QED BY <1>3, <1>4

\* The edits of a command are of its fields, or there are none.
Answers(c) ==
    /\ EditsOf(c) \in Seq(Params \X Halves)
    /\ \/ EditsOf(c) = <<>>
       \/ \A p \in RowFields : Sets(c, p) => \E i \in DOMAIN EditsOf(c) : EditsOf(c)[i][1] = p

LEMMA MoveAnswers ==
    ASSUME NEW tag \in {"ObjMove", "ObjXYZ"}, NEW o, NEW az \in Values, NEW el \in Values
    PROVE  Answers(Move(tag, o, az, el))
<1> DEFINE c == Move(tag, o, az, el)
<1>1. /\ c.tag = tag /\ DOMAIN c.set = {"PanAz", "PanEl", "Active"}
      /\ c.set["PanAz"] = az /\ c.set["PanEl"] = el
  BY MoveIs
<1> HIDE DEF c
<1>2. CASE tag = "ObjMove"
  <2> DEFINE e == <<<<"PanAz", Clamped(az)>>, <<"PanEl", Clamped(el)>>>>
  <2>1. EditsOf(c) = e
    BY <1>1, <1>2 DEF EditsOf
  <2>2. Clamped(az) \in Halves /\ Clamped(el) \in Halves /\ "PanAz" \in Params /\ "PanEl" \in Params
    BY ClampIs DEF Params
  <2>3. e \in Seq(Params \X Halves) /\ DOMAIN e = {1, 2} /\ e[1][1] = "PanAz" /\ e[2][1] = "PanEl"
    BY <2>2
  <2>4. \A p \in RowFields : Sets(c, p) => p \in {"PanAz", "PanEl"}
    BY <1>1 DEF Sets, RowFields
  <2> HIDE DEF e
  <2> QED BY <2>1, <2>3, <2>4 DEF c, Answers
<1>3. CASE tag = "ObjXYZ"
  <2>1. EditsOf(c) = <<>>
    BY <1>1, <1>3 DEF EditsOf
  <2> QED BY <2>1 DEF c, Answers
<1> QED BY <1>2, <1>3

\* What a command of a kind sets when it sets one field.
FieldOf(tag) ==
    CASE tag = "ObjGain" -> "Gain" [] tag = "SysAmbiOrder" -> "Order"
      [] tag \in {"ObjWidth", "ObjDsp"} -> "Width" [] OTHER -> "Active"

LEMMA SetAnswers ==
    ASSUME NEW tag \in Kinds \ {"ObjMove"}, NEW o, NEW v \in Values, tag = "ObjMute" => v \in {0, 1}
    PROVE  Answers(Set(tag, o, FieldOf(tag), v))
<1> DEFINE f == FieldOf(tag)
           c == Set(tag, o, f, v)
<1>1. c.tag = tag /\ DOMAIN c.set = {f} /\ c.set[f] = v
  BY SetIs
<1>2. Clamped(v) \in Halves /\ {"Gain", "Order", "Width", "Mute"} \subseteq Params
  BY ClampIs DEF Params
<1> HIDE DEF c
<1>3. ASSUME NEW q \in Params, NEW w \in Halves, EditsOf(c) = <<<<q, w>>>>, f \in RowFields => q = f
      PROVE  Answers(c)
  <2> DEFINE e == <<<<q, w>>>>
  <2>1. e \in Seq(Params \X Halves) /\ DOMAIN e = {1} /\ e[1][1] = q
    OBVIOUS
  <2>2. \A p \in RowFields : Sets(c, p) => p = q
    BY <1>1, <1>3 DEF Sets
  <2>3. EditsOf(c) = e
    BY <1>3
  <2> HIDE DEF e
  <2> QED BY <2>1, <2>2, <2>3 DEF Answers
<1>4. CASE tag \in {"ObjGain", "ObjWidth", "SysAmbiOrder"}
  <2>1. EditsOf(c) = <<<<f, Clamped(v)>>>> /\ f \in {"Gain", "Order", "Width"}
    BY <1>1, <1>4 DEF EditsOf, FieldOf
  <2> QED BY <1>2, <1>3, <2>1 DEF c
<1>5. CASE tag = "ObjMute"
  <2>1. EditsOf(c) = <<<<"Mute", 2 * (1 - v)>>>> /\ f = "Active"
    BY <1>1, <1>5 DEF EditsOf, FieldOf
  <2>2. 2 * (1 - v) \in Halves
    BY <1>5 DEF Halves
  <2>3. f \notin RowFields
    BY <2>1 DEF RowFields
  <2> QED BY <1>2, <1>3, <2>1, <2>2, <2>3 DEF c
<1>6. CASE tag \in {"ObjXYZ", "ObjDsp", "ObjActive", "ObjActiveAdm"}
  <2>1. EditsOf(c) = <<>>
    BY <1>1, <1>6 DEF EditsOf
  <2> QED BY <2>1 DEF c, Answers
<1> QED BY <1>4, <1>5, <1>6 DEF Kinds

LEMMA PacketIs ==
    ASSUME NEW c \in Packets
    PROVE  c \in Commands /\ Answers(c)
<1>1. {0, 1, 2, 3} \subseteq Values /\ 0 \in Objects
  BY ObjectAssumption DEF Values
<1>2. \/ c = Set("SysAmbiOrder", 0, "Order", 1)
      \/ \E o \in Objects : c \in Positions(o) \/ c \in Levels(o) \/ c \in Switches(o)
  <2> DEFINE order == Set("SysAmbiOrder", 0, "Order", 1)
             all == UNION {Positions(o) \cup Levels(o) \cup Switches(o) : o \in Objects}
  <2>1. c \in all \cup {order}
    BY Zenon DEF Packets
  <2>2. c \in all => \E o \in Objects : c \in Positions(o) \cup Levels(o) \cup Switches(o)
    OBVIOUS
  <2> HIDE DEF order, all
  <2>3. c \in all \/ c = order
    BY <2>1
  <2> QED BY <2>2, <2>3 DEF order
<1>3. ASSUME NEW o \in Objects, NEW tag \in {"ObjMove", "ObjXYZ"}, NEW az \in Values, NEW el \in Values,
             c = Move(tag, o, az, el)
      PROVE  c \in Commands /\ Answers(c)
  <2>1. tag \in Kinds
    BY DEF Kinds
  <2> QED BY <1>3, <2>1, MoveAnswers DEF Commands
<1>4. ASSUME NEW o \in Objects, NEW tag \in Kinds \ {"ObjMove"}, NEW v \in Values,
             tag = "ObjMute" => v \in {0, 1}, NEW f, f = FieldOf(tag), c = Set(tag, o, f, v)
      PROVE  c \in Commands /\ Answers(c)
  <2>1. f \in {"Width", "Gain", "Order", "Active"}
    BY <1>4 DEF FieldOf
  <2> QED BY <1>4, <2>1, SetAnswers DEF Commands
<1>5. /\ FieldOf("SysAmbiOrder") = "Order" /\ FieldOf("ObjXYZ") = "Active"
      /\ FieldOf("ObjGain") = "Gain" /\ FieldOf("ObjWidth") = "Width" /\ FieldOf("ObjDsp") = "Width"
      /\ \A tag \in {"ObjActive", "ObjActiveAdm", "ObjMute"} : FieldOf(tag) = "Active"
  BY DEF FieldOf
<1>6. /\ {"SysAmbiOrder", "ObjXYZ", "ObjGain", "ObjWidth", "ObjDsp", "ObjActive", "ObjActiveAdm",
          "ObjMute"} \subseteq Kinds \ {"ObjMove"}
  BY DEF Kinds
<1>7. CASE c = Set("SysAmbiOrder", 0, "Order", 1)
  BY <1>1, <1>4, <1>5, <1>6, <1>7
<1>8. CASE \E o \in Objects : c \in Positions(o)
  <2>1. PICK o \in Objects : \/ c = Move("ObjMove", o, 3, 2) \/ c = Move("ObjXYZ", o, 2, 1)
                            \/ c = Set("ObjXYZ", o, "Active", 1)
    BY <1>8 DEF Positions
  <2> QED BY <1>1, <1>3, <1>4, <1>5, <1>6, <2>1
<1>9. CASE \E o \in Objects : c \in Levels(o)
  <2>1. PICK o \in Objects : \/ c = Set("ObjGain", o, "Gain", 3) \/ c = Set("ObjWidth", o, "Width", 1)
                            \/ c = Set("ObjDsp", o, "Width", 2)
    BY <1>9 DEF Levels
  <2> QED BY <1>1, <1>4, <1>5, <1>6, <2>1
<1>10. CASE \E o \in Objects : c \in Switches(o)
  <2>1. PICK o \in Objects, tag \in {"ObjActive", "ObjActiveAdm", "ObjMute"}, x \in {0, 1} :
           c = Set(tag, o, "Active", x)
    BY <1>10 DEF Switches
  <2> QED BY <1>1, <1>4, <1>5, <1>6, <2>1
<1> QED BY <1>2, <1>7, <1>8, <1>9, <1>10

LEMMA EditsType ==
    ASSUME NEW c \in Packets
    PROVE  /\ c \in Commands /\ EditsOf(c) \in Seq(Params \X Halves)
           /\ \/ EditsOf(c) = <<>>
              \/ \A p \in RowFields :
                    Sets(c, p) => \E i \in DOMAIN EditsOf(c) : EditsOf(c)[i][1] = p
BY PacketIs DEF Answers

\* What fits of a sequence is all of it if it fits.
LEMMA FitIs ==
    ASSUME NEW S, NEW s \in Seq(S), NEW n \in Int
    PROVE  Fit(s, n) \in Seq(S) /\ (Len(s) <= n => Fit(s, n) = s)
<1>1. Len(s) \in Nat /\ Len(s) \in Int /\ 1 \in Int /\ \A i \in 1 .. Len(s) : s[i] \in S
  OBVIOUS
<1>2. CASE Len(s) <= n
  <2> DEFINE t == SubSeq(s, 1, Len(s))
  <2>1. Fit(s, n) = t
    BY <1>2 DEF Fit
  <2>2. /\ t \in Seq(S)
        /\ Len(t) = IF 1 <= Len(s) THEN Len(s) - 1 + 1 ELSE 0
        /\ \A i \in 1 .. Len(s) - 1 + 1 : t[i] = s[1 + i - 1]
    BY <1>1, SubSeqProperties
  <2> HIDE DEF t
  <2>3. Len(t) = Len(s) /\ \A i \in 1 .. Len(s) : t[i] = s[i]
    BY <1>1, <2>2
  <2>4. t = s
    BY <2>2, <2>3, SeqEqual
  <2> QED BY <2>1, <2>4
<1>3. CASE ~(Len(s) <= n)
  <2>1. Fit(s, n) = SubSeq(s, 1, n)
    BY <1>3 DEF Fit
  <2>2. \A i \in 1 .. n : s[i] \in S
    BY <1>1, <1>3
  <2>3. SubSeq(s, 1, n) \in Seq(S)
    BY <1>1, <2>2, SubSeqProperties
  <2> QED BY <1>3, <2>1, <2>3
<1> QED BY <1>2, <1>3

LEMMA EnqueueIs ==
    ASSUME fifo \in Seq(Commands), lost \in BOOLEAN, NEW cmds \in Seq(Commands), Enqueue(cmds)
    PROVE  /\ fifo' \in Seq(Commands) /\ lost' \in BOOLEAN
           /\ ~lost' => ~lost /\ fifo' = fifo \o cmds
<1>1. FifoCap - Len(fifo) \in Int /\ FifoCap \in Nat /\ Len(fifo) \in Nat /\ Len(cmds) \in Nat
  BY BoundAssumption
<1> DEFINE k == Fit(cmds, FifoCap - Len(fifo))
<1>2. k \in Seq(Commands) /\ (Len(cmds) <= FifoCap - Len(fifo) => k = cmds)
  BY <1>1, FitIs
<1>3. fifo' = fifo \o k /\ lost' = (lost \/ Len(fifo) + Len(cmds) > FifoCap)
  BY DEF Enqueue
<1> HIDE DEF k
<1>4. ~lost' => ~lost /\ Len(cmds) <= FifoCap - Len(fifo)
  <2>1. CASE Len(fifo) + Len(cmds) > FifoCap
    BY <1>3, <2>1
  <2>2. CASE ~(Len(fifo) + Len(cmds) > FifoCap)
    <3>1. Len(cmds) <= FifoCap - Len(fifo)
      BY <1>1, <2>2
    <3> QED BY <1>3, <3>1
  <2> QED BY <2>1, <2>2
<1> QED BY <1>2, <1>3, <1>4

\* What the engine's table holds after a command.
LEMMA ApplyIs ==
    ASSUME engine \in [Objects -> [Rows -> Values]], NEW c \in Commands
    PROVE  /\ Apply(engine, c) \in [Objects -> [Rows -> Values]]
           /\ \A p \in RowFields :
                 Apply(engine, c)[0][p] = IF Sets(c, p) THEN c.set[p] ELSE engine[0][p]
<1> DEFINE row == [f \in Rows |-> IF f \in DOMAIN c.set THEN c.set[f] ELSE engine[c.obj][f]]
<1>1. c.obj \in Objects /\ \A f \in DOMAIN c.set : c.set[f] \in Values
  BY CommandType
<1>2. DOMAIN engine[c.obj] = Rows /\ \A f \in Rows : engine[c.obj][f] \in Values
  BY <1>1
<1>3. Apply(engine, c) = [engine EXCEPT ![c.obj] = row]
  BY <1>2 DEF Apply
<1>4. row \in [Rows -> Values]
  BY <1>1, <1>2
<1>5. \A p \in RowFields : row[p] = IF p \in DOMAIN c.set THEN c.set[p] ELSE engine[c.obj][p]
  BY DEF Rows
<1> HIDE DEF row
<1>6. Apply(engine, c) \in [Objects -> [Rows -> Values]]
  BY <1>1, <1>3, <1>4
<1>7. ASSUME NEW p \in RowFields
      PROVE  Apply(engine, c)[0][p] = IF Sets(c, p) THEN c.set[p] ELSE engine[0][p]
  <2>1. CASE c.obj = 0
    BY <1>1, <1>3, <1>5, <2>1 DEF Sets
  <2>2. CASE c.obj # 0
    BY <1>3, <2>2, ObjectAssumption DEF Sets
  <2> QED BY <2>1, <2>2
<1> QED BY <1>6, <1>7

-----------------------------------------------------------------------------
(* What the FIFO still does to a field of object 0.                         *)

LEMMA SettledByOthers ==
    ASSUME fifo \in Seq(Commands), NEW cmds \in Seq(Commands), fifo' = fifo \o cmds,
           engine' = engine, NEW p, norm'[p] = norm[p],
           \A i \in DOMAIN cmds : ~Sets(cmds[i], p), Settled(p)
    PROVE  Settled(p)'
<1>1. /\ Len(fifo) \in Nat /\ Len(cmds) \in Nat
      /\ DOMAIN fifo = 1 .. Len(fifo) /\ DOMAIN cmds = 1 .. Len(cmds)
  OBVIOUS
<1>2. /\ Len(fifo') = Len(fifo) + Len(cmds)
      /\ DOMAIN fifo' = 1 .. Len(fifo) + Len(cmds)
      /\ \A i \in 1 .. Len(fifo) + Len(cmds) :
            fifo'[i] = IF i <= Len(fifo) THEN fifo[i] ELSE cmds[i - Len(fifo)]
  BY ConcatProperties
<1>3. \A j \in DOMAIN fifo' : j > Len(fifo) => ~Sets(fifo'[j], p)
  <2> SUFFICES ASSUME NEW j \in DOMAIN fifo', j > Len(fifo) PROVE ~Sets(fifo'[j], p)
    OBVIOUS
  <2>1. j - Len(fifo) \in DOMAIN cmds /\ fifo'[j] = cmds[j - Len(fifo)]
    BY <1>1, <1>2
  <2> QED BY <2>1
<1>4. \A j \in DOMAIN fifo' : j <= Len(fifo) => j \in DOMAIN fifo /\ fifo'[j] = fifo[j]
  BY <1>1, <1>2
<1>5. \A j \in DOMAIN fifo : j \in DOMAIN fifo' /\ j <= Len(fifo)
  BY <1>1, <1>2
<1>6. \A j \in DOMAIN fifo' : j \in Nat /\ (j > Len(fifo) \/ j <= Len(fifo))
  BY <1>1, <1>2
<1>7. CASE \E i \in DOMAIN fifo : /\ Sets(fifo[i], p) /\ fifo[i].set[p] = Sounds(p, norm[p])
                                  /\ \A j \in DOMAIN fifo : j > i => ~Sets(fifo[j], p)
  <2>1. PICK i \in DOMAIN fifo : /\ Sets(fifo[i], p) /\ fifo[i].set[p] = Sounds(p, norm[p])
                                 /\ \A j \in DOMAIN fifo : j > i => ~Sets(fifo[j], p)
    BY <1>7
  <2>2. i \in DOMAIN fifo' /\ fifo'[i] = fifo[i]
    BY <1>4, <1>5
  <2>3. \A j \in DOMAIN fifo' : j > i => ~Sets(fifo'[j], p)
    BY <1>3, <1>4, <1>6, <2>1
  <2>4. Sets(fifo'[i], p) /\ fifo'[i].set[p] = Sounds(p, norm'[p])
    BY <2>1, <2>2
  <2> QED BY <2>2, <2>3, <2>4 DEF Settled, Sets
<1>8. CASE engine[0][p] = Sounds(p, norm[p]) /\ \A j \in DOMAIN fifo : ~Sets(fifo[j], p)
  <2>1. \A j \in DOMAIN fifo' : ~Sets(fifo'[j], p)
    BY <1>3, <1>4, <1>6, <1>8
  <2> QED BY <1>8, <2>1 DEF Settled, Sets
<1> QED BY <1>7, <1>8 DEF Settled

LEMMA SettledByCommand ==
    ASSUME fifo \in Seq(Commands), NEW c \in Commands, fifo' = fifo \o <<c>>,
           NEW p, Sets(c, p), c.set[p] = Sounds(p, norm'[p])
    PROVE  Settled(p)'
<1> DEFINE n == Len(fifo) + 1
<1>1. Len(fifo) \in Nat /\ <<c>> \in Seq(Commands) /\ Len(<<c>>) = 1 /\ <<c>>[1] = c
  OBVIOUS
<1>2. /\ DOMAIN fifo' = 1 .. Len(fifo) + Len(<<c>>)
      /\ \A i \in 1 .. Len(fifo) + Len(<<c>>) :
            fifo'[i] = IF i <= Len(fifo) THEN fifo[i] ELSE <<c>>[i - Len(fifo)]
  BY <1>1, ConcatProperties
<1>3. DOMAIN fifo' = 1 .. n /\ fifo'[n] = c
  BY <1>1, <1>2
<1>4. n \in DOMAIN fifo' /\ \A j \in DOMAIN fifo' : ~(j > n)
  BY <1>1, <1>3
<1> HIDE DEF n
<1> QED BY <1>3, <1>4 DEF Settled, Sets

LEMMA SettledByDrain ==
    ASSUME engine \in [Objects -> [Rows -> Values]], fifo \in Seq(Commands), fifo # <<>>,
           engine' = Apply(engine, Head(fifo)), fifo' = Tail(fifo), norm' = norm,
           NEW p \in RowFields, Settled(p)
    PROVE  Settled(p)'
<1> DEFINE c == fifo[1]
<1>1. /\ Len(fifo) \in Nat /\ Len(fifo) >= 1 /\ DOMAIN fifo = 1 .. Len(fifo)
      /\ c \in Commands /\ Head(fifo) = c
  OBVIOUS
<1>2. DOMAIN fifo' = 1 .. Len(fifo) - 1 /\ \A i \in 1 .. Len(fifo) - 1 : fifo'[i] = fifo[i + 1]
  BY <1>1, HeadTailProperties
<1>3. engine'[0][p] = IF Sets(c, p) THEN c.set[p] ELSE engine[0][p]
  BY <1>1, ApplyIs
<1>4. \A j \in DOMAIN fifo' : j + 1 \in DOMAIN fifo /\ fifo'[j] = fifo[j + 1] /\ j + 1 > 1 /\ j \in Int
  BY <1>1, <1>2
<1>5. CASE \E i \in DOMAIN fifo : /\ Sets(fifo[i], p) /\ fifo[i].set[p] = Sounds(p, norm[p])
                                  /\ \A j \in DOMAIN fifo : j > i => ~Sets(fifo[j], p)
  <2>1. PICK i \in DOMAIN fifo : /\ Sets(fifo[i], p) /\ fifo[i].set[p] = Sounds(p, norm[p])
                                 /\ \A j \in DOMAIN fifo : j > i => ~Sets(fifo[j], p)
    BY <1>5
  <2>2. CASE i = 1
    <3>1. engine'[0][p] = Sounds(p, norm'[p])
      BY <1>3, <2>1, <2>2
    <3>2. \A j \in DOMAIN fifo' : ~Sets(fifo'[j], p)
      BY <1>4, <2>1, <2>2
    <3> QED BY <3>1, <3>2 DEF Settled, Sets
  <2>3. CASE i # 1
    <3>1. i - 1 \in DOMAIN fifo' /\ fifo'[i - 1] = fifo[i]
      <4>1. i - 1 \in 1 .. Len(fifo) - 1 /\ (i - 1) + 1 = i
        BY <1>1, <2>3
      <4> QED BY <1>2, <4>1
    <3>2. \A j \in DOMAIN fifo' : j > i - 1 => ~Sets(fifo'[j], p)
      <4> SUFFICES ASSUME NEW j \in DOMAIN fifo', j > i - 1 PROVE ~Sets(fifo'[j], p)
        OBVIOUS
      <4>1. j + 1 \in DOMAIN fifo /\ fifo'[j] = fifo[j + 1] /\ j + 1 > i
        BY <1>1, <1>4
      <4> QED BY <2>1, <4>1
    <3>3. Sets(fifo'[i - 1], p) /\ fifo'[i - 1].set[p] = Sounds(p, norm'[p])
      BY <2>1, <3>1
    <3> QED BY <3>1, <3>2, <3>3 DEF Settled, Sets
  <2> QED BY <2>2, <2>3
<1>6. CASE engine[0][p] = Sounds(p, norm[p]) /\ \A j \in DOMAIN fifo : ~Sets(fifo[j], p)
  <2>1. engine'[0][p] = Sounds(p, norm'[p])
    BY <1>1, <1>3, <1>6
  <2>2. \A j \in DOMAIN fifo' : ~Sets(fifo'[j], p)
    BY <1>4, <1>6
  <2> QED BY <2>1, <2>2 DEF Settled, Sets
<1> QED BY <1>5, <1>6 DEF Settled

-----------------------------------------------------------------------------
(* Types.                                                                   *)

LEMMA LatestPosition ==
    ASSUME NEW n \in Nat, NEW S \in SUBSET (1 .. n), S # {}
    PROVE  Max(S) \in S
<1> DEFINE T == {n - x : x \in S}
           R == OpToRel(<, Nat)
<1>1. T \in SUBSET Nat /\ T # {}
  <2>1. \A x \in S : n - x \in Nat
    OBVIOUS
  <2> QED BY <2>1
<1>2. R = {ss \in Nat \X Nat : ss[1] < ss[2]}
  BY DEF OpToRel
<1>3. IsWellFoundedOn(R, Nat)
  BY NatLessThanWellFounded
<1>4. \A x \in S : n - x \in T
  OBVIOUS
<1>5. \A t \in T : \E x \in S : t = n - x
  OBVIOUS
<1> HIDE DEF R, T
<1>6. \E t \in T : \A u \in T : ~(<<u, t>> \in R)
  BY <1>1, <1>3, WFMin
<1>7. \A x \in Nat : \A y \in Nat : <<y, x>> \notin R => x <= y
  BY <1>2
<1>8. PICK t \in T : \A u \in T : t <= u
  BY <1>1, <1>6, <1>7
<1>9. PICK x \in S : t = n - x
  BY <1>5
<1>10. \A y \in S : n - x <= n - y
  BY <1>4, <1>8, <1>9
<1>11. \A y \in S : x >= y
  BY <1>10
<1> QED BY <1>11 DEF Max

\* What draining the edits makes of the host's changes.
LEMMA DrainEditsIs ==
    ASSUME edits \in Seq(Params \X Halves), todo \in [Params -> Halves \cup {None}], DrainEdits
    PROVE  /\ todo' \in [Params -> Halves \cup {None}]
           /\ \A p \in Params : InEdits(p) => todo'[p] \in Halves
           /\ \A p \in Params : ~InEdits(p) => todo'[p] = todo[p]
           /\ edited' = edited \cup {p \in Params : InEdits(p)}
<1> DEFINE those(p) == {i \in DOMAIN edits : edits[i][1] = p}
<1>1. /\ Len(edits) \in Nat /\ DOMAIN edits = 1 .. Len(edits)
      /\ \A i \in DOMAIN edits : edits[i][1] \in Params /\ edits[i][2] \in Halves
  OBVIOUS
<1>2. todo' = [p \in Params |-> IF those(p) = {} THEN todo[p] ELSE edits[Max(those(p))][2]]
  BY DEF DrainEdits
<1>3. \A p \in Params : InEdits(p) <=> those(p) # {}
  BY DEF InEdits
<1>4. \A p \in Params : those(p) # {} => Max(those(p)) \in those(p)
  <2> SUFFICES ASSUME NEW p \in Params, those(p) # {} PROVE Max(those(p)) \in those(p)
    OBVIOUS
  <2>1. those(p) \in SUBSET (1 .. Len(edits))
    BY <1>1
  <2> QED BY <1>1, <2>1, LatestPosition
<1>5. \A p \in Params : \A i \in those(p) : edits[i][2] \in Halves
  BY <1>1
<1>6. edited' = edited \cup {edits[i][1] : i \in DOMAIN edits}
  BY DEF DrainEdits
<1>7. {edits[i][1] : i \in DOMAIN edits} = {p \in Params : InEdits(p)}
  BY <1>1 DEF InEdits
<1> HIDE DEF those
<1> QED BY <1>2, <1>3, <1>4, <1>5, <1>6, <1>7

\* A file that can be read gives each parameter a value to store.
LEMMA VariantIs ==
    ASSUME NEW f \in Files, NEW g \in Variants(f)
    PROVE  /\ CoreOf(g) \in [Params -> Values]
           /\ g = f => Readable(g) /\ CoreOf(g) = f.core
<1>1. f.core \in [Params -> Values] /\ f.version = 4 /\ f.whole = TRUE
  BY DEF Files
<1>2. g.core \in [Params -> Values]
  <2>1. g.core \in {f.core} \cup Damaged(f.core)
    BY DEF Variants
  <2>2. -1 \in Values /\ 3 \in Values
    BY DEF Values
  <2>3. \A h \in Damaged(f.core) : h \in [Params -> Values]
    BY <1>1, <2>2 DEF Damaged
  <2> QED BY <1>1, <2>1, <2>3
<1>3. 0 \in Values
  BY DEF Values
<1>4. CoreOf(g) \in [Params -> Values]
  BY <1>2, <1>3 DEF CoreOf
<1>5. ASSUME g = f PROVE Readable(g) /\ CoreOf(g) = f.core
  <2>1. Readable(g)
    BY <1>1, <1>5 DEF Readable
  <2>2. CoreOf(g) = [p \in Params |-> f.core[p]]
    BY <1>1, <1>5 DEF CoreOf
  <2> QED BY <1>1, <2>1, <2>2
<1> QED BY <1>4, <1>5

LEMMA BeginLoadIs ==
    ASSUME PluginTyped, BeginLoad
    PROVE  \E g \in Variants(file) :
              /\ file \in Files /\ ui = <<>> /\ todo = NoChange
              /\ fresh' = (g = file)
              /\ \/ /\ ~Readable(g) /\ ui' = <<>> /\ ctl' = ctl /\ edited' = edited
                 \/ /\ Readable(g) /\ edited' = {}
                    /\ ctl' = [p \in Params |-> Clamped(CoreOf(g)[p])]
                    /\ ui' \in Seq(LoadSteps) /\ DOMAIN ui' = 1 .. 8
                    /\ \A i \in 1 .. 8 : /\ ui'[i][1] = "store" /\ ui'[i][2] = Core[i]
                                         /\ ui'[i][3] = CoreOf(g)[Core[i]]
<1>1. file \in Files
  BY DEF BeginLoad, PluginTyped
<1>2. ui = <<>> /\ todo = NoChange
  BY DEF BeginLoad, HostMay, Loading
<1>3. PICK g \in Variants(file) :
        /\ ui' = IF Readable(g) THEN [i \in 1 .. 8 |-> <<"store", Core[i], CoreOf(g)[Core[i]]>>]
                 ELSE <<>>
        /\ ctl' = SetComponentState(g)
        /\ edited' = IF Readable(g) THEN {} ELSE edited
        /\ fresh' = (g = file)
  BY DEF BeginLoad
<1>4. CASE Readable(g)
  <2> DEFINE core == CoreOf(g)
  <2>1. core \in [Params -> Values]
    BY <1>1, VariantIs
  <2>2. ui' = [i \in 1 .. 8 |-> <<"store", Core[i], core[Core[i]]>>]
    BY <1>3, <1>4
  <2>3. ctl' = [p \in Params |-> Clamped(core[p])] /\ edited' = {}
    BY <1>3, <1>4 DEF SetComponentState
  <2> HIDE DEF core
  <2>4. ui' \in [1 .. 8 -> LoadSteps]
    <3>1. \A i \in 1 .. 8 : <<"store", Core[i], core[Core[i]]>> \in LoadSteps
      BY <2>1, CoreIs DEF LoadSteps
    <3> QED BY <2>2, <3>1
  <2>5. ui' \in Seq(LoadSteps)
    <3>1. 8 \in Nat /\ Seq(LoadSteps) = UNION {[1 .. n -> LoadSteps] : n \in Nat}
      BY SeqDef
    <3> QED BY <2>4, <3>1
  <2>6. DOMAIN ui' = 1 .. 8 /\ \A i \in 1 .. 8 : /\ ui'[i][1] = "store" /\ ui'[i][2] = Core[i]
                                                 /\ ui'[i][3] = core[Core[i]]
    BY <2>2
  <2> QED BY <1>1, <1>2, <1>3, <1>4, <2>3, <2>5, <2>6 DEF core
<1>5. CASE ~Readable(g)
  BY <1>1, <1>2, <1>3, <1>5 DEF SetComponentState
<1> QED BY <1>4, <1>5

\* The step of a load that is due.
LEMMA LoadHead ==
    ASSUME PluginTyped, Loading
    PROVE  /\ Len(ui) \in Nat /\ 1 \in DOMAIN ui /\ DOMAIN ui = 1 .. Len(ui)
           /\ ui[1] \in LoadSteps /\ ui[1][1] \in {"store", "dispatch"}
           /\ ui[1][2] \in Params /\ ui[1][3] \in Values
<1>1. ui \in Seq(LoadSteps) /\ ui # <<>>
  BY DEF PluginTyped, Loading
<1>2. Len(ui) \in Nat /\ 1 \in DOMAIN ui /\ DOMAIN ui = 1 .. Len(ui)
  BY <1>1
<1>3. ui[1] \in LoadSteps
  BY <1>1, <1>2
<1> QED BY <1>2, <1>3 DEF LoadSteps

LEMMA StoreLoadedIs ==
    ASSUME PluginTyped, StoreLoaded
    PROVE  /\ ui' \in Seq(LoadSteps) /\ DOMAIN ui' = DOMAIN ui /\ 1 \in DOMAIN ui
           /\ ui[1][1] = "store" /\ ui'[1][1] = "dispatch"
           /\ \A i \in DOMAIN ui : /\ ui'[i][2] = ui[i][2] /\ ui'[i][3] = ui[i][3]
                                   /\ i # 1 => ui'[i][1] = ui[i][1]
           /\ ui[1][2] \in Params /\ ui[1][3] \in Values
           /\ norm' = [norm EXCEPT ![ui[1][2]] = ui[1][3]]
<1> DEFINE e == <<"dispatch", ui[1][2], ui[1][3]>>
<1>1. /\ Loading /\ ui[1][1] = "store" /\ ui' = [ui EXCEPT ![1][1] = "dispatch"]
      /\ norm' = [norm EXCEPT ![ui[1][2]] = ui[1][3]]
  BY DEF StoreLoaded
<1>2. /\ ui \in Seq(LoadSteps) /\ 1 \in DOMAIN ui /\ ui[1] \in LoadSteps
      /\ ui[1][2] \in Params /\ ui[1][3] \in Values
  BY <1>1, LoadHead DEF PluginTyped
<1>3. [ui[1] EXCEPT ![1] = "dispatch"] = e
  BY <1>2 DEF LoadSteps
<1>4. ui' = [ui EXCEPT ![1] = e]
  BY <1>1, <1>3
<1>5. e \in LoadSteps /\ e[1] = "dispatch" /\ e[2] = ui[1][2] /\ e[3] = ui[1][3]
  BY <1>2 DEF LoadSteps
<1> HIDE DEF e
<1>6. /\ ui' \in Seq(LoadSteps) /\ DOMAIN ui' = DOMAIN ui /\ ui'[1] = e
      /\ \A i \in DOMAIN ui : i # 1 => ui'[i] = ui[i]
  BY <1>2, <1>4, <1>5
<1> QED BY <1>1, <1>2, <1>5, <1>6

LEMMA DispatchLoadedIs ==
    ASSUME PluginTyped, DispatchLoaded
    PROVE  /\ ui' \in Seq(LoadSteps) /\ ui[1][1] = "dispatch" /\ 1 \in DOMAIN ui
           /\ ui[1][2] \in Params /\ ui[1][3] \in Values
           /\ \A i \in DOMAIN ui' : i \in Nat /\ i + 1 \in DOMAIN ui /\ i + 1 > 1 /\ ui'[i] = ui[i + 1]
           /\ \A i \in DOMAIN ui : i # 1 => \E j \in DOMAIN ui' : ui'[j] = ui[i]
<1>1. Loading /\ ui[1][1] = "dispatch" /\ ui' = Tail(ui)
  BY DEF DispatchLoaded
<1>2. ui \in Seq(LoadSteps) /\ ui # <<>> /\ Len(ui) \in Nat /\ DOMAIN ui = 1 .. Len(ui)
  BY <1>1, LoadHead DEF PluginTyped, Loading
<1>3. /\ ui' \in Seq(LoadSteps) /\ DOMAIN ui' = 1 .. Len(ui) - 1
      /\ \A i \in 1 .. Len(ui) - 1 : ui'[i] = ui[i + 1]
  BY <1>1, <1>2, HeadTailProperties
<1>4. \A i \in DOMAIN ui : i # 1 => i - 1 \in DOMAIN ui' /\ ui'[i - 1] = ui[i]
  <2> SUFFICES ASSUME NEW i \in DOMAIN ui, i # 1 PROVE i - 1 \in DOMAIN ui' /\ ui'[i - 1] = ui[i]
    OBVIOUS
  <2>1. i - 1 \in 1 .. Len(ui) - 1 /\ (i - 1) + 1 = i
    BY <1>2
  <2> QED BY <1>3, <2>1
<1>5. \A i \in DOMAIN ui' : i \in Nat /\ i + 1 \in DOMAIN ui /\ i + 1 > 1 /\ ui'[i] = ui[i + 1]
  BY <1>2, <1>3
<1> QED BY <1>1, <1>3, <1>4, <1>5, LoadHead

\* Dispatching pushes the command, if there is one, and notes what it sets.
LEMMA DispatchIs ==
    ASSUME PluginTyped, NEW p \in Params, NEW v \in Values, Enqueue(CommandOf(p, v)),
           known' = known \cup FieldsOf(CommandOf(p, v))
    PROVE  /\ fifo' \in Seq(Commands) /\ lost' \in BOOLEAN /\ known' \subseteq RowFields
           /\ ~lost' => ~lost
           /\ \/ p \notin RowFields /\ known' = known /\ (~lost' => fifo' = fifo \o <<>>)
              \/ /\ p \in RowFields
                 /\ \E c \in Commands :
                       /\ c.obj = 0 /\ p \in DOMAIN c.set /\ c.set[p] = Sounds(p, v)
                       /\ \A q \in DOMAIN c.set \cap Params : q # p => c.set[q] = Sounds(q, norm[q])
                       /\ known' = known \cup (DOMAIN c.set \cap Params)
                       /\ ~lost' => fifo' = fifo \o <<c>>
<1>1. norm \in [Params -> Values] /\ fifo \in Seq(Commands) /\ lost \in BOOLEAN /\ known \subseteq RowFields
  BY DEF PluginTyped
<1>2. CASE p \notin RowFields /\ CommandOf(p, v) = <<>>
  <2>1. <<>> \in Seq(Commands) /\ Enqueue(<<>>) /\ known' = known
    BY <1>2, FieldsOfCommand
  <2> QED BY <1>1, <1>2, <2>1, EnqueueIs
<1>3. ASSUME p \in RowFields, NEW c \in Commands,
             CommandOf(p, v) = <<c>>, c.obj = 0, p \in DOMAIN c.set, c.set[p] = Sounds(p, v),
             DOMAIN c.set \cap Params \subseteq RowFields,
             \A q \in DOMAIN c.set \cap Params : q # p => c.set[q] = Sounds(q, norm[q])
      PROVE  /\ fifo' \in Seq(Commands) /\ lost' \in BOOLEAN /\ known' \subseteq RowFields
             /\ ~lost' => ~lost /\ fifo' = fifo \o <<c>>
             /\ known' = known \cup (DOMAIN c.set \cap Params)
  <2>1. <<c>> \in Seq(Commands) /\ Enqueue(<<c>>)
    BY <1>3
  <2>2. known' = known \cup (DOMAIN c.set \cap Params)
    BY <1>3, FieldsOfCommand
  <2>3. /\ fifo' \in Seq(Commands) /\ lost' \in BOOLEAN
        /\ ~lost' => ~lost /\ fifo' = fifo \o <<c>>
    BY <1>1, <2>1, EnqueueIs
  <2>4. known' \subseteq RowFields
    BY <1>1, <1>3, <2>2
  <2> QED BY <2>2, <2>3, <2>4
<1>4. CASE p \in RowFields
  <2>1. p \notin RowFields
        \/ \E c \in Commands :
                    /\ CommandOf(p, v) = <<c>> /\ c.obj = 0 /\ p \in DOMAIN c.set /\ c.set[p] = Sounds(p, v)
                    /\ DOMAIN c.set \cap Params \subseteq RowFields
                    /\ \A q \in DOMAIN c.set \cap Params : q # p => c.set[q] = Sounds(q, norm[q])
    BY <1>1, CommandOfIs
  <2>2. PICK c \in Commands :
                    /\ CommandOf(p, v) = <<c>> /\ c.obj = 0 /\ p \in DOMAIN c.set /\ c.set[p] = Sounds(p, v)
                    /\ DOMAIN c.set \cap Params \subseteq RowFields
                    /\ \A q \in DOMAIN c.set \cap Params : q # p => c.set[q] = Sounds(q, norm[q])
    BY <1>4, <2>1
  <2>3. /\ fifo' \in Seq(Commands) /\ lost' \in BOOLEAN /\ known' \subseteq RowFields
        /\ ~lost' => ~lost /\ fifo' = fifo \o <<c>>
        /\ known' = known \cup (DOMAIN c.set \cap Params)
    BY <1>3, <1>4, <2>2
  <2> QED BY <1>4, <2>2, <2>3
<1>5. p \notin RowFields => CommandOf(p, v) = <<>>
  BY <1>1, CommandOfIs
<1> QED BY <1>2, <1>4, <1>5

LEMMA ReceiveIs ==
    ASSUME PluginTyped, Receive
    PROVE  /\ fromOsc' \in Seq(Commands) /\ Len(fromOsc') <= RingCap
           /\ edits' \in Seq(Params \X Halves) /\ lost' \in BOOLEAN
           /\ ~lost' => /\ ~lost
                        /\ \E c \in Packets : fromOsc' = Append(fromOsc, c)
                                              /\ edits' = edits \o EditsOf(c)
<1>1. PICK c \in Packets :
        LET back == EditsOf(c)
            kept == IF wired THEN Fit(back, RingCap - Len(edits)) ELSE <<>>
        IN  /\ fromOsc' = IF Len(fromOsc) < RingCap THEN Append(fromOsc, c) ELSE fromOsc
            /\ edits' = edits \o kept
            /\ lost' = (lost \/ Len(fromOsc) = RingCap \/ kept # back)
  BY DEF Receive
<1> DEFINE E == Params \X Halves
           back == EditsOf(c)
           kept == IF wired THEN Fit(back, RingCap - Len(edits)) ELSE <<>>
<1>2. /\ fromOsc' = IF Len(fromOsc) < RingCap THEN Append(fromOsc, c) ELSE fromOsc
      /\ edits' = edits \o kept
      /\ lost' = (lost \/ Len(fromOsc) = RingCap \/ kept # back)
  BY <1>1
<1>3. c \in Commands /\ back \in Seq(E)
  BY EditsType
<1>4. /\ fromOsc \in Seq(Commands) /\ edits \in Seq(E) /\ lost \in BOOLEAN
      /\ RingCap - Len(edits) \in Int /\ RingCap \in Nat
      /\ Len(fromOsc) \in Nat /\ Len(fromOsc) <= RingCap
  <2>1. edits \in Seq(E) /\ fromOsc \in Seq(Commands) /\ lost \in BOOLEAN
        /\ Len(fromOsc) <= RingCap
    BY DEF PluginTyped
  <2>2. Len(edits) \in Nat /\ RingCap \in Nat /\ Len(fromOsc) \in Nat
    BY <2>1, BoundAssumption
  <2> QED BY <2>1, <2>2
<1> HIDE DEF back
<1>5. kept \in Seq(E)
  <2>1. Fit(back, RingCap - Len(edits)) \in Seq(E) /\ <<>> \in Seq(E)
    BY <1>3, <1>4, FitIs
  <2> QED BY <2>1
<1> HIDE DEF kept, E
<1>6. edits' \in Seq(E)
  BY <1>2, <1>4, <1>5, ConcatProperties
<1>7. fromOsc' \in Seq(Commands) /\ Len(fromOsc') <= RingCap
  <2>1. CASE Len(fromOsc) < RingCap
    <3>1. fromOsc' = Append(fromOsc, c)
      BY <1>2, <2>1
    <3>2. fromOsc' \in Seq(Commands) /\ Len(fromOsc') = Len(fromOsc) + 1
      BY <1>3, <1>4, <3>1, AppendProperties
    <3> QED BY <1>4, <2>1, <3>2
  <2>2. CASE ~(Len(fromOsc) < RingCap)
    BY <1>2, <1>4, <2>2
  <2> QED BY <2>1, <2>2
<1>8. lost' \in BOOLEAN
  BY <1>2
<1>9. ASSUME ~lost'
      PROVE  ~lost /\ fromOsc' = Append(fromOsc, c) /\ edits' = edits \o back
  <2>1. ~lost /\ Len(fromOsc) # RingCap /\ kept = back
    BY <1>2, <1>9
  <2>2. Len(fromOsc) < RingCap
    BY <1>4, <2>1
  <2> QED BY <1>2, <2>1, <2>2
<1> QED BY <1>6, <1>7, <1>8, <1>9 DEF E, back

Life == Activate \/ Deactivate \/ Connect

LEMMA PluginStarts == PluginInit => PluginInv
<1> SUFFICES ASSUME PluginInit PROVE PluginInv
  OBVIOUS
<1>1. /\ 0 \in Values /\ Earlier \in Files /\ NoChange \in [Params -> Halves \cup {None}]
      /\ RingCap \in Nat /\ \A p \in Params : NoChange[p] = None
  <2>1. \A x \in {0, 1, 2} : x \in Values
    BY DEF Values
  <2> DEFINE core == [p \in Params |-> CASE p = "Gain" -> 2
                                          [] p \in {"PanAz", "Order", "Mute"} -> 1
                                          [] OTHER -> 0]
  <2>2. core \in [Params -> Values]
    BY <2>1
  <2>3. Earlier = [version |-> 4, whole |-> TRUE, core |-> core]
    BY DEF Earlier
  <2> HIDE DEF core
  <2>4. Earlier \in Files
    BY <2>2, <2>3 DEF Files
  <2>5. NoChange \in [Params -> Halves \cup {None}]
    BY DEF NoChange
  <2> QED BY <2>1, <2>4, <2>5, BoundAssumption, FieldsAre
<1>2. ui = <<>> /\ fifo = <<>> /\ fromOsc = <<>> /\ edits = <<>> /\ DOMAIN <<>> = {} /\ Len(<<>>) = 0
  BY DEF PluginInit
<1>3. PluginTyped
  <2>1. norm \in [Params -> Values] /\ ctl \in [Params -> Halves]
    BY <1>1, FieldsAre DEF PluginInit
  <2>2. engine \in [Objects -> [Rows -> Values]]
    BY FieldsAre DEF PluginInit
  <2>3. /\ fifo \in Seq(Commands) /\ fromOsc \in Seq(Commands) /\ edits \in Seq(Params \X Halves)
        /\ ui \in Seq(LoadSteps) /\ Len(fromOsc) <= RingCap
    BY <1>1, <1>2
  <2>4. {lost, fresh, linked, wired, connected} \subseteq BOOLEAN
    BY DEF PluginInit
  <2> QED BY <1>1, <2>1, <2>2, <2>3, <2>4 DEF PluginInit, PluginTyped
<1>4. Phases
  BY <1>1, <1>2 DEF PluginInit, Phases, Loading, Params
<1>5. ControllerInv
  BY <1>1, <1>2 DEF PluginInit, ControllerInv
<1>6. ReloadInv /\ EngineInv
  BY <1>2 DEF PluginInit, ReloadInv, EngineInv
<1> QED BY <1>3, <1>4, <1>5, <1>6 DEF PluginInv

LEMMA StepTyped ==
    ASSUME PluginTyped, Phases, [PluginNext]_pluginVars
    PROVE  PluginTyped'
<1> USE DEF hostVars, lifeVars, pluginGhosts
<1>1. CASE UNCHANGED pluginVars
  BY <1>1 DEF pluginVars, PluginTyped
<1>2. CASE BeginBlock
  <2>1. fifo' \in Seq(Commands) /\ lost' \in BOOLEAN
    BY <1>2, EnqueueIs DEF BeginBlock, PluginTyped
  <2>2. fromOsc' \in Seq(Commands) /\ Len(fromOsc') <= RingCap
    <3>1. fromOsc' = <<>> /\ Len(<<>>) = 0 /\ RingCap \in Nat
      BY <1>2, BoundAssumption DEF BeginBlock
    <3> QED BY <3>1
  <2>3. todo' \in [Params -> Halves \cup {None}]
    BY <1>2 DEF BeginBlock, NoChange
  <2>4. known' \subseteq RowFields
    BY <1>2 DEF BeginBlock, PluginTyped
  <2> QED BY <1>2, <2>1, <2>2, <2>3, <2>4 DEF BeginBlock, PluginTyped
<1>3. CASE StoreChange
  <2>1. PICK p \in Params : batch[p] # None /\ norm' = [norm EXCEPT ![p] = batch[p]] /\ audio' = p
    BY <1>3 DEF StoreChange
  <2>2. batch[p] \in Values
    BY <2>1, FieldsAre DEF PluginTyped
  <2> QED BY <1>3, <2>1, <2>2 DEF StoreChange, PluginTyped
<1>4. CASE DispatchChange
  <2>1. audio \in Params /\ batch[audio] \in Values
    BY <1>4, FieldsAre DEF DispatchChange, Phases, PluginTyped
  <2>2. fifo' \in Seq(Commands) /\ lost' \in BOOLEAN /\ known' \subseteq RowFields
    BY <1>4, <2>1, DispatchIs DEF DispatchChange
  <2> QED BY <1>4, <2>1, <2>2 DEF DispatchChange, PluginTyped
<1>5. CASE Render \/ EndBlock
  <2>1. audio' \in {"idle", "drain"}
    BY <1>5 DEF Render, EndBlock
  <2> QED BY <1>5, <2>1 DEF Render, EndBlock, PluginTyped
<1>6. CASE DrainCommand
  <2>1. fifo \in Seq(Commands) /\ fifo # <<>> /\ engine' = Apply(engine, Head(fifo)) /\ fifo' = Tail(fifo)
    BY <1>6 DEF DrainCommand, PluginTyped
  <2>2. Head(fifo) \in Commands /\ fifo' \in Seq(Commands)
    BY <2>1
  <2>3. engine' \in [Objects -> [Rows -> Values]]
    BY <2>1, <2>2, ApplyIs DEF PluginTyped
  <2> QED BY <1>6, <2>2, <2>3 DEF DrainCommand, PluginTyped
<1>7. CASE Automate
  <2>1. PICK p \in Automated, v \in {0, 1} :
           /\ todo' = [todo EXCEPT ![p] = v] /\ ctl' = [ctl EXCEPT ![p] = v]
           /\ edited' = edited \ {p}
    BY <1>7 DEF Automate
  <2>2. v \in Halves /\ fresh' = FALSE
    BY <1>7 DEF Halves, Automate
  <2>3. /\ todo' \in [Params -> Halves \cup {None}] /\ ctl' \in [Params -> Halves]
        /\ edited' \subseteq Params
    BY <2>1, <2>2 DEF PluginTyped
  <2> QED BY <1>7, <2>2, <2>3 DEF Automate, PluginTyped
<1>8. CASE Life
  <2>1. wired' \in BOOLEAN /\ connected' \in BOOLEAN
    BY <1>8 DEF Life, Activate, Deactivate, Connect, PluginTyped
  <2> QED BY <1>8, <2>1 DEF Life, Activate, Deactivate, Connect, PluginTyped
<1>9. CASE Save
  <2>1. Saved \in Files
    BY DEF Saved, Files, PluginTyped
  <2> QED BY <1>9, <2>1 DEF Save, PluginTyped
<1>10. CASE BeginLoad
  <2>1. PICK g \in Variants(file) :
              /\ file \in Files
              /\ fresh' = (g = file)
              /\ \/ ui' = <<>> /\ ctl' = ctl /\ edited' = edited
                 \/ /\ ctl' = [p \in Params |-> Clamped(CoreOf(g)[p])]
                    /\ edited' = {} /\ ui' \in Seq(LoadSteps)
    BY <1>10, BeginLoadIs
  <2>2. ctl' \in [Params -> Halves] /\ edited' \subseteq Params /\ ui' \in Seq(LoadSteps)
    <3>1. CoreOf(g) \in [Params -> Values]
      BY <2>1, VariantIs
    <3>2. <<>> \in Seq(LoadSteps)
      OBVIOUS
    <3> DEFINE shown == [p \in Params |-> Clamped(CoreOf(g)[p])]
    <3>3. shown \in [Params -> Halves]
      BY <3>1, ClampIs
    <3>4. ctl \in [Params -> Halves] /\ edited \subseteq Params
      BY DEF PluginTyped
    <3> HIDE DEF shown
    <3>5. \/ ui' = <<>> /\ ctl' = ctl /\ edited' = edited
          \/ ctl' = shown /\ edited' = {} /\ ui' \in Seq(LoadSteps)
      BY <2>1 DEF shown
    <3>6. CASE ui' = <<>> /\ ctl' = ctl /\ edited' = edited
      BY <3>2, <3>4, <3>6
    <3>7. CASE ctl' = shown /\ edited' = {} /\ ui' \in Seq(LoadSteps)
      BY <3>3, <3>7
    <3> QED BY <3>5, <3>6, <3>7
  <2>3. fresh' \in BOOLEAN
    BY <2>1
  <2> QED BY <1>10, <2>2, <2>3 DEF BeginLoad, PluginTyped
<1>11. CASE StoreLoaded
  <2>1. ui' \in Seq(LoadSteps) /\ norm' \in [Params -> Values]
    BY <1>11, StoreLoadedIs DEF PluginTyped
  <2> QED BY <1>11, <2>1 DEF StoreLoaded, PluginTyped
<1>12. CASE DispatchLoaded
  <2>1. ui' \in Seq(LoadSteps) /\ ui[1][2] \in Params /\ ui[1][3] \in Values
    BY <1>12, DispatchLoadedIs
  <2>2. fifo' \in Seq(Commands) /\ lost' \in BOOLEAN /\ known' \subseteq RowFields
    BY <1>12, <2>1, DispatchIs DEF DispatchLoaded
  <2> QED BY <1>12, <2>1, <2>2 DEF DispatchLoaded, PluginTyped
<1>13. CASE Synchronise
  <2>1. ctl' \in [Params -> Halves] /\ linked' \in BOOLEAN
    BY <1>13, ClampIs DEF Synchronise, PluginTyped
  <2> QED BY <1>13, <2>1 DEF Synchronise, PluginTyped
<1>14. CASE Receive
  <2>1. /\ fromOsc' \in Seq(Commands) /\ Len(fromOsc') <= RingCap
        /\ edits' \in Seq(Params \X Halves) /\ lost' \in BOOLEAN
    BY <1>14, ReceiveIs
  <2> QED BY <1>14, <2>1 DEF Receive, PluginTyped
<1>15. CASE DrainEdits
  <2>1. todo' \in [Params -> Halves \cup {None}] /\ edited' \subseteq Params
    BY <1>15, DrainEditsIs DEF PluginTyped
  <2>2. edits' \in Seq(Params \X Halves)
    BY <1>15 DEF DrainEdits
  <2> QED BY <1>15, <2>1, <2>2 DEF DrainEdits, PluginTyped
<1> QED BY <1>1, <1>2, <1>3, <1>4, <1>5, <1>6, <1>7, <1>8, <1>9, <1>10, <1>11, <1>12, <1>13,
           <1>14, <1>15 DEF PluginNext, Process, Load, Life

LEMMA StepPhases ==
    ASSUME ~LoadsWhileAudio, PluginTyped, Phases, [PluginNext]_pluginVars
    PROVE  Phases'
<1> USE DEF hostVars, lifeVars, pluginGhosts
<1>0. "idle" \notin Params /\ "changes" \notin Params /\ "drain" \notin Params
  BY DEF Params
<1>1. CASE UNCHANGED <<norm, batch, audio, ui>>
  BY <1>1 DEF Phases, Loading
<1>2. CASE BeginBlock
  <2>1. ~Loading /\ audio' = "changes" /\ UNCHANGED <<ui, norm>>
    BY <1>2 DEF BeginBlock
  <2>2. DOMAIN ui = {}
    BY <2>1 DEF Loading
  <2> QED BY <1>0, <2>1, <2>2 DEF Phases, Loading
<1>3. CASE StoreChange
  <2>1. PICK p \in Params : batch[p] # None /\ norm' = [norm EXCEPT ![p] = batch[p]] /\ audio' = p
    BY <1>3 DEF StoreChange
  <2>2. audio = "changes" /\ UNCHANGED <<batch, ui>>
    BY <1>3 DEF StoreChange
  <2>3. ui = <<>> /\ DOMAIN ui = {}
    BY <2>2 DEF Phases, Loading
  <2>4. norm'[p] = batch[p]
    BY <2>1 DEF PluginTyped
  <2> QED BY <1>0, <2>1, <2>2, <2>3, <2>4 DEF Phases, Loading
<1>4. CASE DispatchChange
  <2>1. audio \in Params /\ audio' = "changes" /\ UNCHANGED <<ui, norm>>
    BY <1>4 DEF DispatchChange
  <2>2. ui = <<>> /\ DOMAIN ui = {}
    BY <1>0, <2>1 DEF Phases, Loading
  <2> QED BY <1>0, <2>1, <2>2 DEF Phases, Loading
<1>5. CASE Render \/ EndBlock
  <2>1. audio \in {"changes", "drain"} /\ audio' \in {"idle", "drain"} /\ batch = NoChange
        /\ UNCHANGED <<ui, norm, batch>>
    BY <1>5 DEF Render, EndBlock, Phases
  <2>2. ui = <<>> /\ DOMAIN ui = {}
    BY <2>1 DEF Phases, Loading
  <2> QED BY <1>0, <2>1, <2>2 DEF Phases, Loading
<1>6. CASE BeginLoad
  <2>1. audio = "idle" /\ UNCHANGED <<norm, batch, audio>>
    BY <1>6 DEF BeginLoad
  <2>2. CASE ui' = <<>>
    <3>1. DOMAIN ui' = {}
      BY <2>2
    <3> QED BY <1>0, <2>1, <2>2, <3>1 DEF Phases, Loading
  <2>3. CASE /\ DOMAIN ui' = 1 .. 8
             /\ \A i \in 1 .. 8 : ui'[i][1] = "store" /\ ui'[i][2] = Core[i]
    BY <1>0, <2>1, <2>3, CoreIs DEF Phases, Loading
  <2> QED BY <1>6, <2>2, <2>3, BeginLoadIs
<1>7. CASE StoreLoaded
  <2> DEFINE p == ui[1][2]
             v == ui[1][3]
  <2>1. /\ UNCHANGED <<batch, audio>> /\ audio = "idle" /\ Loading
    BY <1>7 DEF StoreLoaded, Phases
  <2>2. /\ DOMAIN ui' = DOMAIN ui /\ 1 \in DOMAIN ui
        /\ \A i \in DOMAIN ui : /\ ui'[i][2] = ui[i][2] /\ ui'[i][3] = ui[i][3]
                                /\ i # 1 => ui'[i][1] = ui[i][1]
        /\ p \in Params /\ norm' = [norm EXCEPT ![p] = v]
    BY <1>7, StoreLoadedIs
  <2>3. DOMAIN ui \subseteq Nat /\ \A i \in DOMAIN ui : i # 1 => i > 1
    BY <2>1, LoadHead
  <2>4. \A i \in DOMAIN ui' : i > 1 => ui'[i][1] = "store"
    BY <2>2, <2>3 DEF Phases
  <2>5. \A i, j \in DOMAIN ui' : ui'[i][2] = ui'[j][2] => i = j
    BY <2>2 DEF Phases
  <2>6. \A i \in DOMAIN ui' : ui'[i][1] = "dispatch" => i = 1
    BY <2>2, <2>3, <2>4
  <2>7. norm'[p] = v
    BY <2>2 DEF PluginTyped
  <2>8. \A i \in DOMAIN ui' : ui'[i][1] = "dispatch" => norm'[ui'[i][2]] = ui'[i][3]
    BY <2>2, <2>6, <2>7
  <2> QED BY <1>0, <2>1, <2>4, <2>5, <2>8 DEF Phases, Loading
<1>8. CASE DispatchLoaded
  <2>1. UNCHANGED <<norm, batch, audio>> /\ audio = "idle"
    BY <1>8 DEF DispatchLoaded, Phases
  <2>2. \A i \in DOMAIN ui' : i \in Nat /\ i + 1 \in DOMAIN ui /\ i + 1 > 1 /\ ui'[i] = ui[i + 1]
    BY <1>8, DispatchLoadedIs
  <2>3. \A i \in DOMAIN ui' : ui'[i][1] = "store"
    BY <2>2 DEF Phases
  <2>4. \A i, j \in DOMAIN ui' : ui'[i][2] = ui'[j][2] => i = j
    <3> SUFFICES ASSUME NEW i \in DOMAIN ui', NEW j \in DOMAIN ui', ui'[i][2] = ui'[j][2]
                 PROVE  i = j
      OBVIOUS
    <3>1. i + 1 = j + 1
      BY <2>2 DEF Phases
    <3> QED BY <2>2, <3>1
  <2> QED BY <1>0, <2>1, <2>3, <2>4 DEF Phases, Loading
<1> QED BY <1>1, <1>2, <1>3, <1>4, <1>5, <1>6, <1>7, <1>8
        DEF PluginNext, Process, Load, pluginVars, DrainCommand, Automate, Activate, Deactivate,
            Connect, Save, Synchronise, Receive, DrainEdits

-----------------------------------------------------------------------------
(* The controller and the file.                                             *)

\* A store leaves one parameter less to store, a dispatch leaves as many.
LEMMA StoreLoadedPending ==
    ASSUME PluginTyped, Phases, StoreLoaded
    PROVE  /\ \A q \in Params : ToStore(q)' <=> ToStore(q) /\ q # ui[1][2]
           /\ \A q \in Params : ToLoad(q)' <=> ToLoad(q)
<1>1. /\ DOMAIN ui' = DOMAIN ui /\ 1 \in DOMAIN ui
      /\ ui[1][1] = "store" /\ ui'[1][1] = "dispatch"
      /\ \A i \in DOMAIN ui : /\ ui'[i][2] = ui[i][2]
                              /\ i # 1 => ui'[i][1] = ui[i][1]
  BY StoreLoadedIs
<1>2. \A i \in DOMAIN ui : ui[i][2] = ui[1][2] => i = 1
  BY <1>1 DEF Phases
<1> QED BY <1>1, <1>2 DEF ToStore, ToLoad

LEMMA DispatchLoadedPending ==
    ASSUME PluginTyped, Phases, DispatchLoaded
    PROVE  /\ \A q \in Params : ToStore(q)' <=> ToStore(q)
           /\ \A q \in Params : q # ui[1][2] => (ToLoad(q)' <=> ToLoad(q))
<1>1. /\ ui[1][1] = "dispatch"
      /\ \A i \in DOMAIN ui' : i + 1 \in DOMAIN ui /\ ui'[i] = ui[i + 1]
      /\ \A i \in DOMAIN ui : i # 1 => \E j \in DOMAIN ui' : ui'[j] = ui[i]
  BY DispatchLoadedIs
<1> QED BY <1>1 DEF ToStore, ToLoad

LEMMA StepController ==
    ASSUME ~LoadsWhileAudio, PluginTyped, Phases, ControllerInv, [PluginNext]_pluginVars
    PROVE  ControllerInv'
<1> USE DEF hostVars, lifeVars, pluginGhosts
<1>0. /\ norm \in [Params -> Values] /\ ctl \in [Params -> Halves]
      /\ batch \in [Params -> Halves \cup {None}] /\ todo \in [Params -> Halves \cup {None}]
      /\ None \notin Halves /\ \A p \in Params : NoChange[p] = None
      /\ \A v \in Halves : Clamped(v) = v
  BY FieldsAre, ClampIs DEF PluginTyped
<1>1. CASE UNCHANGED <<norm, ctl, todo, batch, ui, linked, edited>>
  BY <1>1 DEF ControllerInv, ToStore
<1>2. CASE BeginBlock
  <2>1. batch = NoChange /\ batch' = todo /\ todo' = NoChange /\ UNCHANGED <<norm, ctl, ui, linked, edited>>
    BY <1>2 DEF BeginBlock, Phases
  <2> QED BY <1>0, <2>1 DEF ControllerInv, ToStore
<1>3. CASE StoreChange
  <2>1. PICK p \in Params : batch[p] # None /\ norm' = [norm EXCEPT ![p] = batch[p]]
    BY <1>3 DEF StoreChange
  <2>2. UNCHANGED <<ctl, todo, batch, ui, linked, edited>>
    BY <1>3 DEF StoreChange
  <2> QED BY <1>0, <2>1, <2>2 DEF ControllerInv, ToStore
<1>4. CASE DispatchChange
  <2>1. /\ audio \in Params /\ batch' = [batch EXCEPT ![audio] = None]
        /\ batch[audio] # None /\ norm[audio] = batch[audio]
        /\ UNCHANGED <<norm, ctl, todo, ui, linked, edited>>
    BY <1>4 DEF DispatchChange, Phases
  <2>2. \A p \in Params : p # audio => batch'[p] = batch[p]
    BY <1>0, <2>1
  <2>3. batch'[audio] = None
    BY <1>0, <2>1
  <2> QED BY <1>0, <2>1, <2>2, <2>3 DEF ControllerInv, ToStore
<1>5. CASE Automate
  <2>1. PICK p \in Automated, v \in {0, 1} :
           /\ todo' = [todo EXCEPT ![p] = v] /\ ctl' = [ctl EXCEPT ![p] = v]
           /\ edited' = edited \ {p}
    BY <1>5 DEF Automate
  <2>2. UNCHANGED <<norm, batch, ui, linked>> /\ ui = <<>> /\ DOMAIN ui = {}
    BY <1>5 DEF Automate, HostMay, Loading
  <2>3. p \in Params /\ v # None /\ todo'[p] = v /\ ctl'[p] = v
        /\ \A q \in Params : q # p => todo'[q] = todo[q] /\ ctl'[q] = ctl[q]
    BY <1>0, <2>1, AutomatedAssumption DEF None
  <2>4. \A q \in Params \ edited' : q # p => q \in Params \ edited
    BY <2>1
  <2> QED BY <1>0, <2>1, <2>2, <2>3, <2>4 DEF ControllerInv, ToStore
<1>6. CASE BeginLoad
  <2>1. UNCHANGED <<norm, batch, todo, linked>> /\ batch = NoChange
    BY <1>6 DEF BeginLoad, Phases
  <2>2. PICK g \in Variants(file) :
              /\ file \in Files /\ todo = NoChange
              /\ \/ ui' = ui /\ ctl' = ctl /\ edited' = edited
                 \/ /\ ctl' = [p \in Params |-> Clamped(CoreOf(g)[p])]
                    /\ edited' = {} /\ DOMAIN ui' = 1 .. 8
                    /\ \A i \in 1 .. 8 : /\ ui'[i][1] = "store" /\ ui'[i][2] = Core[i]
                                         /\ ui'[i][3] = CoreOf(g)[Core[i]]
    BY <1>6, BeginLoadIs
  <2>3. CASE ui' = ui /\ ctl' = ctl /\ edited' = edited
    BY <1>1, <2>1, <2>3
  <2>4. CASE /\ ctl' = [p \in Params |-> Clamped(CoreOf(g)[p])]
             /\ edited' = {} /\ DOMAIN ui' = 1 .. 8
             /\ \A i \in 1 .. 8 : /\ ui'[i][1] = "store" /\ ui'[i][2] = Core[i]
                                  /\ ui'[i][3] = CoreOf(g)[Core[i]]
    <3>1. \A p \in Params : ToStore(p)'
      BY <2>4, CoreIs DEF ToStore
    <3>2. \A i \in DOMAIN ui' : Clamped(ui'[i][3]) = ctl'[ui'[i][2]]
      BY <2>4, CoreIs
    <3>3. \A p \in Params : todo'[p] = None /\ batch'[p] = None
      BY <1>0, <2>1, <2>2
    <3> QED BY <3>1, <3>2, <3>3 DEF ControllerInv
  <2> QED BY <2>2, <2>3, <2>4
<1>7. CASE StoreLoaded
  <2> DEFINE p == ui[1][2]
             v == ui[1][3]
  <2>1. UNCHANGED <<ctl, todo, batch, linked, edited>>
    BY <1>7 DEF StoreLoaded
  <2>2. /\ DOMAIN ui' = DOMAIN ui /\ 1 \in DOMAIN ui
        /\ \A i \in DOMAIN ui : ui'[i][2] = ui[i][2] /\ ui'[i][3] = ui[i][3]
        /\ p \in Params /\ norm' = [norm EXCEPT ![p] = v]
    BY <1>7, StoreLoadedIs
  <2>3. Clamped(v) = ctl[p] /\ norm'[p] = v /\ \A q \in Params : q # p => norm'[q] = norm[q]
    BY <1>0, <2>2 DEF ControllerInv
  <2>4. \A q \in Params : ToStore(q)' <=> ToStore(q) /\ q # p
    BY <1>7, StoreLoadedPending
  <2>5. \A i \in DOMAIN ui' : Clamped(ui'[i][3]) = ctl'[ui'[i][2]]
    BY <2>1, <2>2 DEF ControllerInv
  <2> HIDE DEF p, v
  <2> QED BY <2>1, <2>3, <2>4, <2>5 DEF ControllerInv
<1>8. CASE DispatchLoaded
  <2>1. UNCHANGED <<norm, ctl, todo, batch, linked, edited>>
    BY <1>8 DEF DispatchLoaded
  <2>2. \A i \in DOMAIN ui' : i + 1 \in DOMAIN ui /\ ui'[i] = ui[i + 1]
    BY <1>8, DispatchLoadedIs
  <2>3. \A q \in Params : ToStore(q)' <=> ToStore(q)
    BY <1>8, DispatchLoadedPending
  <2>4. \A i \in DOMAIN ui' : Clamped(ui'[i][3]) = ctl'[ui'[i][2]]
    BY <2>1, <2>2 DEF ControllerInv
  <2> QED BY <2>1, <2>3, <2>4 DEF ControllerInv
<1>9. CASE Synchronise
  <2>1. /\ ctl' = [p \in Params |-> IF todo[p] = None /\ batch[p] = None THEN Clamped(norm[p])
                                 ELSE ctl[p]]
        /\ ui = <<>> /\ DOMAIN ui = {} /\ UNCHANGED <<norm, todo, batch, ui, edited>>
    BY <1>9 DEF Synchronise, Loading
  <2> QED BY <1>0, <2>1 DEF ControllerInv, ToStore
<1>10. CASE DrainEdits
  <2>1. UNCHANGED <<norm, ctl, batch, ui, linked>>
    BY <1>10 DEF DrainEdits
  <2>2. /\ \A p \in Params : ~InEdits(p) => todo'[p] = todo[p]
        /\ edited' = edited \cup {p \in Params : InEdits(p)}
    BY <1>10, DrainEditsIs DEF PluginTyped
  <2>3. \A p \in Params \ edited' : p \notin edited /\ todo'[p] = todo[p]
    BY <2>2
  <2> QED BY <2>1, <2>3 DEF ControllerInv, ToStore
<1> QED BY <1>1, <1>2, <1>3, <1>4, <1>5, <1>6, <1>7, <1>8, <1>9, <1>10
        DEF PluginNext, Process, Load, pluginVars, Render, DrainCommand, EndBlock, Activate,
            Deactivate, Connect, Save, Receive

LEMMA StepReload ==
    ASSUME ~LoadsWhileAudio, PluginTyped, Phases, ReloadInv, [PluginNext]_pluginVars
    PROVE  ReloadInv'
<1> USE DEF hostVars, lifeVars, pluginGhosts
<1>0. /\ norm \in [Params -> Values] /\ None \notin Halves /\ \A p \in Params : NoChange[p] = None
  BY FieldsAre DEF PluginTyped
<1>1. CASE UNCHANGED <<fresh, file, norm, todo, batch, ui>>
  BY <1>1 DEF ReloadInv, ToStore
<1>2. CASE BeginBlock
  <2>1. batch' = todo /\ todo' = NoChange /\ UNCHANGED <<norm, file, ui, fresh>>
    BY <1>2 DEF BeginBlock
  <2> QED BY <2>1 DEF ReloadInv, ToStore
<1>3. CASE StoreChange
  <2>1. batch # NoChange /\ UNCHANGED fresh
    BY <1>0, <1>3 DEF StoreChange
  <2> QED BY <2>1 DEF ReloadInv
<1>4. CASE DispatchChange
  <2>1. batch # NoChange /\ UNCHANGED fresh
    BY <1>0, <1>4 DEF DispatchChange, Phases
  <2> QED BY <2>1 DEF ReloadInv
<1>5. CASE Automate \/ Receive \/ DrainEdits
  BY <1>5 DEF ReloadInv, Automate, Receive, DrainEdits
<1>6. CASE Save
  <2>1. file' = Saved /\ ui = <<>> /\ UNCHANGED <<norm, todo, batch, ui, fresh>> /\ DOMAIN ui = {}
    BY <1>6 DEF Save, HostMay, Loading
  <2>2. Saved \in Files /\ Saved.core = norm
    BY <1>0 DEF Saved, Files
  <2> QED BY <2>1, <2>2 DEF ReloadInv
<1>7. CASE BeginLoad
  <2>1. UNCHANGED <<norm, batch, todo, file>> /\ batch = NoChange
    BY <1>7 DEF BeginLoad, Phases
  <2>2. PICK g \in Variants(file) :
              /\ file \in Files /\ todo = NoChange /\ fresh' = (g = file)
              /\ \/ ~Readable(g)
                 \/ /\ DOMAIN ui' = 1 .. 8
                    /\ \A i \in 1 .. 8 : /\ ui'[i][1] = "store" /\ ui'[i][2] = Core[i]
                                         /\ ui'[i][3] = CoreOf(g)[Core[i]]
    BY <1>7, BeginLoadIs
  <2>3. CASE g # file
    BY <2>2, <2>3 DEF ReloadInv
  <2>4. CASE g = file
    <3>1. Readable(g) /\ CoreOf(g) = file.core
      BY <2>2, <2>4, VariantIs
    <3>2. /\ DOMAIN ui' = 1 .. 8
          /\ \A i \in 1 .. 8 : /\ ui'[i][1] = "store" /\ ui'[i][2] = Core[i]
                               /\ ui'[i][3] = file.core[Core[i]]
      BY <2>2, <3>1
    <3>3. \A p \in Params : ToStore(p)'
      BY <3>2, CoreIs DEF ToStore
    <3> QED BY <2>1, <2>2, <3>2, <3>3 DEF ReloadInv
  <2> QED BY <2>3, <2>4
<1>8. CASE StoreLoaded
  <2> DEFINE p == ui[1][2]
             v == ui[1][3]
  <2>1. UNCHANGED <<file, todo, batch, fresh>>
    BY <1>8 DEF StoreLoaded
  <2>2. /\ DOMAIN ui' = DOMAIN ui /\ 1 \in DOMAIN ui
        /\ \A i \in DOMAIN ui : ui'[i][2] = ui[i][2] /\ ui'[i][3] = ui[i][3]
        /\ p \in Params /\ norm' = [norm EXCEPT ![p] = v]
    BY <1>8, StoreLoadedIs
  <2>3. norm'[p] = v /\ \A q \in Params : q # p => norm'[q] = norm[q]
    BY <1>0, <2>2
  <2>4. \A q \in Params : ToStore(q)' <=> ToStore(q) /\ q # p
    BY <1>8, StoreLoadedPending
  <2>5. fresh => v = file.core[p]
    BY <2>2 DEF ReloadInv
  <2>6. fresh => \A i \in DOMAIN ui' : ui'[i][3] = file'.core[ui'[i][2]]
    BY <2>1, <2>2 DEF ReloadInv
  <2> HIDE DEF p, v
  <2> QED BY <2>1, <2>3, <2>4, <2>5, <2>6 DEF ReloadInv
<1>9. CASE DispatchLoaded
  <2>1. UNCHANGED <<norm, file, todo, batch, fresh>>
    BY <1>9 DEF DispatchLoaded
  <2>2. \A i \in DOMAIN ui' : i + 1 \in DOMAIN ui /\ ui'[i] = ui[i + 1]
    BY <1>9, DispatchLoadedIs
  <2>3. \A q \in Params : ToStore(q)' <=> ToStore(q)
    BY <1>9, DispatchLoadedPending
  <2>4. fresh => \A i \in DOMAIN ui' : ui'[i][3] = file'.core[ui'[i][2]]
    BY <2>1, <2>2 DEF ReloadInv
  <2> QED BY <2>1, <2>3, <2>4 DEF ReloadInv
<1> QED BY <1>1, <1>2, <1>3, <1>4, <1>5, <1>6, <1>7, <1>8, <1>9
        DEF PluginNext, Process, Load, pluginVars, Render, DrainCommand, EndBlock, Activate,
            Deactivate, Connect, Synchronise

-----------------------------------------------------------------------------
(* The engine.                                                              *)

OscAnswered ==
    \A i \in DOMAIN fromOsc, p \in RowFields :
       Sets(fromOsc[i], p) => InEdits(p) \/ todo[p] # None \/ EditsOf(fromOsc[i]) = <<>>

\* A dispatch of p leaves what it sets settled and the rest as it was.
LEMMA SettledByDispatch ==
    ASSUME PluginTyped, NEW p \in Params, NEW v \in Values, v = norm[p],
           Enqueue(CommandOf(p, v)), known' = known \cup FieldsOf(CommandOf(p, v)),
           norm' = norm, engine' = engine, ~lost', NEW q \in known'
    PROVE  /\ q = p => Settled(q)'
           /\ q # p => Settled(q)' \/ (q \in known /\ (Settled(q) => Settled(q)'))
<1>1. fifo \in Seq(Commands) /\ known \subseteq RowFields
  BY DEF PluginTyped
<1>2. CASE p \notin RowFields
  <2>1. known' = known /\ fifo' = fifo \o <<>>
    BY <1>2, DispatchIs
  <2>2. <<>> \in Seq(Commands) /\ DOMAIN <<>> = {}
    OBVIOUS
  <2>3. Settled(q) => Settled(q)'
    BY <1>1, <2>1, <2>2, SettledByOthers
  <2> QED BY <1>1, <1>2, <2>1, <2>3
<1>3. CASE p \in RowFields
  <2>0. \E c \in Commands :
           /\ c.obj = 0 /\ p \in DOMAIN c.set /\ c.set[p] = Sounds(p, v)
           /\ \A x \in DOMAIN c.set \cap Params : x # p => c.set[x] = Sounds(x, norm[x])
           /\ known' = known \cup (DOMAIN c.set \cap Params)
           /\ ~lost' => fifo' = fifo \o <<c>>
    BY <1>3, DispatchIs
  <2>1. PICK c \in Commands :
           /\ c.obj = 0 /\ p \in DOMAIN c.set /\ c.set[p] = Sounds(p, v)
           /\ \A x \in DOMAIN c.set \cap Params : x # p => c.set[x] = Sounds(x, norm[x])
           /\ known' = known \cup (DOMAIN c.set \cap Params)
           /\ fifo' = fifo \o <<c>>
    BY <2>0
  <2>2. q \in Params
    BY <1>1, <2>1, FieldsAre
  <2>3. CASE q \in DOMAIN c.set
    <3>1. Sets(c, q) /\ c.set[q] = Sounds(q, norm'[q])
      BY <2>1, <2>2, <2>3 DEF Sets
    <3>2. Settled(q)'
      BY <1>1, <2>1, <3>1, SettledByCommand
    <3> QED BY <3>2
  <2>4. CASE q \notin DOMAIN c.set
    <3>1. q # p /\ q \in known /\ ~Sets(c, q)
      BY <2>1, <2>4 DEF Sets
    <3>2. <<c>> \in Seq(Commands) /\ DOMAIN <<c>> = {1} /\ <<c>>[1] = c
      OBVIOUS
    <3>3. \A i \in DOMAIN <<c>> : ~Sets(<<c>>[i], q)
      BY <3>1, <3>2
    <3>4. Settled(q) => Settled(q)'
      BY <1>1, <2>1, <3>2, <3>3, SettledByOthers
    <3> QED BY <3>1, <3>4
  <2> QED BY <2>3, <2>4
<1> QED BY <1>2, <1>3

LEMMA StepEngine ==
    ASSUME ~LoadsWhileAudio, PluginTyped, Phases, EngineInv, [PluginNext]_pluginVars
    PROVE  EngineInv'
<1> USE DEF hostVars, lifeVars, pluginGhosts
<1>0. /\ norm \in [Params -> Values] /\ fifo \in Seq(Commands) /\ known \subseteq RowFields
      /\ batch \in [Params -> Halves \cup {None}] /\ todo \in [Params -> Halves \cup {None}]
      /\ None \notin Halves /\ Halves \subseteq Values /\ RowFields \subseteq Params
      /\ \A p \in Params : NoChange[p] = None
  BY FieldsAre DEF PluginTyped
<1>a. ~lost => OscAnswered /\ \A p \in known : Awaited(p) \/ Settled(p)
  BY DEF EngineInv, OscAnswered
<1>b. ASSUME ~lost' => OscAnswered' /\ \A p \in known' : Awaited(p)' \/ Settled(p)'
      PROVE  EngineInv'
  BY <1>b DEF EngineInv, OscAnswered
<1>1. CASE UNCHANGED <<norm, engine, fifo, fromOsc, edits, todo, batch, ui, known, lost>>
  BY <1>1 DEF EngineInv, InEdits, Awaited, ToLoad, Settled
<1>2. CASE BeginBlock
  <2>1. /\ batch = NoChange /\ batch' = todo /\ todo' = NoChange /\ fromOsc' = <<>>
        /\ known' = known \ Unechoed(fromOsc) /\ UNCHANGED <<norm, engine, edits, ui>>
    BY <1>2 DEF BeginBlock, Phases
  <2>2. ~lost' => ~lost /\ fifo' = fifo \o fromOsc
    BY <1>2, EnqueueIs DEF BeginBlock, PluginTyped
  <2>3. OscAnswered'
    <3>1. DOMAIN fromOsc' = {}
      BY <2>1
    <3> QED BY <3>1 DEF OscAnswered
  <2>4. ASSUME ~lost', NEW p \in known' PROVE Awaited(p)' \/ Settled(p)'
    <3>1. p \in known /\ p \notin Unechoed(fromOsc) /\ p \in Params /\ p \in RowFields /\ ~lost
      BY <1>0, <2>1, <2>2, <2>4
    <3>2. CASE InEdits(p) \/ todo[p] # None \/ ToLoad(p)
      BY <2>1, <3>2 DEF Awaited, InEdits, ToLoad
    <3>3. CASE ~InEdits(p) /\ todo[p] = None /\ ~ToLoad(p)
      <4>1. Settled(p)
        BY <1>0, <1>a, <2>1, <3>1, <3>3 DEF Awaited
      <4>2. \A i \in DOMAIN fromOsc : ~Sets(fromOsc[i], p)
        BY <1>a, <3>1, <3>3 DEF OscAnswered, Unechoed, Sets
      <4>3. fromOsc \in Seq(Commands) /\ fifo' = fifo \o fromOsc /\ engine' = engine /\ norm'[p] = norm[p]
        BY <2>1, <2>2, <2>4 DEF PluginTyped
      <4>4. Settled(p)'
        BY <1>0, <4>1, <4>2, <4>3, SettledByOthers
      <4> QED BY <4>4
    <3> QED BY <3>2, <3>3
  <2> QED BY <1>b, <2>3, <2>4
<1>3. CASE StoreChange
  <2>1. PICK p \in Params : batch[p] # None /\ norm' = [norm EXCEPT ![p] = batch[p]]
    BY <1>3 DEF StoreChange
  <2>2. UNCHANGED <<engine, fifo, fromOsc, edits, todo, batch, ui, known, lost>>
    BY <1>3 DEF StoreChange
  <2>3. OscAnswered <=> OscAnswered'
    BY <2>2 DEF OscAnswered, InEdits
  <2>4. ASSUME ~lost, NEW q \in known PROVE Awaited(q)' \/ Settled(q)'
    <3>1. CASE Awaited(q) \/ q = p
      BY <2>1, <2>2, <3>1 DEF Awaited, InEdits, ToLoad
    <3>2. CASE ~Awaited(q) /\ q # p
      <4>1. Settled(q) /\ norm'[q] = norm[q]
        BY <1>0, <1>a, <2>1, <2>4, <3>2
      <4> QED BY <2>2, <4>1 DEF Settled
    <3> QED BY <3>1, <3>2
  <2> QED BY <1>a, <1>b, <2>2, <2>3, <2>4
<1>4. CASE DispatchChange
  <2>1. /\ audio \in Params /\ batch' = [batch EXCEPT ![audio] = None]
        /\ batch[audio] # None /\ norm[audio] = batch[audio] /\ batch[audio] \in Values
        /\ UNCHANGED <<norm, engine, fromOsc, edits, todo, ui>>
        /\ Enqueue(CommandOf(audio, batch[audio]))
        /\ known' = known \cup FieldsOf(CommandOf(audio, batch[audio]))
    BY <1>0, <1>4 DEF DispatchChange, Phases
  <2>2. ~lost' => ~lost
    BY <2>1, DispatchIs
  <2>3. OscAnswered <=> OscAnswered'
    BY <2>1 DEF OscAnswered, InEdits
  <2>4. ASSUME ~lost', NEW q \in known' PROVE Awaited(q)' \/ Settled(q)'
    <3>1. /\ q = audio => Settled(q)'
          /\ q # audio => Settled(q)' \/ (q \in known /\ (Settled(q) => Settled(q)'))
      BY <2>1, <2>4, SettledByDispatch
    <3>2. CASE q # audio /\ q \in known /\ (Settled(q) => Settled(q)')
      <4>1. batch'[q] = batch[q]
        BY <1>0, <2>1, <3>2
      <4>2. Awaited(q) => Awaited(q)'
        BY <2>1, <4>1 DEF Awaited, InEdits, ToLoad
      <4> QED BY <1>a, <2>2, <2>4, <3>2, <4>2
    <3> QED BY <3>1, <3>2
  <2> QED BY <1>a, <1>b, <2>2, <2>3, <2>4
<1>5. CASE DrainCommand
  <2>1. /\ fifo # <<>> /\ engine' = Apply(engine, Head(fifo)) /\ fifo' = Tail(fifo)
        /\ UNCHANGED <<norm, fromOsc, edits, todo, batch, ui, known, lost>>
    BY <1>5 DEF DrainCommand
  <2>2. OscAnswered <=> OscAnswered'
    BY <2>1 DEF OscAnswered, InEdits
  <2>3. \A p \in known : Awaited(p) => Awaited(p)'
    BY <2>1 DEF Awaited, InEdits, ToLoad
  <2>4. ASSUME NEW p \in known, Settled(p) PROVE Settled(p)'
    BY <1>0, <2>1, <2>4, SettledByDrain DEF PluginTyped
  <2> QED BY <1>a, <1>b, <2>1, <2>2, <2>3, <2>4
<1>6. CASE Automate
  <2>1. PICK p \in Automated, v \in {0, 1} : todo' = [todo EXCEPT ![p] = v]
    BY <1>6 DEF Automate
  <2>2. UNCHANGED <<norm, engine, fifo, fromOsc, edits, batch, ui, known, lost>>
    BY <1>6 DEF Automate
  <2>3. \A q \in Params : todo[q] # None => todo'[q] # None
    BY <1>0, <2>1 DEF None
  <2>4. OscAnswered => OscAnswered'
    BY <1>0, <2>2, <2>3 DEF OscAnswered, InEdits
  <2>5. \A q \in known : Awaited(q) => Awaited(q)'
    BY <1>0, <2>2, <2>3 DEF Awaited, InEdits, ToLoad
  <2>6. \A q \in known : Settled(q) => Settled(q)'
    BY <2>2 DEF Settled
  <2> QED BY <1>a, <1>b, <2>2, <2>4, <2>5, <2>6
<1>7. CASE BeginLoad
  <2>1. UNCHANGED <<norm, engine, fifo, fromOsc, edits, todo, batch, known, lost>>
    BY <1>7 DEF BeginLoad
  <2>2. ui = <<>> /\ DOMAIN ui = {}
    BY <1>7 DEF BeginLoad, HostMay, Loading
  <2>3. OscAnswered <=> OscAnswered'
    BY <2>1 DEF OscAnswered, InEdits
  <2>4. \A q \in known : Awaited(q) => Awaited(q)'
    BY <2>1, <2>2 DEF Awaited, InEdits, ToLoad
  <2>5. \A q \in known : Settled(q) => Settled(q)'
    BY <2>1 DEF Settled
  <2> QED BY <1>a, <1>b, <2>1, <2>3, <2>4, <2>5
<1>8. CASE StoreLoaded
  <2> DEFINE p == ui[1][2]
  <2>1. UNCHANGED <<engine, fifo, fromOsc, edits, todo, batch, known, lost>>
    BY <1>8 DEF StoreLoaded
  <2>2. p \in Params /\ 1 \in DOMAIN ui /\ norm' = [norm EXCEPT ![p] = ui[1][3]]
    BY <1>8, StoreLoadedIs
  <2>3. \A q \in Params : q # p => norm'[q] = norm[q]
    BY <1>0, <2>2
  <2>4. \A q \in Params : ToLoad(q)' <=> ToLoad(q)
    BY <1>8, StoreLoadedPending
  <2>5. ToLoad(p)
    BY <2>2 DEF ToLoad
  <2>6. OscAnswered <=> OscAnswered'
    BY <2>1 DEF OscAnswered, InEdits
  <2> HIDE DEF p
  <2>7. \A q \in known : Awaited(q) => Awaited(q)'
    BY <1>0, <2>1, <2>4 DEF Awaited, InEdits
  <2>8. \A q \in known : Settled(q) => Awaited(q)' \/ Settled(q)'
    <3> SUFFICES ASSUME NEW q \in known, Settled(q) PROVE Awaited(q)' \/ Settled(q)'
      OBVIOUS
    <3>1. CASE q = p
      BY <2>2, <2>4, <2>5, <3>1 DEF Awaited
    <3>2. CASE q # p
      <4>1. norm'[q] = norm[q]
        BY <1>0, <2>3, <3>2
      <4> QED BY <2>1, <4>1 DEF Settled
    <3> QED BY <3>1, <3>2
  <2> QED BY <1>a, <1>b, <2>1, <2>6, <2>7, <2>8
<1>9. CASE DispatchLoaded
  <2> DEFINE p == ui[1][2]
             v == ui[1][3]
  <2>1. /\ UNCHANGED <<norm, engine, fromOsc, edits, todo, batch>>
        /\ Enqueue(CommandOf(p, v)) /\ known' = known \cup FieldsOf(CommandOf(p, v))
    BY <1>9 DEF DispatchLoaded
  <2>2. p \in Params /\ v \in Values /\ 1 \in DOMAIN ui /\ ui[1][1] = "dispatch"
    BY <1>9, DispatchLoadedIs
  <2>3. v = norm[p]
    BY <2>2 DEF Phases
  <2>4. \A q \in Params : q # p => (ToLoad(q)' <=> ToLoad(q))
    BY <1>9, DispatchLoadedPending
  <2> HIDE DEF p, v
  <2>5. ~lost' => ~lost
    BY <2>1, <2>2, DispatchIs
  <2>6. OscAnswered <=> OscAnswered'
    BY <2>1 DEF OscAnswered, InEdits
  <2>7. ASSUME ~lost', NEW q \in known' PROVE Awaited(q)' \/ Settled(q)'
    <3>1. /\ q = p => Settled(q)'
          /\ q # p => Settled(q)' \/ (q \in known /\ (Settled(q) => Settled(q)'))
      BY <2>1, <2>2, <2>3, <2>7, SettledByDispatch
    <3>2. CASE q # p /\ q \in known /\ (Settled(q) => Settled(q)')
      <4>1. Awaited(q) => Awaited(q)'
        BY <1>0, <2>1, <2>4, <3>2 DEF Awaited, InEdits
      <4> QED BY <1>a, <2>5, <2>7, <3>2, <4>1
    <3> QED BY <3>1, <3>2
  <2> QED BY <1>a, <1>b, <2>5, <2>6, <2>7
<1>10. CASE Receive
  <2>1. UNCHANGED <<norm, engine, fifo, todo, batch, ui, known>>
    BY <1>10 DEF Receive
  <2>2. ASSUME ~lost'
        PROVE  OscAnswered' /\ \A p \in known' : Awaited(p)' \/ Settled(p)'
    <3>1. PICK c \in Packets : /\ ~lost /\ fromOsc' = Append(fromOsc, c)
                               /\ edits' = edits \o EditsOf(c)
      BY <1>10, <2>2, ReceiveIs
    <3> DEFINE E == Params \X Halves
               new == EditsOf(c)
    <3>2. /\ edits \in Seq(E) /\ new \in Seq(E) /\ fromOsc \in Seq(Commands) /\ c \in Commands
          /\ new = <<>> \/ \A p \in RowFields : Sets(c, p) => \E i \in DOMAIN new : new[i][1] = p
      BY EditsType DEF PluginTyped
    <3> HIDE DEF new, E
    <3>3. /\ Len(edits) \in Nat /\ Len(new) \in Nat /\ DOMAIN new = 1 .. Len(new)
          /\ DOMAIN edits = 1 .. Len(edits) /\ DOMAIN edits' = 1 .. Len(edits) + Len(new)
          /\ \A i \in 1 .. Len(edits) + Len(new) :
                edits'[i] = IF i <= Len(edits) THEN edits[i] ELSE new[i - Len(edits)]
      <4>1. edits' = edits \o new
        BY <3>1 DEF new
      <4> QED BY <3>2, <4>1, ConcatProperties
    <3>4. \A p : InEdits(p) => InEdits(p)'
      <4> SUFFICES ASSUME NEW p, NEW i \in DOMAIN edits, edits[i][1] = p PROVE InEdits(p)'
        BY DEF InEdits
      <4>1. i \in DOMAIN edits' /\ edits'[i] = edits[i]
        BY <3>3
      <4> QED BY <4>1 DEF InEdits
    <3>5. new = <<>> \/ \A p \in RowFields : Sets(c, p) => InEdits(p)'
      <4> SUFFICES ASSUME new # <<>>, NEW p \in RowFields, Sets(c, p) PROVE InEdits(p)'
        OBVIOUS
      <4>1. PICK i \in DOMAIN new : new[i][1] = p
        BY <3>2
      <4>2. Len(edits) + i \in DOMAIN edits' /\ edits'[Len(edits) + i] = new[i]
        <5>1. /\ Len(edits) + i \in 1 .. Len(edits) + Len(new)
              /\ ~(Len(edits) + i <= Len(edits)) /\ (Len(edits) + i) - Len(edits) = i
          BY <3>3
        <5> QED BY <3>3, <5>1
      <4> QED BY <4>1, <4>2 DEF InEdits
    <3>6. \A i \in DOMAIN fromOsc' : fromOsc'[i] = c \/ (i \in DOMAIN fromOsc /\ fromOsc'[i] = fromOsc[i])
      <4>1. /\ Len(fromOsc) \in Nat /\ DOMAIN fromOsc = 1 .. Len(fromOsc)
            /\ DOMAIN fromOsc' = 1 .. Len(fromOsc) + 1
            /\ fromOsc'[Len(fromOsc) + 1] = c
            /\ \A i \in 1 .. Len(fromOsc) : fromOsc'[i] = fromOsc[i]
        BY <3>1, <3>2, AppendProperties
      <4> SUFFICES ASSUME NEW i \in DOMAIN fromOsc'
                   PROVE  fromOsc'[i] = c \/ (i \in DOMAIN fromOsc /\ fromOsc'[i] = fromOsc[i])
        OBVIOUS
      <4>2. i \in 1 .. Len(fromOsc) \/ i = Len(fromOsc) + 1
        BY <4>1
      <4> QED BY <4>1, <4>2
    <3>7. OscAnswered'
      <4> SUFFICES ASSUME NEW i \in DOMAIN fromOsc', NEW p \in RowFields, Sets(fromOsc'[i], p)
                   PROVE  InEdits(p)' \/ todo'[p] # None \/ EditsOf(fromOsc'[i]) = <<>>
        BY DEF OscAnswered, Sets, EditsOf
      <4>1. CASE fromOsc'[i] = c
        BY <3>5, <4>1 DEF new
      <4>2. CASE i \in DOMAIN fromOsc /\ fromOsc'[i] = fromOsc[i]
        BY <1>a, <2>1, <3>1, <3>4, <4>2 DEF OscAnswered
      <4> QED BY <3>6, <4>1, <4>2
    <3>8. \A p \in known' : Awaited(p)' \/ Settled(p)'
      <4> SUFFICES ASSUME NEW p \in known PROVE Awaited(p)' \/ Settled(p)'
        BY <2>1
      <4>1. Awaited(p) => Awaited(p)'
        BY <2>1, <3>4 DEF Awaited, ToLoad
      <4>2. Settled(p) => Settled(p)'
        BY <2>1 DEF Settled
      <4> QED BY <1>a, <3>1, <4>1, <4>2
    <3> QED BY <3>7, <3>8
  <2> QED BY <1>b, <2>2
<1>11. CASE DrainEdits
  <2>1. UNCHANGED <<norm, engine, fifo, fromOsc, batch, ui, known, lost>>
    BY <1>11 DEF DrainEdits
  <2>2. \A p \in Params : InEdits(p) \/ todo[p] # None => todo'[p] # None
    BY <1>0, <1>11, DrainEditsIs DEF PluginTyped
  <2>3. OscAnswered => OscAnswered'
    BY <1>0, <2>1, <2>2 DEF OscAnswered
  <2>4. \A p \in known : Awaited(p) => Awaited(p)'
    BY <1>0, <2>1, <2>2 DEF Awaited, ToLoad
  <2>5. \A p \in known : Settled(p) => Settled(p)'
    BY <2>1 DEF Settled
  <2> QED BY <1>a, <1>b, <2>1, <2>3, <2>4, <2>5
<1> QED BY <1>1, <1>2, <1>3, <1>4, <1>5, <1>6, <1>7, <1>8, <1>9, <1>10, <1>11
        DEF PluginNext, Process, Load, pluginVars, Render, EndBlock, Activate, Deactivate, Connect,
            Save, Synchronise

-----------------------------------------------------------------------------
LEMMA PluginStep ==
    ASSUME ~LoadsWhileAudio, PluginInv, [PluginNext]_pluginVars
    PROVE  PluginInv'
BY StepTyped, StepPhases, StepController, StepReload, StepEngine DEF PluginInv

LEMMA PluginAlways ==
    ASSUME ~LoadsWhileAudio
    PROVE  PluginSpec => []PluginInv
BY PluginStarts, PluginStep, PTL DEF PluginSpec

\* Nothing under way, every pending change has been dispatched.
LEMMA QuietSettles ==
    ASSUME PluginInv, Quiet
    PROVE  /\ fifo = <<>> /\ edits = <<>> /\ todo = NoChange /\ batch = NoChange /\ ui = <<>>
           /\ \A p \in Params : /\ todo[p] = None /\ batch[p] = None
                                /\ ~InEdits(p) /\ ~ToLoad(p) /\ ~ToStore(p)
<1>1. fifo = <<>> /\ edits = <<>> /\ todo = NoChange /\ ui = <<>> /\ audio = "idle"
  BY DEF Quiet, Loading
<1>2. batch = NoChange
  BY <1>1 DEF PluginInv, Phases
<1>3. DOMAIN edits = {} /\ DOMAIN ui = {}
  BY <1>1
<1> QED BY <1>1, <1>2, <1>3, FieldsAre DEF InEdits, ToLoad, ToStore

\* Whatever blocks do or do not render, whatever automation, loads of whole,
\* old or damaged files and OSC commands with and without an echo overlap, for
\* any number of objects, any kinds of command and any capacity of the rings:
\* when nothing is under way, object 0 of the engine sounds as the parameters
\* say in each field of which they had the last word, unless a ring overflowed,
\* provided setState does not run during process().
THEOREM EngineAlwaysFollows ==
    ASSUME ~LoadsWhileAudio
    PROVE  PluginSpec => []EngineFollows
<1>1. PluginInv => EngineFollows
  <2> SUFFICES ASSUME PluginInv, Quiet, ~lost, NEW p \in known
               PROVE  engine[0][p] = Sounds(p, norm[p])
    BY DEF EngineFollows
  <2>1. p \in Params
    BY FieldsAre DEF PluginInv, PluginTyped
  <2>2. ~Awaited(p) /\ DOMAIN fifo = {}
    BY <2>1, QuietSettles DEF Awaited
  <2>3. Settled(p)
    BY <2>2 DEF PluginInv, EngineInv
  <2> QED BY <2>2, <2>3 DEF Settled
<1> QED BY <1>1, PluginAlways, PTL

\* Of every file, whatever its version and whichever of its values are out of
\* range, the controller shows the values the processor stored, those out of
\* range as the nearest in range; and a project that is loaded and saved again
\* is the same file, out of range or not.  This is so for any parameters the
\* host automates, any damage, any objects and any rings, provided setState
\* does not run during process().
THEOREM FilesAlwaysAgree ==
    ASSUME ~LoadsWhileAudio
    PROVE  PluginSpec => []FilesAgree
<1>1. PluginInv => ControllerAgrees
  <2> SUFFICES ASSUME PluginInv, linked, Quiet, NEW p \in Params \ edited
               PROVE  ctl[p] = Clamped(norm[p])
    BY DEF ControllerAgrees
  <2>1. todo[p] = None /\ batch[p] = None /\ ~ToStore(p)
    BY QuietSettles
  <2> QED BY <2>1 DEF PluginInv, ControllerInv
<1>2. PluginInv => ReloadKeeps
  <2> SUFFICES ASSUME PluginInv, fresh, ~Loading
               PROVE  Saved = file
    BY DEF ReloadKeeps
  <2>1. ui = <<>> /\ DOMAIN ui = {}
    BY DEF Loading
  <2>2. \A p \in Params : ~ToStore(p)
    BY <2>1 DEF ToStore
  <2>3. file \in Files /\ \A p \in Params : norm[p] = file.core[p]
    BY <2>2 DEF PluginInv, ReloadInv
  <2>4. norm \in [Params -> Values] /\ file.core \in [Params -> Values]
    BY <2>3 DEF PluginInv, PluginTyped, Files
  <2>5. norm = file.core
    BY <2>3, <2>4
  <2>6. file = [version |-> 4, whole |-> TRUE, core |-> file.core]
    BY <2>3 DEF Files
  <2> QED BY <2>5, <2>6 DEF Saved
<1> QED BY <1>1, <1>2, PluginAlways, PTL DEF FilesAgree

===============================================================================
