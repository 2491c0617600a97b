------------------------------- MODULE PeerPlane -------------------------------
(***************************************************************************)
(* What the daemon keeps about its peers: the echo subscribers that get a  *)
(* copy of every object and transport message, with their time-outs and    *)
(* rate guard, and the watchdog that warns when the external player has    *)
(* stopped pinging.                                                        *)
(*                                                                         *)
(* Handshakes, pings and messages are handled by the OSC thread, the       *)
(* watchdog by the control loop; they share the time of the player's last  *)
(* ping and the latch of the warning.  Time passes in seconds.             *)
(***************************************************************************)
EXTENDS Integers, Sequences, FiniteSets, SequencesExt

CONSTANTS
    Peers,      \* <<address, port>> of possible subscribers, ports from 1024
    Addresses,  \* addresses that send packets
    Bits,       \* what can be marked dirty, in the order in which flush() goes
    SlotCount,  \* kMaxEchoSubscribers
    Ttl,        \* kEchoSubscriberTtlMs, in seconds
    RateLimit,  \* kEchoRateLimit
    Stale,      \* kPlayerHeartbeatStaleMs
    Interval,   \* kPlayerStaleWarnIntervalMs
    MaxBurst    \* bound: messages received in a second

ASSUME TimeAssumption == {Ttl, Stale, Interval} \subseteq Nat \ {0}
ASSUME BitsAssumption == Bits \in Seq(ToSet(Bits))
ASSUME SizeAssumption == {SlotCount, RateLimit, MaxBurst} \subseteq Nat \ {0}

VARIABLES
    entries,    \* the subscriber table
    dirty,      \* bits marked and not flushed
    burst,      \* messages received in this second
    osc,        \* the OSC thread: Idle, or the address whose ping it handles
    pinged,     \* seconds since last_player_ping_unix_ms_, Never if it is 0
    latched,    \* player_stale_latched_
    warned,     \* seconds since last_stale_warning_unix_ms_
    check,      \* the watchdog: "due", "stale" or "done" in this second
    heard,      \* ghost: seconds since each peer shook hands or its address pinged
    behind,     \* ghost: bits whose last value a subscriber has not been sent
    told        \* ghost: slots warned of every echo dropped so far

echoVars  == <<entries, dirty, burst>>
watchVars == <<pinged, latched, warned, check>>
ghosts    == <<heard, behind, told>>
vars == <<echoVars, osc, watchVars, ghosts>>

Slots == 1 .. SlotCount
Never == -1
Idle  == "idle"
Later(age, limit) == IF age = Never \/ age > limit THEN age ELSE age + 1

Vacant == [active |-> FALSE, peer |-> <<>>, quiet |-> 0, window |-> 0, tokens |-> 0,
           dropped |-> FALSE]
Active == {s \in Slots : entries[s].active}

Init ==
    /\ entries = [s \in Slots |-> Vacant] /\ dirty = {} /\ burst = 0
    /\ osc = Idle
    /\ pinged = Never /\ latched = FALSE /\ warned = Interval + 1 /\ check = "due"
    /\ heard = [p \in Peers |-> Ttl + 1]
    /\ behind = [s \in Slots |-> {}] /\ told = Slots

-------------------------------------------------------------------------------
(* Messages and their echo *)

\* allowSend opens a new window when the old one is a second old.
Guarded(e) ==
    IF e.window >= 1 THEN [e EXCEPT !.window = 0, !.tokens = 0, !.dropped = FALSE] ELSE e

\* Mutant of Reported: the count is cleared before it is looked at.
ReportedAfter(e) == e.window >= 1 /\ Guarded(e).dropped

\* What the old window has dropped is reported to the subscriber.
Reported(e) == e.window >= 1 /\ e.dropped

\* The places of the bits marked, which are sent in this order; the first k.
Pending(marked)  == {i \in DOMAIN Bits : Bits[i] \in marked}
First(places, k) == {i \in places : Cardinality({j \in places : j <= i}) <= k}

\* How many of n packets the rate guard lets pass.
Allowed(e, n) ==
    LET room == RateLimit - Guarded(e).tokens IN IF n <= room THEN n ELSE room

\* flush(): every subscriber gets the marked bits up to its rate limit; what it
\* does not get is not kept for it.
Flush(marked) ==
    LET n       == Cardinality(Pending(marked))
        k(s)    == Allowed(entries[s], n)
        Sent(s) == {Bits[i] : i \in First(Pending(marked), k(s))}
    IN  /\ entries' = [s \in Slots |->
              IF s \in Active /\ n > 0
              THEN [Guarded(entries[s]) EXCEPT !.tokens = @ + k(s), !.dropped = @ \/ k(s) < n]
              ELSE entries[s]]
        /\ behind' = [s \in Slots |->
              IF s \in Active THEN (behind[s] \cup marked) \ Sent(s) ELSE behind[s]]
        /\ told' = {s \in Slots : s \in Active =>
              k(s) = n /\ (s \in told \/ (n > 0 /\ Reported(entries[s])))}
        /\ dirty' = {}

\* A value or a transport command that is echoed; an object beyond the table
\* marks nothing.
Marked(marks) == dirty \cup marks

\* A message marks its bit if it is one that is echoed; without a subscriber the
\* sink does not flush, and the bit stays.
Message(marks) ==
    /\ osc = Idle /\ burst < MaxBurst
    /\ burst' = burst + 1
    /\ IF Active # {}
       THEN Flush(Marked(marks))
       ELSE dirty' = Marked(marks) /\ UNCHANGED <<entries, behind, told>>
    /\ UNCHANGED <<osc, watchVars, heard>>

-------------------------------------------------------------------------------
(* Subscribers *)

FirstOf(S) == CHOOSE s \in S : \A t \in S : s <= t

Attach(s, p) ==
    /\ entries' = [entries EXCEPT ![s] = [Vacant EXCEPT !.active = TRUE, !.peer = p]]
    /\ behind' = [behind EXCEPT ![s] = {}]
    /\ told' = told \cup {s}

\* Mutant of Subscribe: one pass over the table takes the first slot that is
\* free or the peer's.
SubscribeFirst(p) ==
    /\ osc = Idle
    /\ \E s \in Slots :
          /\ s = FirstOf({t \in Slots : ~entries[t].active \/ entries[t].peer = p})
          /\ Attach(s, p)
    /\ heard' = [heard EXCEPT ![p] = 0]
    /\ UNCHANGED <<dirty, burst, osc, watchVars>>

\* addSubscriber: a known peer is refreshed, another gets the first free slot.
Subscribe(p) ==
    /\ osc = Idle
    /\ LET known == {s \in Active : entries[s].peer = p}
       IN  \/ /\ known # {}
              /\ entries' = [entries EXCEPT ![FirstOf(known)].quiet = 0]
              /\ UNCHANGED <<behind, told>>
           \/ /\ known = {} /\ Active # Slots
              /\ Attach(FirstOf(Slots \ Active), p)
    /\ heard' = [heard EXCEPT ![p] = 0]
    /\ UNCHANGED <<dirty, burst, osc, watchVars>>

\* stop() and start(): the table and the marks are cleared.
Close ==
    /\ osc = Idle
    /\ entries' = [s \in Slots |-> Vacant]
    /\ dirty' = {}
    /\ UNCHANGED <<burst, osc, watchVars, ghosts>>

-------------------------------------------------------------------------------
(* Pings *)

AtAddress(a) == {s \in Active : entries[s].peer[1] = a}

\* Mutant of Touch: only the first subscriber of the address is found.
TouchOne(a) ==
    /\ entries' = [s \in Slots |->
          IF AtAddress(a) # {} /\ s = FirstOf(AtAddress(a)) THEN [entries[s] EXCEPT !.quiet = 0]
          ELSE IF s \in Active /\ entries[s].quiet <= Ttl THEN entries[s] ELSE Vacant]
    /\ heard' = [p \in Peers |-> IF p[1] = a THEN 0 ELSE heard[p]]
    /\ UNCHANGED <<dirty, burst, behind, told>>

\* touchSubscriberHb and evictStale: every subscriber at the pinger's address
\* is refreshed, then those that have been silent too long are evicted.
Touch(a) ==
    /\ entries' = [s \in Slots |->
          IF s \in AtAddress(a) THEN [entries[s] EXCEPT !.quiet = 0]
          ELSE IF s \in Active /\ entries[s].quiet <= Ttl THEN entries[s] ELSE Vacant]
    /\ heard' = [p \in Peers |-> IF p[1] = a THEN 0 ELSE heard[p]]
    /\ UNCHANGED <<dirty, burst, behind, told>>

\* The player's ping: its time is stored first, the latch cleared after.
PlayerPing(a) ==
    /\ osc = Idle /\ osc' = a
    /\ pinged' = 0
    /\ UNCHANGED <<echoVars, latched, warned, check, ghosts>>

PlayerPinged ==
    /\ osc # Idle /\ osc' = Idle
    /\ latched' = FALSE
    /\ Touch(osc)
    /\ UNCHANGED <<pinged, warned, check>>

\* Another client's ping is not the player's.
OtherPing(a) ==
    /\ osc = Idle
    /\ Touch(a)
    /\ UNCHANGED <<osc, watchVars>>

-------------------------------------------------------------------------------
(* checkPlayerHeartbeatStale(), once a second *)

CheckAge ==
    /\ check = "due"
    /\ check' = IF pinged # Never /\ pinged >= Stale THEN "stale" ELSE "done"
    /\ UNCHANGED <<echoVars, osc, pinged, latched, warned, ghosts>>

\* Mutant of Warn: a latched warning is never repeated.
WarnOnce ==
    /\ check = "stale" /\ check' = "done"
    /\ latched' = TRUE /\ warned' = IF latched THEN warned ELSE 0
    /\ UNCHANGED <<echoVars, osc, pinged, ghosts>>

\* A latched warning is repeated when the interval is over.
Warn ==
    /\ check = "stale" /\ check' = "done"
    /\ latched' = TRUE /\ warned' = IF latched /\ warned < Interval THEN warned ELSE 0
    /\ UNCHANGED <<echoVars, osc, pinged, ghosts>>

\* A second passes; the control loop keeps its period.
Second ==
    /\ check = "done" /\ check' = "due"
    /\ entries' = [s \in Slots |->
          IF s \in Active THEN [entries[s] EXCEPT !.quiet = Later(@, Ttl), !.window = 1]
          ELSE entries[s]]
    /\ pinged' = Later(pinged, Stale)
    /\ warned' = Later(warned, Interval)
    /\ heard' = [p \in Peers |-> Later(heard[p], Ttl)]
    /\ burst' = 0
    /\ UNCHANGED <<dirty, osc, latched, behind, told>>

-------------------------------------------------------------------------------
Next ==
    \/ Message({}) \/ \E b \in ToSet(Bits) : Message({b})
    \/ \E p \in Peers : Subscribe(p)
    \/ Close
    \/ \E a \in Addresses : PlayerPing(a) \/ OtherPing(a)
    \/ PlayerPinged
    \/ CheckAge \/ Warn
    \/ Second

Spec == Init /\ [][Next]_vars

-------------------------------------------------------------------------------
(* Properties *)

\* A ping evicts only subscribers whose own address has been silent for more
\* than the time-out, whoever sends it.
PingingStays ==
    [][~Close => \A s \in Active : entries'[s].active \/ heard[entries[s].peer] > Ttl]_vars

\* No peer has two slots.
OneSlotEach ==
    \A s, t \in Active : entries[s].peer = entries[t].peer => s = t

\* Through time-outs, refreshes and reused slots no peer is in the table twice,
\* where it would get every echo twice; and a subscriber that lacks the last
\* value of anything marked since it attached has been told that echoes were
\* dropped, or will be by its next echo that is a second later.
NoSilentGap ==
    /\ OneSlotEach
    /\ \A s \in Active : behind[s] # {} => s \in told \/ entries[s].dropped

\* While the player is silent a warning is never older than the interval,
\* although its pings race with the check.
StaleTold == pinged > Stale => warned <= Interval
================================================================================
