------------------------------ MODULE ReplyRing -------------------------------
(***************************************************************************)
(* The outbound replies of OSCBackend: sendReply() on the control, audio   *)
(* and heartbeat threads, the ring they share, the thread that drains it,  *)
(* and start() and stop().                                                 *)
(*                                                                         *)
(* A sender loads the head, compares it with the tail, swings the head     *)
(* with a compare-and-swap, fills the slot it got and raises its flag.     *)
(* The drain thread sleeps on a condition variable that the senders notify *)
(* without holding its mutex.  Which client a reply is addressed to is in  *)
(* PeerPlane; here a client is known or not.                               *)
(***************************************************************************)
EXTENDS Naturals, Sequences, FiniteSets

CONSTANTS
    Senders,     \* threads that call sendReply
    Cap,         \* kOutboundRingCap
    MaxReplies,  \* bound: calls of sendReply
    MaxStops,    \* bound: calls of stop()
    MayLap       \* a sender may stall while the ring goes once around

ASSUME CapAssumption == Cap \in Nat /\ Cap > 1
ASSUME BoundsAssumption == MaxReplies \in Nat /\ MaxStops \in Nat /\ MayLap \in BOOLEAN

Slots == 0 .. Cap - 1
Empty == "empty"              \* len = 0: the payload could not be encoded

ASSUME SendersAssumption == IsFiniteSet(Senders) /\ Empty \notin Senders

VARIABLES
    head, tail,  \* out_head_, out_tail_
    slot,        \* outbound_ring_
    known,       \* last_peer_len_ is set: some client has been heard
    pc,          \* where each sender is
    h,           \* each sender's copy of the head; the slot it claimed
    moved,       \* ghost: claims by others since a sender loaded the head
    calls,       \* ghost: calls so far
    drain,       \* where the drain thread is
    running,     \* running_
    stopper,     \* where the thread that calls start() and stop() is
    stops,       \* ghost: calls of stop()
    sent, drops, \* outbound_sent_, outbound_drops_
    doubled      \* ghost: drops counted for a reply that was counted already

senderVars == <<pc, h, moved, calls>>
lifeVars   == <<running, stopper, stops>>
vars == <<head, tail, slot, senderVars, known, drain, lifeVars, sent, doubled, drops>>

NextSlot(i) == (i + 1) % Cap

Blank == [ready |-> FALSE, body |-> Empty]

Init ==
    /\ head = 0 /\ tail = 0
    /\ slot = [i \in Slots |-> Blank]
    /\ known = FALSE
    /\ pc = [p \in Senders |-> "idle"]
    /\ h = [p \in Senders |-> 0]
    /\ moved = [p \in Senders |-> 0]
    /\ calls = 0
    /\ drain = "peek" /\ running = TRUE /\ stopper = "up" /\ stops = 0
    /\ sent = 0 /\ drops = 0 /\ doubled = 0

-------------------------------------------------------------------------------
(* The OSC thread: the first recognised datagram makes its sender known.    *)

Capture ==
    /\ running /\ ~known
    /\ known' = TRUE
    /\ UNCHANGED <<head, tail, slot, senderVars, drain, lifeVars, sent, doubled, drops>>

-------------------------------------------------------------------------------
(* A sender *)

\* The call returns; its locals are gone.
Return(p) ==
    /\ pc' = [pc EXCEPT ![p] = "idle"]
    /\ h' = [h EXCEPT ![p] = 0]
    /\ moved' = [moved EXCEPT ![p] = 0]

\* The check for a client and, with one, the relaxed load of the head.
Call(p) ==
    /\ pc[p] = "idle" /\ calls < MaxReplies
    /\ calls' = calls + 1
    /\ IF known
       THEN /\ pc' = [pc EXCEPT ![p] = "check"]
            /\ h' = [h EXCEPT ![p] = head]
            /\ UNCHANGED drops
       ELSE /\ drops' = drops + 1
            /\ UNCHANGED <<pc, h>>
    /\ UNCHANGED <<head, tail, slot, moved, known, drain, lifeVars, sent, doubled>>

RingFull(p) == NextSlot(h[p]) = tail

CheckFull(p) ==
    /\ pc[p] = "check"
    /\ IF RingFull(p)
       THEN /\ Return(p)
            /\ drops' = drops + 1
       ELSE /\ pc' = [pc EXCEPT ![p] = "cas"]
            /\ UNCHANGED <<h, moved, drops>>
    /\ UNCHANGED <<head, tail, slot, calls, known, drain, lifeVars, sent, doubled>>

\* Unless MayLap, nobody stalls between loading the head and swinging it for
\* as long as the others need to bring the head round to the same slot.
NoLapBy(p) ==
    \A q \in Senders \ {p} :
        pc[q] \in {"check", "cas"} => MayLap \/ moved[q] < Cap - 1

\* Mutant of Claim: the head is stored, not compared and swapped.
ClaimByStore(p) ==
    /\ pc[p] = "cas" /\ NoLapBy(p)
    /\ head' = NextSlot(h[p])
    /\ pc' = [pc EXCEPT ![p] = "fill"]
    /\ UNCHANGED <<tail, slot, h, moved, calls, known, drain, lifeVars, sent, doubled, drops>>

Claim(p) ==
    /\ pc[p] = "cas"
    /\ IF head = h[p]
       THEN /\ NoLapBy(p)
            /\ head' = NextSlot(h[p])
            /\ pc' = [pc EXCEPT ![p] = "fill"]
            /\ moved' = [q \in Senders |-> IF q # p /\ pc[q] \in {"check", "cas"}
                                           THEN moved[q] + 1 ELSE 0]
            /\ UNCHANGED h
       ELSE /\ h' = [h EXCEPT ![p] = head]       \* the failed swap reloads it
            /\ moved' = [moved EXCEPT ![p] = 0]
            /\ pc' = [pc EXCEPT ![p] = "check"]
            /\ UNCHANGED head
    /\ UNCHANGED <<tail, slot, calls, known, drain, lifeVars, sent, doubled, drops>>

Filled(p) ==
    /\ slot' = [slot EXCEPT ![h[p]].body = p]
    /\ UNCHANGED drops

\* len = 0 rather than a hole in the ring, counted as a drop
LeftEmpty(p) ==
    /\ slot' = [slot EXCEPT ![h[p]].body = Empty]
    /\ drops' = drops + 1

\* ,s ,sf and ,i: a text that is missing or too long does not encode
EncodeText(p) == Filled(p) \/ LeftEmpty(p)

\* ,iif: address and three numbers always fit
EncodeNumbers(p) == Filled(p)

\* ,iis: either of two texts
EncodeTwoTexts(p) == \E fits \in [1 .. 2 -> BOOLEAN] :
    IF fits[1] /\ fits[2] THEN Filled(p) ELSE LeftEmpty(p)

\* Three copies of the same call, one for each shape of packet.
Encode(p) ==
    /\ pc[p] = "fill"
    /\ EncodeText(p) \/ EncodeNumbers(p) \/ EncodeTwoTexts(p)
    /\ pc' = [pc EXCEPT ![p] = "raise"]
    /\ UNCHANGED <<head, tail, h, moved, calls, known, drain, lifeVars, sent, doubled>>

\* ready.store(true); the notification follows, without the mutex
Raise(p) ==
    /\ pc[p] = "raise"
    /\ slot' = [slot EXCEPT ![h[p]].ready = TRUE]
    /\ pc' = [pc EXCEPT ![p] = "notify"]
    /\ UNCHANGED <<head, tail, h, moved, calls, known, drain, lifeVars, sent, doubled, drops>>

Notify(p) ==
    /\ pc[p] = "notify"
    /\ Return(p)
    /\ drain' = IF drain = "asleep" THEN "peek" ELSE drain
    /\ UNCHANGED <<head, tail, slot, calls, known, lifeVars, sent, doubled, drops>>

-------------------------------------------------------------------------------
(* The drain thread.  Between evaluating the predicate and blocking it      *)
(* holds the mutex, which a sender's notification does not wait for.        *)

Peek ==
    /\ drain = "peek"
    /\ drain' = IF ~running THEN "off" ELSE IF head # tail THEN "scan" ELSE "dozing"
    /\ UNCHANGED <<head, tail, slot, senderVars, known, lifeVars, sent, doubled, drops>>

FallAsleep ==
    /\ drain = "dozing"
    /\ drain' = "asleep"
    /\ UNCHANGED <<head, tail, slot, senderVars, known, lifeVars, sent, doubled, drops>>

\* Mutant of Timeout: a wait without a limit.
TimeoutNever == FALSE

\* wait_for gives up after one second whatever the predicate says
Timeout ==
    /\ drain = "asleep"
    /\ drain' = IF running THEN "scan" ELSE "off"
    /\ UNCHANGED <<head, tail, slot, senderVars, known, lifeVars, sent, doubled, drops>>

\* Mutant of Scan: the flag of the slot is not consulted.
ScanUnready ==
    /\ drain = "scan"
    /\ drain' = IF tail # head THEN "send" ELSE "peek"
    /\ UNCHANGED <<head, tail, slot, senderVars, known, lifeVars, sent, doubled, drops>>

Scan ==
    /\ drain = "scan"
    /\ drain' = IF tail # head /\ slot[tail].ready THEN "send" ELSE "peek"
    /\ UNCHANGED <<head, tail, slot, senderVars, known, lifeVars, sent, doubled, drops>>

\* sendto of the slot at the tail, which the kernel may refuse; a slot left
\* empty is passed over.
HandOver ==
    /\ \/ slot[tail].body = Empty /\ UNCHANGED <<sent, drops>>
       \/ slot[tail].body # Empty /\ sent' = sent + 1 /\ UNCHANGED drops
       \/ slot[tail].body # Empty /\ drops' = drops + 1 /\ UNCHANGED sent
    /\ UNCHANGED doubled

\* stop() has closed the socket and no other is to be had: a drop, also for a
\* slot left empty, which its sender has counted.
NoSocket ==
    /\ ~running
    /\ drops' = drops + 1
    /\ doubled' = IF slot[tail].body = Empty THEN doubled + 1 ELSE doubled
    /\ UNCHANGED sent

Send ==
    /\ drain = "send"
    /\ drain' = "clear"
    /\ HandOver \/ NoSocket
    /\ UNCHANGED <<head, tail, slot, senderVars, known, lifeVars>>

ClearReady ==
    /\ drain = "clear"
    /\ slot' = [slot EXCEPT ![tail].ready = FALSE]
    /\ drain' = "step"
    /\ UNCHANGED <<head, tail, senderVars, known, lifeVars, sent, doubled, drops>>

StepTail ==
    /\ drain = "step"
    /\ tail' = NextSlot(tail)
    /\ drain' = "scan"
    /\ UNCHANGED <<head, slot, senderVars, known, lifeVars, sent, doubled, drops>>

-------------------------------------------------------------------------------
(* stop(): clear running_, close the socket, take and release the mutex,    *)
(* notify, join.  The drain thread empties what it can before it leaves.     *)

StopFlag ==
    /\ stopper = "up" /\ stops < MaxStops
    /\ running' = FALSE
    /\ stopper' = "wake"
    /\ stops' = stops + 1
    /\ UNCHANGED <<head, tail, slot, senderVars, known, drain, sent, doubled, drops>>

StopNotify ==
    /\ stopper = "wake" /\ drain # "dozing"
    /\ drain' = IF drain = "asleep" THEN "peek" ELSE drain
    /\ stopper' = "join"
    /\ UNCHANGED <<head, tail, slot, senderVars, known, running, stops, sent, doubled, drops>>

StopJoin ==
    /\ stopper = "join" /\ drain = "off"
    /\ stopper' = "down"
    /\ UNCHANGED <<head, tail, slot, senderVars, known, drain, running, stops, sent, doubled, drops>>

\* start() keeps the ring and the client it finds
Start ==
    /\ stopper = "down"
    /\ stopper' = "up" /\ running' = TRUE /\ drain' = "peek"
    /\ UNCHANGED <<head, tail, slot, senderVars, known, stops, sent, doubled, drops>>

-------------------------------------------------------------------------------
SenderStep(p) == \/ CheckFull(p) \/ Claim(p) \/ Encode(p)
                 \/ Raise(p) \/ Notify(p)
DrainStep == Peek \/ FallAsleep \/ Scan \/ Send \/ ClearReady \/ StepTail
Lifecycle == StopFlag \/ StopNotify \/ StopJoin \/ Start

Next ==
    \/ \E p \in Senders : Call(p) \/ SenderStep(p)
    \/ DrainStep \/ Timeout
    \/ Capture
    \/ Lifecycle

\* A thread that is inside sendReply, the drain thread or stop() goes on; the
\* one-second limit of wait_for expires.  Nobody has to call or to stop.
Fairness ==
    /\ \A p \in Senders : WF_vars(SenderStep(p))
    /\ WF_vars(DrainStep) /\ WF_vars(Timeout)
    /\ WF_vars(StopNotify) /\ WF_vars(StopJoin)

Spec == Init /\ [][Next]_vars /\ Fairness

-------------------------------------------------------------------------------
(* Properties *)

Filling(p) == pc[p] \in {"fill", "raise"}

\* The slots from tail to head are the places of the queue; the one whose
\* flag the drain thread has cleared is gone.
Pending == ((head + Cap - tail) % Cap) - (IF drain = "step" THEN 1 ELSE 0)
First   == IF drain = "step" THEN NextSlot(tail) ELSE tail
Index(k) == (First + k - 1) % Cap

\* Every call of sendReply is accounted for exactly once: it is still inside
\* the call, waits in the ring, was sent, or was counted as a drop by whoever
\* found out: the sender (no client, ring full, payload too long) or the drain
\* thread (refused by the kernel, no socket).  The one exception is the empty
\* reply that finds no socket after stop(): its drop is counted by both.
InCall   == {p \in Senders : \/ pc[p] \in {"check", "cas", "fill"}
                             \/ pc[p] = "raise" /\ slot[h[p]].body # Empty}
InRing   == {k \in 1 .. Pending : /\ slot[Index(k)].ready /\ slot[Index(k)].body # Empty
                                  /\ ~(k = 1 /\ drain = "clear")}
CountedOnce == calls + doubled = Cardinality(InCall) + Cardinality(InRing) + sent + drops

\* The ring implements the queue with reservations: a slot in it whose flag is
\* down is held by the one sender that claimed it.
Holder(i) == CHOOSE p \in Senders : Filling(p) /\ h[p] = i
Place(i)  == IF slot[i].ready THEN <<"filled", slot[i].body>> ELSE <<"held", Holder(i)>>
Queue == INSTANCE ReplyQueue WITH
    Senders <- {<<"held", p>> : p \in Senders},
    Bodies  <- {<<"filled", b>> : b \in Senders \cup {Empty}},
    N       <- Cap - 1,
    places  <- [k \in 1 .. Pending |-> Place(Index(k))]
ImplementsReplyQueue == Queue!QSpec

\* What sendReply accepted goes on the wire (or is refused there) as long as
\* the backend is not stopped, although a notification may fall into the gap
\* between the predicate and the wait.  The calls being bounded, it is enough
\* that the ring empties.
Delivered == Pending > 0 ~> (Pending = 0 \/ ~running)
===============================================================================
