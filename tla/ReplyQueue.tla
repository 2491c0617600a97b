------------------------------ MODULE ReplyQueue ------------------------------
(***************************************************************************)
(* What the threads that send replies and the thread that puts them on the *)
(* wire may rely on: a queue of at most N places.  A sender reserves the   *)
(* last place, fills the place it reserved, and places leave from the      *)
(* front, only once filled, so replies go out in the order of their        *)
(* reservations.                                                           *)
(***************************************************************************)
EXTENDS Naturals, Sequences

CONSTANTS
    Senders,   \* threads that send replies
    Bodies,    \* what a filled place may hold
    N          \* places

VARIABLE places   \* the queue: a sender that has not filled yet, or a body

QInit == places = <<>>

QReserve(p) ==
    /\ Len(places) < N
    /\ places' = Append(places, p)

QFill(p) ==
    \E i \in DOMAIN places, b \in Bodies :
        /\ places[i] = p
        /\ places' = [places EXCEPT ![i] = b]

QLeave ==
    /\ places # <<>>
    /\ Head(places) \in Bodies
    /\ places' = Tail(places)

QNext == (\E p \in Senders : QReserve(p) \/ QFill(p)) \/ QLeave

QSpec == QInit /\ [][QNext]_places
===============================================================================
