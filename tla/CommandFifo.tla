----------------------------- MODULE CommandFifo -----------------------------
(***************************************************************************)
(* CommandFifo: the ring between one producer thread and one consumer      *)
(* thread, used for cmd_fifo_ (OSC thread to audio thread) and for the two *)
(* cue mailboxes (OSC thread and control loop).                            *)
(*                                                                         *)
(* push and pop are wait-free; their loads, the copy of the element and    *)
(* the final store are steps of their own.  An acquire load returns some   *)
(* value the other thread stored, not always its latest: each side acts on *)
(* a view of the other's index that catches up by itself.  The indices are *)
(* ints that are never reset; after 2^31 pushes they wrap to the negative  *)
(* numbers (signed overflow; the comparison is on the wrapped difference,  *)
(* which is what the compiled add, subtract and compare do).               *)
(***************************************************************************)
EXTENDS Integers, Sequences

CONSTANTS
    Commands,  \* the elements
    N,         \* number of slots, a power of two
    Width,     \* number of values of an int, a larger power of two
    None       \* no element

ASSUME FifoAssumption ==
    /\ N \in Nat \ {0} /\ Width \in Nat
    /\ Width > 2 * N /\ Width % (2 * N) = 0
    /\ None \notin Commands

VARIABLES
    head,      \* head_, stored by the producer
    tail,      \* tail_, stored by the consumer
    seenTail,  \* the tail_ the producer's next load returns
    seenHead,  \* the head_ the consumer's next load returns
    slots,     \* slots_
    pusher,    \* push in progress: its next step and its argument
    popper     \* pop in progress: its next step and `out'

vars == <<head, tail, seenTail, seenHead, slots, pusher, popper>>

-----------------------------------------------------------------------------
\* An int result: the residue of x among the ints.
Wrap(x) == ((x + Width \div 2) % Width) - Width \div 2

Ints == -(Width \div 2) .. (Width \div 2) - 1

\* h & (N-1) on two's complement.
Slot(h) == h % N

-----------------------------------------------------------------------------
Init ==
    /\ head = 0 /\ tail = 0 /\ seenTail = 0 /\ seenHead = 0
    /\ slots = [i \in 0 .. N - 1 |-> None]
    /\ pusher = [at |-> "idle", cmd |-> None]
    /\ popper = [at |-> "idle", out |-> None]

\* The producer thread.
PushBegin ==
    /\ pusher.at = "idle"
    /\ \E c \in Commands : pusher' = [at |-> "check", cmd |-> c]
    /\ UNCHANGED <<head, tail, seenTail, seenHead, slots, popper>>

\* Mutant of PushCheck: one element too many.
PushCheckLate ==
    /\ pusher.at = "check"
    /\ pusher' = IF Wrap(head - seenTail) > N
                 THEN [at |-> "idle", cmd |-> None]
                 ELSE [pusher EXCEPT !.at = "write"]
    /\ UNCHANGED <<head, tail, seenTail, seenHead, slots, popper>>

\* Full: push returns false.
PushCheck ==
    /\ pusher.at = "check"
    /\ pusher' = IF Wrap(head - seenTail) >= N
                 THEN [at |-> "idle", cmd |-> None]
                 ELSE [pusher EXCEPT !.at = "write"]
    /\ UNCHANGED <<head, tail, seenTail, seenHead, slots, popper>>

PushWrite ==
    /\ pusher.at = "write"
    /\ slots' = [slots EXCEPT ![Slot(head)] = pusher.cmd]
    /\ pusher' = [pusher EXCEPT !.at = "publish"]
    /\ UNCHANGED <<head, tail, seenTail, seenHead, popper>>

PushPublish ==
    /\ pusher.at = "publish"
    /\ head' = Wrap(head + 1)
    /\ pusher' = [at |-> "idle", cmd |-> None]
    /\ UNCHANGED <<tail, seenTail, seenHead, slots, popper>>

\* Empty: pop returns false.
PopCheck ==
    /\ popper.at = "idle"
    /\ popper' = IF seenHead = tail THEN [popper EXCEPT !.out = None]
                                    ELSE [popper EXCEPT !.at = "read"]
    /\ UNCHANGED <<head, tail, seenTail, seenHead, slots, pusher>>

\* Mutant of PopRead: the slot is handed back before it is copied.
PopReadAfterRelease ==
    /\ popper.at = "read"
    /\ popper' = [popper EXCEPT !.at = "release"]
    /\ tail' = Wrap(tail + 1)
    /\ UNCHANGED <<head, seenTail, seenHead, slots, pusher>>

PopRead ==
    /\ popper.at = "read"
    /\ popper' = [at |-> "release", out |-> slots[Slot(tail)]]
    /\ UNCHANGED <<head, tail, seenTail, seenHead, slots, pusher>>

PopRelease ==
    /\ popper.at = "release"
    /\ tail' = Wrap(tail + 1)
    /\ popper' = [popper EXCEPT !.at = "idle"]
    /\ UNCHANGED <<head, seenTail, seenHead, slots, pusher>>

\* A released store becomes visible to the other thread.
SeeTail == seenTail' = tail /\ UNCHANGED <<head, tail, seenHead, slots, pusher, popper>>

SeeHead == seenHead' = head /\ UNCHANGED <<head, tail, seenTail, slots, pusher, popper>>

Push == PushBegin \/ PushCheck \/ PushWrite \/ PushPublish
Pop == PopCheck \/ PopRead \/ PopRelease

Next == Push \/ Pop \/ SeeTail \/ SeeHead

Spec == Init /\ [][Next]_vars

-----------------------------------------------------------------------------
(* Properties.                                                             *)

\* The number of elements from one index to another.
Span(from, to) == Wrap(to - from)

\* The indices are ints, and each view lies between the two indices.
TypeOK ==
    /\ {head, tail, seenTail, seenHead} \subseteq Ints
    /\ Span(tail, head) \in 0 .. N
    /\ Span(seenTail, tail) \in 0 .. N
    /\ Span(seenTail, head) \in 0 .. N
    /\ Span(tail, seenHead) \in 0 .. Span(tail, head)
    /\ slots \in [0 .. N - 1 -> Commands \cup {None}]
    /\ pusher \in [at : {"idle", "check", "write", "publish"}, cmd : Commands \cup {None}]
    /\ popper \in [at : {"idle", "read", "release"}, out : Commands \cup {None}]

\* The ring is the bounded queue: every accepted element is popped once, in
\* order and unaltered, also across the wrap of the indices, and push rejects
\* only when the producer knows of no room.
Popped == IF popper.at = "release" THEN 1 ELSE 0

\* What is in the ring and not yet copied out of it.
Stored == [i \in 1 .. Span(tail, head) - Popped |-> slots[Slot(tail + Popped + i - 1)]]

Queue ==
    INSTANCE BoundedQueue WITH
        queue   <- Stored,
        credit  <- N - Span(seenTail, head),
        known   <- Span(tail, seenHead) - Popped,
        offered <- pusher.cmd,
        taken   <- popper.out

ImplementsQueue == Queue!QSpec

=============================================================================
