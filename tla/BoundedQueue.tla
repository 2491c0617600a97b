----------------------------- MODULE BoundedQueue -----------------------------
(***************************************************************************)
(* What one producer and one consumer may rely on between them: a queue of *)
(* at most N commands that never blocks either side.                       *)
(*                                                                         *)
(* Each side learns of the other's progress with a delay.  The producer    *)
(* holds `credit', the room it knows of, and rejects a command when it has *)
(* none, which may be a moment after room was made; the consumer knows of  *)
(* the first `known' commands and finds the queue empty when there are     *)
(* none.  Nothing accepted is lost, repeated or overtaken.                 *)
(***************************************************************************)
EXTENDS Naturals, Sequences

CONSTANTS
    Commands,  \* the values queued
    N,         \* capacity
    None       \* no command

VARIABLES
    queue,     \* accepted and not yet taken
    credit,    \* room the producer knows of
    known,     \* commands the consumer knows of
    offered,   \* the command being pushed, or None
    taken      \* what the last pop returned, None when it found nothing

qVars == <<queue, credit, known, offered, taken>>

QInit ==
    /\ queue = <<>> /\ credit = N /\ known = 0
    /\ offered = None /\ taken = None

QOffer ==
    /\ offered = None
    /\ offered' \in Commands
    /\ UNCHANGED <<queue, credit, known, taken>>

QAccept ==
    /\ offered # None /\ credit > 0
    /\ queue' = Append(queue, offered)
    /\ credit' = credit - 1
    /\ offered' = None
    /\ UNCHANGED <<known, taken>>

QReject ==
    /\ offered # None /\ credit = 0
    /\ offered' = None
    /\ UNCHANGED <<queue, credit, known, taken>>

QTake ==
    /\ known > 0
    /\ taken' = Head(queue)
    /\ queue' = Tail(queue)
    /\ known' = known - 1
    /\ UNCHANGED <<credit, offered>>

QFindEmpty ==
    /\ known = 0
    /\ taken' = None
    /\ UNCHANGED <<queue, credit, known, offered>>

\* Some of the other side's progress becomes visible.
QLearn ==
    /\ credit' \in credit .. N - Len(queue)
    /\ known' \in known .. Len(queue)
    /\ UNCHANGED <<queue, offered, taken>>

QNext == QOffer \/ QAccept \/ QReject \/ QTake \/ QFindEmpty \/ QLearn

QSpec == QInit /\ [][QNext]_qVars
===============================================================================
