--------------------------- MODULE SnapshotBuffer ---------------------------
(***************************************************************************)
(* The three-buffer hand-over of the object table from the audio thread    *)
(* (SpatialEngine::audioBlock) to the control thread                       *)
(* (SpatialEngine::snapshotObjects, called by a scene save).               *)
(*                                                                         *)
(* Every atomic access and every per-object copy is a step of its own.     *)
(* The table's data is abstracted to a version: slot o of a buffer holds   *)
(* the number of dirty drains its value comes from, so a copy that mixes   *)
(* two drains holds two versions.                                          *)
(*                                                                         *)
(* The reader's claim is a release store followed by an acquire load of    *)
(* another atomic: neither C++ nor x86 keeps that order, so the store may  *)
(* reach the writer late.  `delayed' holds the claims still on their way;  *)
(* an entry's age counts the publishes it has missed.  Lag is the oldest   *)
(* claim that may still be unseen when the writer loads the claim: 0 is    *)
(* the assumption the header states ("observe the reader's busy claim      *)
(* within ~1 publish cadence"), a larger Lag drops it.                     *)
(***************************************************************************)
EXTENDS Integers, Sequences

CONSTANTS
    Objects,       \* slots of obj_cache_
    Lag,           \* publishes a claim may miss before it must be visible
    StoreDepth,    \* bound: claims on their way at once (the store buffer)
    MaxVersion     \* bound: dirty drains in a behaviour

ASSUME ConstantsAssumption ==
    /\ Lag \in Nat
    /\ StoreDepth \in Nat \ {0}
    /\ MaxVersion \in Nat

Buffers == 0 .. 2
None == -1

VARIABLES
    cache,         \* obj_cache_, as the number of dirty drains applied to it
    buf,           \* snap_buf_
    published,     \* snap_published_idx_
    busy,          \* snap_reader_busy_idx_, as the writer sees it
    delayed,       \* the reader's stores to it that the writer cannot see yet
    wpc, wpub, w, wleft,       \* audioBlock: pc, pub, w, slots still to copy
    rpc, idx, out, rleft,      \* snapshotObjects: pc, idx, out, slots to read
    since          \* ghost: the version published when the call loaded idx

writerVars == <<wpc, wpub, w, wleft>>
readerVars == <<rpc, idx, out, rleft, since>>
vars == <<cache, buf, published, busy, delayed, writerVars, readerVars>>

\* The number of drains that have been published.
PublishedVersion == IF wpc = "idle" THEN cache ELSE cache - 1

Init ==
    /\ cache = 0
    /\ buf = [b \in Buffers |-> [o \in Objects |-> 0]]
    /\ published = None
    /\ busy = None
    /\ delayed = <<>>
    /\ wpc = "idle" /\ wpub = None /\ w = 0 /\ wleft = {}
    /\ rpc = "idle" /\ idx = None /\ out = [o \in Objects |-> 0]
    /\ rleft = {} /\ since = 0

-----------------------------------------------------------------------------
(* The audio thread: audioBlock.                                           *)

\* The FIFO drain popped at least one command: obj_cache_ is dirty.
Drain ==
    /\ wpc = "idle"
    /\ cache < MaxVersion
    /\ cache' = cache + 1
    /\ wpc' = "loadPub"
    /\ UNCHANGED <<buf, published, busy, delayed, wpub, w, wleft, readerVars>>

LoadPublished ==
    /\ wpc = "loadPub"
    /\ wpub' = published
    /\ wpc' = "loadBusy"
    /\ UNCHANGED <<cache, buf, published, busy, delayed, w, wleft, readerVars>>

\* Mutants of FirstFree: the search starts at 1; the claim is not consulted.
FirstFreeFromOne(pub, claimed) ==
    CHOOSE b \in 1 .. 3 :
        /\ b \notin {pub, claimed}
        /\ \A c \in 1 .. 3 : c < b => c \in {pub, claimed}

FirstFreeUnclaimed(pub, claimed) ==
    CHOOSE b \in Buffers : b # pub /\ \A c \in Buffers : c < b => c = pub

\* while (w == pub || w == busy) ++w
FirstFree(pub, claimed) ==
    CHOOSE b \in Buffers :
        /\ b \notin {pub, claimed}
        /\ \A c \in Buffers : c < b => c \in {pub, claimed}

\* No claim older than Lag publishes is still invisible to the writer.
ClaimsVisible == \A i \in DOMAIN delayed : delayed[i].age <= Lag

LoadBusy ==
    /\ wpc = "loadBusy"
    /\ ClaimsVisible
    /\ w' = FirstFree(wpub, busy)
    /\ wleft' = Objects
    /\ wpc' = "copy"
    /\ UNCHANGED <<cache, buf, published, busy, delayed, wpub, readerVars>>

CopyObject(o) ==
    /\ wpc = "copy"
    /\ o \in wleft
    /\ buf' = [buf EXCEPT ![w][o] = cache]
    /\ wleft' = wleft \ {o}
    /\ UNCHANGED <<cache, published, busy, delayed, wpc, wpub, w, readerVars>>

\* Every claim still on its way has missed one more publish.
Aged(claims) ==
    [i \in DOMAIN claims |->
        [val |-> claims[i].val, age |-> claims[i].age + 1]]

\* Mutant of Publish: the index is stored before the copy.
PublishBeforeCopy ==
    /\ wpc = "copy"
    /\ published' = w
    /\ delayed' = Aged(delayed)
    /\ wpc' = IF wleft = {} THEN "idle" ELSE "copy"
    /\ UNCHANGED <<cache, buf, busy, wpub, w, wleft, readerVars>>

Publish ==
    /\ wpc = "copy"
    /\ wleft = {}
    /\ published' = w
    /\ delayed' = Aged(delayed)
    /\ wpc' = "idle"
    /\ UNCHANGED <<cache, buf, busy, wpub, w, wleft, readerVars>>

-----------------------------------------------------------------------------
(* The control thread: snapshotObjects.                                    *)

\* A store to snap_reader_busy_idx_ leaves the reader's store buffer later.
StoreBusy(b) ==
    /\ Len(delayed) < StoreDepth
    /\ delayed' = Append(delayed, [val |-> b, age |-> 0])

\* Nothing published yet: clear the claim and return an empty snapshot.
CallEmpty ==
    /\ rpc = "idle"
    /\ published = None
    /\ StoreBusy(None)
    /\ UNCHANGED <<cache, buf, published, busy, writerVars, readerVars>>

Call ==
    /\ rpc = "idle"
    /\ published # None
    /\ idx' = published
    /\ since' = PublishedVersion
    /\ rpc' = "claim"
    /\ UNCHANGED <<cache, buf, published, busy, delayed, writerVars, out, rleft>>

Claim ==
    /\ rpc = "claim"
    /\ StoreBusy(idx)
    /\ rpc' = "confirm"
    /\ UNCHANGED <<cache, buf, published, busy, writerVars, idx, out, rleft, since>>

ConfirmAgain ==
    /\ rpc = "confirm"
    /\ published # idx
    /\ idx' = published
    /\ rpc' = "claim"
    /\ UNCHANGED <<cache, buf, published, busy, delayed, writerVars, out, rleft, since>>

\* Mutant of Confirm: the claimed index is not compared with the published one.
ConfirmBlindly ==
    /\ rpc = "confirm"
    /\ rleft' = Objects
    /\ rpc' = "copy"
    /\ UNCHANGED <<cache, buf, published, busy, delayed, writerVars, idx, out, since>>

Confirm ==
    /\ rpc = "confirm"
    /\ published = idx
    /\ rleft' = Objects
    /\ rpc' = "copy"
    /\ UNCHANGED <<cache, buf, published, busy, delayed, writerVars, idx, out, since>>

ReadObject(o) ==
    /\ rpc = "copy"
    /\ o \in rleft
    /\ out' = [out EXCEPT ![o] = buf[idx][o]]
    /\ rleft' = rleft \ {o}
    /\ UNCHANGED <<cache, buf, published, busy, delayed, writerVars, rpc, idx, since>>

Release ==
    /\ rpc = "copy"
    /\ rleft = {}
    /\ StoreBusy(None)
    /\ rpc' = "idle"
    /\ UNCHANGED <<cache, buf, published, busy, writerVars, idx, out, rleft, since>>

\* The oldest of the reader's stores reaches the writer.
BecomeVisible ==
    /\ delayed # <<>>
    /\ busy' = Head(delayed).val
    /\ delayed' = Tail(delayed)
    /\ UNCHANGED <<cache, buf, published, writerVars, readerVars>>

-----------------------------------------------------------------------------
WriterStep ==
    LoadPublished \/ LoadBusy \/ (\E o \in Objects : CopyObject(o)) \/ Publish

ReaderStep ==
    \/ CallEmpty \/ Call \/ Claim \/ ConfirmAgain \/ Confirm \/ Release
    \/ \E o \in Objects : ReadObject(o)

Next == Drain \/ WriterStep \/ ReaderStep \/ BecomeVisible

Spec == Init /\ [][Next]_vars

-----------------------------------------------------------------------------
(* Properties.                                                             *)

\* Every variable has the type the code declares; a claim is None or a
\* buffer, and snap_buf_ is only ever indexed with a buffer.
TypeOK ==
    /\ cache \in 0 .. MaxVersion
    /\ buf \in [Buffers -> [Objects -> Nat]]
    /\ published \in Buffers \cup {None}
    /\ busy \in Buffers \cup {None}
    /\ delayed \in Seq([val : Buffers \cup {None}, age : Nat])
    /\ wpc \in {"idle", "loadPub", "loadBusy", "copy"}
    /\ wpub \in Buffers \cup {None}
    /\ w \in Buffers
    /\ wleft \in SUBSET Objects
    /\ rpc \in {"idle", "claim", "confirm", "copy"}
    /\ idx \in Buffers \cup {None}
    /\ out \in [Objects -> Nat]
    /\ rleft \in SUBSET Objects
    /\ since \in Int
    /\ rpc # "idle" => idx \in Buffers /\ published \in Buffers

\* The two threads are never in the same buffer.
NoDataRace == ~(wpc = "copy" /\ rpc = "copy" /\ w = idx)

\* What snapshotObjects reads races with nothing and comes from one drain, at
\* least as new as the one published when the call began: a scene save is
\* never torn and never older than its request.
ConsistentSnapshot ==
    /\ NoDataRace
    /\ rpc = "copy" =>
          \E v \in since .. cache : \A o \in Objects \ rleft : out[o] = v

-----------------------------------------------------------------------------
(* Why they hold when Lag = 0: the inductive invariant.                    *)

\* The published buffer holds the last published drain, in every slot.
PublishedTable ==
    /\ published = None => PublishedVersion = 0
    /\ published # None => \A o \in Objects : buf[published][o] = PublishedVersion

\* The writer works on a buffer that is not the published one.
WriterAway ==
    /\ wpc # "idle" => cache >= 1
    /\ wpc = "loadBusy" => wpub = published
    /\ wpc = "copy" => /\ w # published
                       /\ \A o \in Objects \ wleft : buf[w][o] = cache

\* What the writer will see last of the stores the reader has made.
LastClaim == IF delayed = <<>> THEN busy ELSE delayed[Len(delayed)].val

\* The reader's claim stands behind every older one, and until a publish has
\* passed it the claimed buffer is still the published one.
ClaimStands ==
    /\ rpc \in {"confirm", "copy"} => LastClaim = idx
    /\ rpc = "copy" /\ delayed # <<>> /\ delayed[Len(delayed)].age = 0
          => published = idx

\* The buffer being read holds one drain, not older than the call.
ReadTable ==
    /\ rpc # "idle" => since <= PublishedVersion
    /\ rpc = "copy" => \E v \in since .. PublishedVersion :
                          /\ \A o \in Objects : buf[idx][o] = v
                          /\ \A o \in Objects \ rleft : out[o] = v

HandOver ==
    /\ TypeOK
    /\ PublishedTable
    /\ WriterAway
    /\ ClaimStands
    /\ ReadTable
    /\ NoDataRace

-----------------------------------------------------------------------------
(* Refinement.                                                             *)

\* The hand-over implements the atomic table: a call takes the value that is
\* published at the instant its claim is confirmed.
LatestTable == IF published = None THEN [o \in Objects |-> 0] ELSE buf[published]

CallState ==
    CASE rpc = "idle" -> "idle"
      [] rpc \in {"claim", "confirm"} -> "open"
      [] rpc = "copy" -> "taken"

TakenTable == IF rpc = "copy" THEN buf[idx] ELSE out

Atomic == INSTANCE AtomicSnapshot WITH
    latest <- LatestTable, call <- CallState, result <- TakenTable

ImplementsAtomicSnapshot == Atomic!ASpec
=============================================================================
