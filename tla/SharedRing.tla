------------------------------ MODULE SharedRing ------------------------------
(***************************************************************************)
(* The ring in shared memory through which a player process feeds engine   *)
(* processes: the region's creation, attaching and its gates, the single-  *)
(* consumer lock in the header and the block pump.  The player is a        *)
(* program of its own; of it only the protocol of the header is modelled.  *)
(* What a client is told of all this is ShmTelemetry.                      *)
(*                                                                         *)
(* Frames carry their number; a slot never written carries NoFrame.  An    *)
(* engine process starts once, as the daemon does, and ends by stopping,   *)
(* by a refusal or by a crash.                                             *)
(***************************************************************************)
EXTENDS Integers, Sequences, FiniteSets

CONSTANTS
    Engines,      \* engine processes; their pids are distinct
    Headers,      \* geometries a region may be found with
    Backlogs,     \* <<read_idx, write_idx>> a region may be found with
    EngineBlock,  \* --block
    MaxFrames,    \* bound: frames the player writes
    NoOne,        \* the lock word 0
    Gone,         \* the pid of an earlier consumer, which crashed
    MayStall      \* a start() may stall between reading the indices and locking

MaxChannels == 64
MaxCapacity == 1048576
MaxBlock    == 512
MinRate     == 8000
MaxRate     == 768000
NoFrame     == -1

ASSUME BoundAssumption == MaxFrames \in Nat /\ EngineBlock \in Nat \ {0} /\ MayStall \in BOOLEAN
ASSUME RegionAssumption ==
    /\ \A h \in Headers : h.capacity \in Nat /\ h.block \in Nat
    /\ Backlogs \subseteq Nat \X Nat
ASSUME PidAssumption == NoOne \notin Engines /\ Gone \notin Engines \cup {NoOne}

VARIABLES
    life,       \* the region: "absent", "empty", "sized" or "ready"
    hdr,        \* the fixed part of the header, once it is ready
    widx, ridx, \* write_idx, read_idx
    lock,       \* the word at kConsumerLockOffset
    ring,       \* the frames, one channel standing for all
    player,     \* the player: "idle", "writing" or "dead"
    filled,     \* frames of the block being written
    pc,         \* where each engine is
    rlocal,     \* read_idx_local_
    resynced,
    seen,       \* the holder a failed compare-and-swap has returned
    staged,     \* staging_flat_
    heard,      \* ghost: the last frame the engines were given
    inOrder,    \* ghost: every block given so far was whole and new
    rival       \* ghost: during its start() another engine held the lock

region   == <<life, hdr, widx, ridx, lock, ring>>
playVars == <<player, filled>>
pumpVars == <<rlocal, resynced, staged>>
ghosts   == <<heard, inOrder>>
vars == <<region, playVars, pc, seen, pumpVars, ghosts, rival>>

Cap   == hdr.capacity
Block == hdr.block
Slot(i) == i % Cap            \* the mask; gate 4 makes it the remainder

Running(e) == pc[e] \in {"run", "copy", "publish", "play"}
Consuming(e) == Running(e) \/ pc[e] \in {"store", "commit"}
Starting(e) == pc[e] \in {"lock", "probe", "steal"}
Dead(p) == p = Gone \/ pc[p] \in {"crashed", "stopped", "rejected", "refused"}
Others(e) == Engines \ {e}

Init ==
    /\ hdr \in Headers
    /\ \/ /\ life = "ready" /\ lock \in {NoOne, Gone}
          /\ \E b \in Backlogs : ridx = b[1] /\ widx = b[2]
       \/ life = "absent" /\ lock = NoOne /\ ridx = 0 /\ widx = 0
    /\ ring = [s \in 0 .. Cap - 1 |->
                 LET written == {i \in 0 .. widx - 1 : Slot(i) = s}
                 IN  IF written = {} THEN NoFrame
                     ELSE CHOOSE i \in written : \A j \in written : j <= i]
    /\ player = "idle" /\ filled = 0
    /\ pc = [e \in Engines |-> "new"]
    /\ rlocal = [e \in Engines |-> 0] /\ resynced = [e \in Engines |-> FALSE]
    /\ staged = [e \in Engines |-> <<>>] /\ seen = [e \in Engines |-> NoOne]
    /\ heard = NoFrame /\ inOrder = TRUE /\ rival = [e \in Engines |-> FALSE]

-------------------------------------------------------------------------------
(* The player creates a region that does not exist, gives it its size, all  *)
(* zeros, and writes the header, each in a call of its own.  It writes a    *)
(* block if there is room and drops it otherwise; the index is stored after *)
(* the frames.  It may die at any time.                                     *)

Becomes(old, new) ==
    /\ player = "idle" /\ life = old /\ life' = new
    /\ UNCHANGED <<hdr, widx, ridx, lock, ring, playVars, pc, seen, pumpVars, ghosts, rival>>

CreateRegion == Becomes("absent", "empty")
SizeRegion   == Becomes("empty", "sized")
WriteHeader  == Becomes("sized", "ready")

BeginWrite ==
    /\ player = "idle" /\ life = "ready" /\ widx + Block <= MaxFrames
    /\ widx - ridx + Block <= Cap
    /\ player' = "writing" /\ filled' = 0
    /\ UNCHANGED <<region, pc, seen, pumpVars, ghosts, rival>>

WriteFrame ==
    /\ player = "writing" /\ filled < Block
    /\ ring' = [ring EXCEPT ![Slot(widx + filled)] = widx + filled]
    /\ filled' = filled + 1
    /\ UNCHANGED <<life, hdr, widx, ridx, lock, player, pc, seen, pumpVars, ghosts, rival>>

EndWrite ==
    /\ player = "writing" /\ filled = Block
    /\ widx' = widx + Block
    /\ player' = "idle" /\ filled' = 0
    /\ UNCHANGED <<life, hdr, ridx, lock, ring, pc, seen, pumpVars, ghosts, rival>>

PlayerDies ==
    /\ player # "dead"
    /\ player' = "dead"
    /\ UNCHANGED <<region, filled, pc, seen, pumpVars, ghosts, rival>>

-------------------------------------------------------------------------------
(* attach() and the gates of start()                                        *)

Goto(e, l) == pc' = [pc EXCEPT ![e] = l]
OnlyMoves  == UNCHANGED <<region, playVars, seen, pumpVars, ghosts, rival>>

\* The bounds attach() checks before it maps the whole region.
Bounded(h) == h.channels \in 1 .. MaxChannels /\ h.capacity \in 1 .. MaxCapacity

\* SharedMemoryRegion::attach, which opens and does not create here: the bytes
\* asked for are mapped, whether or not the object has them.
Maps == life # "absent"

\* The header alone is mapped to learn the geometry.  Of an object that has no
\* size yet the mapping succeeds and the first access ends the process.
ProbeRegion(e) ==
    /\ pc[e] = "new"
    /\ \/ ~Maps /\ Goto(e, "rejected")
       \/ life = "empty" /\ Goto(e, "crashed")
       \/ life = "sized" /\ Goto(e, "rejected")             \* no channels
       \/ life = "ready" /\ Goto(e, IF Bounded(hdr) THEN "probed" ELSE "rejected")
    /\ OnlyMoves

\* An object smaller than its geometry is refused.
MapRegion(e) ==
    /\ pc[e] = "probed"
    /\ Goto(e, IF hdr.short THEN "rejected" ELSE "mapped")
    /\ OnlyMoves

IsPowerOfTwo(n) == n \in {2^k : k \in 0 .. 20}

\* Gates 1 to 5
Acceptable(h) ==
    /\ h.magic
    /\ h.block \in 1 .. MaxBlock /\ EngineBlock % h.block = 0 /\ h.block <= h.capacity
    /\ IsPowerOfTwo(h.capacity)
    /\ h.rate \in MinRate .. MaxRate

\* Mutant of Seed: the oldest frame is taken although it is overwritten.
SeedVerbatim == ridx

\* A backlog beyond the capacity has lost its oldest frames: begin with the
\* newest block.
Seed == IF widx - ridx > Cap THEN widx - Block ELSE ridx

Prepare(e) ==
    /\ pc[e] = "mapped"
    /\ IF Acceptable(hdr) /\ ridx <= widx
       THEN /\ pc' = [pc EXCEPT ![e] = "lock"]
            /\ rlocal' = [rlocal EXCEPT ![e] = Seed]
            /\ resynced' = [resynced EXCEPT ![e] = widx - ridx > Cap]
       ELSE /\ pc' = [pc EXCEPT ![e] = "rejected"]
            /\ UNCHANGED <<rlocal, resynced>>
    /\ rival' = [rival EXCEPT ![e] = lock \in Others(e) /\ ~Dead(lock)]
    /\ UNCHANGED <<region, playVars, seen, staged, ghosts>>

\* The lock changes hands: those inside start() meanwhile have seen a rival.
Hand(e) ==
    /\ lock' = e
    /\ rival' = [d \in Engines |-> rival[d] \/ (d # e /\ Starting(d))]

\* Gate 7: compare-and-swap 0 to the own pid.
TakeLock(e) ==
    /\ pc[e] = "lock"
    /\ \/ /\ lock = NoOne
          /\ Hand(e)
          /\ pc' = [pc EXCEPT ![e] = "store"]
          /\ UNCHANGED seen
       \/ /\ lock # NoOne
          /\ seen' = [seen EXCEPT ![e] = lock]
          /\ pc' = [pc EXCEPT ![e] = "probe"]
          /\ UNCHANGED <<lock, rival>>
    /\ UNCHANGED <<life, hdr, widx, ridx, ring, playVars, pumpVars, ghosts>>

\* Mutant of ProbeHolder: a lock that is held is respected for ever.
ProbeHolderNever(e) ==
    /\ pc[e] = "probe"
    /\ pc' = [pc EXCEPT ![e] = "refused"]
    /\ UNCHANGED <<region, playVars, seen, pumpVars, ghosts, rival>>

\* kill(holder, 0): a process that is gone may be robbed.
ProbeHolder(e) ==
    /\ pc[e] = "probe"
    /\ pc' = [pc EXCEPT ![e] = IF Dead(seen[e]) THEN "steal" ELSE "refused"]
    /\ UNCHANGED <<region, playVars, seen, pumpVars, ghosts, rival>>

\* Mutant of StealLock: the pid is stored, not compared and swapped.
StealLockByStore(e) ==
    /\ pc[e] = "steal"
    /\ Hand(e)
    /\ pc' = [pc EXCEPT ![e] = "store"]
    /\ UNCHANGED <<life, hdr, widx, ridx, ring, playVars, seen, pumpVars, ghosts>>

StealLock(e) ==
    /\ pc[e] = "steal"
    /\ \/ /\ lock = seen[e]
          /\ Hand(e)
          /\ pc' = [pc EXCEPT ![e] = "store"]
       \/ /\ lock # seen[e]
          /\ pc' = [pc EXCEPT ![e] = "refused"]
          /\ UNCHANGED <<lock, rival>>
    /\ UNCHANGED <<life, hdr, widx, ridx, ring, playVars, seen, pumpVars, ghosts>>

\* A resynchronised index is stored back.
StoreBack(e) ==
    /\ pc[e] = "store"
    /\ ridx' = IF resynced[e] THEN rlocal[e] ELSE ridx
    /\ Goto(e, "commit")
    /\ UNCHANGED <<life, hdr, widx, lock, ring, playVars, seen, pumpVars, ghosts, rival>>

\* The geometry is taken over, the staging allocated, the worker started.
Commit(e) ==
    /\ pc[e] = "commit" /\ Goto(e, "run")
    /\ staged' = [staged EXCEPT ![e] = <<>>]
    /\ UNCHANGED <<region, playVars, seen, rlocal, resynced, ghosts, rival>>

-------------------------------------------------------------------------------
(* pump_block()                                                             *)

\* An underrun plays silence and leaves the header alone.
Pump(e) ==
    /\ pc[e] = "run"
    /\ staged' = [staged EXCEPT ![e] = <<>>]
    /\ pc' = [pc EXCEPT ![e] = IF widx - rlocal[e] >= Block THEN "copy" ELSE "run"]
    /\ UNCHANGED <<region, playVars, seen, rlocal, resynced, ghosts, rival>>

CopyFrame(e) ==
    /\ pc[e] = "copy"
    /\ staged' = [staged EXCEPT ![e] = Append(@, ring[Slot(rlocal[e] + Len(@))])]
    /\ pc' = [pc EXCEPT ![e] = IF Len(staged'[e]) = Block THEN "publish" ELSE "copy"]
    /\ UNCHANGED <<region, playVars, seen, rlocal, resynced, ghosts, rival>>

PublishRead(e) ==
    /\ pc[e] = "publish"
    /\ rlocal' = [rlocal EXCEPT ![e] = @ + Block]
    /\ ridx' = rlocal'[e]
    /\ pc' = [pc EXCEPT ![e] = "play"]
    /\ UNCHANGED <<life, hdr, widx, lock, ring, playVars, seen, resynced, staged, ghosts, rival>>

\* The engine's audioBlock gets the staged frames.
Play(e) ==
    /\ pc[e] = "play"
    /\ heard' = staged[e][Block]
    /\ inOrder' = (inOrder /\ staged[e][1] > heard
                           /\ \A i \in 2 .. Block : staged[e][i] = staged[e][1] + i - 1)
    /\ staged' = [staged EXCEPT ![e] = <<>>]
    /\ pc' = [pc EXCEPT ![e] = "run"]
    /\ UNCHANGED <<region, playVars, seen, rlocal, resynced, rival>>

-------------------------------------------------------------------------------
(* stop(), at the daemon's exit, and a crash, which keeps the lock          *)

\* Unless MayStall, nobody gives the ring up while another start() stands
\* between reading the indices and gate 7.
NobodyStalls(e) == MayStall \/ \A d \in Others(e) : ~Starting(d)

\* What a process knew ends with it.
Forget(e) ==
    /\ rlocal' = [rlocal EXCEPT ![e] = 0] /\ resynced' = [resynced EXCEPT ![e] = FALSE]
    /\ staged' = [staged EXCEPT ![e] = <<>>] /\ seen' = [seen EXCEPT ![e] = NoOne]

\* The worker is joined between two blocks; then the lock is released.
Stop(e) ==
    /\ pc[e] = "run" /\ NobodyStalls(e)
    /\ lock' = NoOne
    /\ pc' = [pc EXCEPT ![e] = "stopped"]
    /\ Forget(e)
    /\ UNCHANGED <<life, hdr, widx, ridx, ring, playVars, ghosts, rival>>

Crash(e) ==
    /\ Starting(e) \/ Consuming(e)
    /\ NobodyStalls(e)
    /\ pc' = [pc EXCEPT ![e] = "crashed"]
    /\ Forget(e)
    /\ UNCHANGED <<region, playVars, ghosts, rival>>

-------------------------------------------------------------------------------
Start(e) == \/ ProbeRegion(e) \/ MapRegion(e) \/ Prepare(e) \/ TakeLock(e) \/ ProbeHolder(e) \/ StealLock(e) \/ StoreBack(e) \/ Commit(e)
Worker(e) == Pump(e) \/ CopyFrame(e) \/ PublishRead(e) \/ Play(e)
Player == \/ CreateRegion \/ SizeRegion \/ WriteHeader
          \/ BeginWrite \/ WriteFrame \/ EndWrite \/ PlayerDies

Next ==
    \/ Player
    \/ \E e \in Engines : Start(e) \/ Worker(e) \/ Stop(e) \/ Crash(e)

Spec == Init /\ [][Next]_vars

-------------------------------------------------------------------------------
(* Properties *)

\* However engine processes start, crash and find locks of the dead, at most one
\* is past gate 7; and start() refuses for the lock only if another engine that
\* lived held it at some time during the call: the lock of the dead never keeps
\* the ring shut (SharedRingBackend.cpp:209).
LockTrue ==
    /\ \A d, e \in Engines : Consuming(d) /\ Consuming(e) => d = e
    /\ \A e \in Engines : pc[e] = "refused" => rival[e]

\* The frames the engines render, one process after the other, are whole
\* blocks, each newer than the last, whatever state the region was found in
\* (SharedRingBackend.cpp:187, 396).
FramesInOrder == inOrder
===============================================================================
