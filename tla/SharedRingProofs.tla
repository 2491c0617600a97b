--------------------------- MODULE SharedRingProofs ---------------------------
(***************************************************************************)
(* Proofs about the ring in shared memory, for every set of engine         *)
(* processes, every geometry and every backlog a region may be found with. *)
(*                                                                         *)
(* LockTrue needs no hypothesis.  FramesInOrder assumes ~MayStall: without *)
(* it a start may use indices that it read before it had the lock.         *)
(***************************************************************************)
EXTENDS SharedRing, SequenceTheorems, TLAPS

Labels == {"new", "probed", "mapped", "lock", "probe", "steal", "store", "commit",
           "run", "copy", "publish", "play", "crashed", "stopped", "rejected", "refused"}
Pids   == Engines \cup {NoOne, Gone}

LockTypes ==
    /\ pc \in [Engines -> Labels]
    /\ seen \in [Engines -> Pids]
    /\ rival \in [Engines -> BOOLEAN]
    /\ lock \in Pids

\* The lock word names an engine exactly while it is past gate 7, or has
\* crashed there.
WordTrue ==
    \A e \in Engines : /\ Consuming(e) => lock = e
                       /\ lock = e => Consuming(e) \/ pc[e] = "crashed"

\* What an engine inside start() knows of the lock.
StartTrue ==
    \A e \in Engines :
        /\ \A d \in Others(e) : Starting(e) /\ lock = d /\ Consuming(d) => rival[e]
        /\ pc[e] \in {"probe", "steal"} => rival[e] \/ (lock = seen[e] /\ Dead(seen[e]))
        /\ pc[e] = "steal" => Dead(seen[e])
        /\ pc[e] = "refused" => rival[e]

LockInv == LockTypes /\ WordTrue /\ StartTrue

-------------------------------------------------------------------------------
LEMMA InitLock == Init => LockInv
<1> SUFFICES ASSUME Init PROVE LockInv
  OBVIOUS
<1>1. LockTypes
  BY DEF Init, LockTypes, Labels, Pids
<1>2. \A e \in Engines : pc[e] = "new" /\ lock # e
  BY PidAssumption DEF Init
<1> QED BY <1>1, <1>2 DEF LockInv, WordTrue, StartTrue, Consuming, Running, Starting

\* Steps that leave the lock, the ghosts of the lock and the program counters.
LEMMA QuietLock ==
    ASSUME LockInv, UNCHANGED <<pc, seen, rival, lock>>
    PROVE  LockInv'
BY DEF LockInv, LockTypes, WordTrue, StartTrue, Consuming, Running, Starting, Dead, Others

\* The lock of nobody alive passes to a starting engine.
LEMMA HandedOver ==
    ASSUME LockInv, NEW e \in Engines, Starting(e),
           \A d \in Engines : ~Consuming(d),
           Hand(e), pc' = [pc EXCEPT ![e] = "store"], UNCHANGED seen
    PROVE  LockInv'
<1> USE PidAssumption
<1> USE DEF LockInv, LockTypes, WordTrue, StartTrue, Consuming, Running, Starting,
            Dead, Others, Pids, Labels, Hand
<1>1. LockTypes'
  OBVIOUS
<1>2. WordTrue'
  OBVIOUS
<1>3. \A d \in Others(e) : Starting(d) => rival'[d]
  OBVIOUS
<1>4. \A d \in Others(e) : rival[d] => rival'[d]
  OBVIOUS
<1>5. StartTrue'
  BY <1>3, <1>4
<1> QED BY <1>1, <1>2, <1>5

\* Every step keeps the lock word true to the engines.
LEMMA StepLock ==
    ASSUME LockInv, [Next]_vars
    PROVE  LockInv'
<1> USE PidAssumption
<1> USE DEF LockInv, LockTypes, WordTrue, StartTrue, Consuming, Running, Starting,
            Dead, Others, Goto, OnlyMoves, region, playVars, pumpVars, ghosts, Pids, Labels
<1>1. CASE Player
  <2>1. UNCHANGED <<pc, seen, rival, lock>>
    BY <1>1 DEF Player, CreateRegion, SizeRegion, WriteHeader, Becomes, BeginWrite,
                WriteFrame, EndWrite, PlayerDies
  <2> HIDE DEF LockInv
  <2> QED BY <2>1, QuietLock
<1>2. ASSUME NEW e \in Engines, Start(e) PROVE LockInv'
  <2>1. CASE ProbeRegion(e)
    <3>1. pc[e] = "new" /\ lock # e /\ UNCHANGED <<seen, rival, lock>>
      BY <2>1 DEF ProbeRegion
    <3>2. \E l \in {"rejected", "crashed", "probed"} : pc' = [pc EXCEPT ![e] = l]
      BY <2>1 DEF ProbeRegion
    <3> QED BY <3>1, <3>2
  <2>2. CASE MapRegion(e)
    BY <2>2 DEF MapRegion
  <2>3. CASE Prepare(e)
    <3>1. pc[e] = "mapped" /\ lock # e /\ UNCHANGED <<seen, lock>>
      BY <2>3 DEF Prepare
    <3>2. \E l \in {"lock", "rejected"} : pc' = [pc EXCEPT ![e] = l]
      BY <2>3 DEF Prepare
    <3>3. rival' = [rival EXCEPT ![e] = lock \in Others(e) /\ ~Dead(lock)]
      BY <2>3 DEF Prepare
    <3>4. LockTypes' /\ WordTrue'
      BY <3>1, <3>2, <3>3
    <3>5. \A d \in Others(e) : /\ pc'[d] = pc[d] /\ rival'[d] = rival[d]
                               /\ Consuming(d)' <=> Consuming(d)
      BY <3>1, <3>2, <3>3
    <3>6. \A p \in Pids : Dead(p) => Dead(p)'
      BY <3>1, <3>2
    <3>7. \A d \in Others(e) : lock = d /\ Consuming(d) => rival'[e]
      BY <3>3
    <3>8. StartTrue'
      BY <3>1, <3>2, <3>5, <3>6, <3>7
    <3> QED BY <3>4, <3>8
  <2>4. CASE TakeLock(e)
    <3>1. CASE /\ lock = NoOne
               /\ Hand(e)
               /\ pc' = [pc EXCEPT ![e] = "store"]
               /\ UNCHANGED seen
      <4>1. Starting(e) /\ \A d \in Engines : ~Consuming(d)
        BY <2>4, <3>1 DEF TakeLock
      <4> HIDE DEF LockInv, Starting, Consuming
      <4> QED BY <3>1, <4>1, HandedOver
    <3>2. CASE /\ lock # NoOne
               /\ seen' = [seen EXCEPT ![e] = lock]
               /\ pc' = [pc EXCEPT ![e] = "probe"]
               /\ UNCHANGED <<lock, rival>>
      <4>1. pc[e] = "lock" /\ lock # e
        BY <2>4 DEF TakeLock
      <4>2. rival[e] \/ Dead(lock)
        BY <3>2, <4>1
      <4>3. LockTypes' /\ WordTrue'
        BY <3>2, <4>1
      <4> QED BY <3>2, <4>1, <4>2, <4>3
    <3> QED BY <2>4, <3>1, <3>2 DEF TakeLock
  <2>5. CASE ProbeHolder(e)
    BY <2>5 DEF ProbeHolder
  <2>6. CASE StealLock(e)
    <3>1. CASE /\ lock = seen[e]
               /\ Hand(e)
               /\ pc' = [pc EXCEPT ![e] = "store"]
      <4>1. Starting(e) /\ UNCHANGED seen /\ \A d \in Engines : ~Consuming(d)
        BY <2>6, <3>1 DEF StealLock
      <4> HIDE DEF LockInv, Starting, Consuming
      <4> QED BY <3>1, <4>1, HandedOver
    <3>2. CASE /\ lock # seen[e]
               /\ pc' = [pc EXCEPT ![e] = "refused"]
               /\ UNCHANGED <<lock, rival>>
      BY <2>6, <3>2 DEF StealLock
    <3> QED BY <2>6, <3>1, <3>2 DEF StealLock
  <2>7. CASE StoreBack(e)
    BY <2>7 DEF StoreBack
  <2>8. CASE Commit(e)
    BY <2>8 DEF Commit
  <2> QED BY <1>2, <2>1, <2>2, <2>3, <2>4, <2>5, <2>6, <2>7, <2>8 DEF Start
<1>3. ASSUME NEW e \in Engines, Worker(e) PROVE LockInv'
  <2>1. CASE Pump(e)
    BY <2>1 DEF Pump
  <2>2. CASE CopyFrame(e)
    BY <2>2 DEF CopyFrame
  <2>3. CASE PublishRead(e)
    BY <2>3 DEF PublishRead
  <2>4. CASE Play(e)
    BY <2>4 DEF Play
  <2> QED BY <1>3, <2>1, <2>2, <2>3, <2>4 DEF Worker
<1>4. ASSUME NEW e \in Engines, Stop(e) PROVE LockInv'
  BY <1>4 DEF Stop, Forget
<1>5. ASSUME NEW e \in Engines, Crash(e) PROVE LockInv'
  BY <1>5 DEF Crash, Forget
<1>6. CASE UNCHANGED vars
  <2>1. UNCHANGED <<pc, seen, rival, lock>>
    BY <1>6 DEF vars
  <2> HIDE DEF LockInv
  <2> QED BY <2>1, QuietLock
<1> QED BY <1>1, <1>2, <1>3, <1>4, <1>5, <1>6 DEF Next

\* At most one engine is past gate 7 at any time, however processes start,
\* crash and rob the dead, and a start() refused for the lock met a living
\* holder (SharedRingBackend.cpp:209).
THEOREM LockAlwaysTrue == Spec => []LockTrue
<1>1. LockInv => LockTrue
  BY PidAssumption DEF LockInv, WordTrue, StartTrue, LockTrue
<1> QED BY InitLock, StepLock, <1>1, PTL DEF Spec

-------------------------------------------------------------------------------
FrameTypes ==
    /\ widx \in Nat /\ ridx \in Nat /\ filled \in Nat /\ heard \in Int
    /\ player \in {"idle", "writing", "dead"}
    /\ rlocal \in [Engines -> Nat]
    /\ resynced \in [Engines -> BOOLEAN]
    /\ staged \in [Engines -> Seq(Int)]
    /\ ring = [s \in 0 .. Cap - 1 |-> ring[s]]

\* The frames of one capacity before the next to be written are in the ring.
RingTrue ==
    \A i \in Nat : i < widx + filled /\ widx + filled <= i + Cap => ring[Slot(i)] = i

\* A block is written only where there is room for it, and nothing was heard
\* that the header does not count as read.
WriterTrue ==
    /\ player = "idle" => filled = 0
    /\ filled <= Block
    /\ player = "writing" \/ filled > 0 => widx + Block <= ridx + Cap
    /\ heard < ridx

\* An engine that may become the consumer, or just has: the index it begins
\* with is still the right one.
Entering(e) == \/ pc[e] = "store"
               \/ Starting(e) /\ \A d \in Engines : ~Consuming(d)
SeedTrue ==
    \A e \in Engines : Entering(e) =>
        /\ ridx <= widx
        /\ resynced[e]  => ridx + Cap < widx /\ rlocal[e] = widx - Block
        /\ ~resynced[e] => rlocal[e] = ridx /\ widx <= ridx + Cap

\* The consumer is where the header says, and what it has staged are the frames
\* from there on; once published, the block before.
Holding(e) == pc[e] \in {"commit", "run", "copy", "publish", "play"}
PumpAt(e) ==
    /\ rlocal[e] = ridx /\ ridx <= widx /\ widx <= ridx + Cap
    /\ pc[e] \in {"copy", "publish"} =>
          /\ ridx + Block <= widx
          /\ \A i \in 1 .. Len(staged[e]) : staged[e][i] = ridx + i - 1
    /\ pc[e] = "copy" => Len(staged[e]) < Block
    /\ pc[e] \in {"publish", "play"} => Len(staged[e]) = Block
    /\ pc[e] = "play" =>
          /\ heard < ridx - Block
          /\ \A i \in 1 .. Block : staged[e][i] = ridx - Block + i - 1
PumpTrue == \A e \in Engines : Holding(e) => PumpAt(e)

Flow == FrameTypes /\ RingTrue /\ WriterTrue /\ SeedTrue /\ PumpTrue

\* A region that gate 4 refuses never has a consumer.
FrameInv ==
    /\ inOrder /\ hdr \in Headers
    /\ Acceptable(hdr) => Flow
    /\ ~Acceptable(hdr) => \A e \in Engines : ~Starting(e) /\ ~Consuming(e)

-------------------------------------------------------------------------------
(* Arithmetic of the ring's slots                                           *)

LEMMA Division ==
    ASSUME NEW a \in Int, NEW c \in Nat \ {0}
    PROVE  /\ a = c * (a \div c) + (a % c)
           /\ a \div c \in Int /\ a % c \in 0 .. c - 1
OBVIOUS

LEMMA NoMultiple ==
    ASSUME NEW q \in Int, NEW c \in Nat \ {0}, 0 < c * q, c * q < c
    PROVE  FALSE
<1>1. CASE q <= 0
  BY <1>1
<1>2. CASE q >= 1
  BY <1>2
<1> QED BY <1>1, <1>2

\* Frames less than a capacity apart lie in different slots.
LEMMA SlotsDiffer ==
    ASSUME NEW a \in Int, NEW b \in Int, NEW c \in Nat \ {0}, a < b, b < a + c
    PROVE  a % c # b % c
<1> SUFFICES ASSUME a % c = b % c PROVE FALSE
  OBVIOUS
<1> DEFINE p == a \div c  q == b \div c  r == a % c
<1>1. a = c * p + r /\ b = c * q + r /\ p \in Int /\ q \in Int /\ r \in Int
  BY Division
<1> HIDE DEF p, q, r
<1>2. 0 < c * (q - p) /\ c * (q - p) < c /\ q - p \in Int
  BY <1>1
<1> QED BY <1>2, NoMultiple

\* What the gates say of the geometry.
LEMMA Geometry ==
    ASSUME hdr \in Headers, Acceptable(hdr)
    PROVE  /\ Cap \in Nat \ {0} /\ Block \in Nat \ {0} /\ Block <= Cap
           /\ \A i \in Nat : Slot(i) \in 0 .. Cap - 1
           /\ \A i \in Nat : \A j \in Nat : i < j /\ j < i + Cap => Slot(i) # Slot(j)
<1>1. Cap \in Nat \ {0} /\ Block \in Nat \ {0} /\ Block <= Cap
  BY RegionAssumption DEF Acceptable, Cap, Block, MaxBlock
<1>2. \A i \in Nat : Slot(i) \in 0 .. Cap - 1
  BY <1>1, Division DEF Slot
<1>3. ASSUME NEW i \in Nat, NEW j \in Nat, i < j, j < i + Cap PROVE Slot(i) # Slot(j)
  <2>1. i \in Int /\ j \in Int /\ Cap \in Nat \ {0}
    BY <1>1
  <2>2. i % Cap # j % Cap
    BY <1>3, <2>1, SlotsDiffer, Zenon
  <2> QED BY <2>2 DEF Slot
<1> QED BY <1>1, <1>2, <1>3

-------------------------------------------------------------------------------
(* Steps of the player                                                      *)

\* The initial ring holds the newest frames, whatever was read of them.
LEMMA InitFrames == Init => FrameInv
<1> SUFFICES ASSUME Init PROVE FrameInv
  OBVIOUS
<1>1. inOrder /\ hdr \in Headers /\ widx \in Nat /\ ridx \in Nat /\ heard = -1
  BY RegionAssumption DEF Init, NoFrame
<1>2. \A e \in Engines : pc[e] = "new"
  BY DEF Init
<1>3. \A e \in Engines : ~Starting(e) /\ ~Consuming(e) /\ ~Holding(e) /\ ~Entering(e)
  BY <1>2 DEF Starting, Consuming, Running, Holding, Entering
<1>4. ASSUME Acceptable(hdr) PROVE Flow
  <2>1. FrameTypes
    BY <1>1 DEF Init, FrameTypes
  <2>2. WriterTrue
    BY <1>1, <1>4, Geometry DEF Init, WriterTrue
  <2>3. ASSUME NEW i \in Nat, i < widx, widx <= i + Cap PROVE ring[Slot(i)] = i
    <3> DEFINE written == {k \in 0 .. widx - 1 : Slot(k) = Slot(i)}
    <3>1. /\ Cap \in Nat /\ Slot(i) \in 0 .. Cap - 1
          /\ \A k, j \in Nat : k < j /\ j < k + Cap => Slot(k) # Slot(j)
      BY <1>1, <1>4, Geometry
    <3>2. i \in written
      BY <1>1, <2>3
    <3>3. \A k \in written : k <= i
      BY <1>1, <2>3, <3>1
    <3>4. ring[Slot(i)] = CHOOSE k \in written : \A j \in written : j <= k
      BY <3>1, <3>2 DEF Init
    <3>5. \A k \in written : k \in Int /\ ((\A j \in written : j <= k) => k = i)
      BY <1>1, <3>2, <3>3
    <3> HIDE DEF written
    <3> QED BY <3>2, <3>3, <3>4, <3>5
  <2>4. RingTrue
    BY <1>1, <2>3 DEF Init, RingTrue
  <2> QED BY <1>3, <2>1, <2>2, <2>4 DEF Flow, SeedTrue, PumpTrue, PumpAt
<1> QED BY <1>1, <1>3, <1>4 DEF FrameInv

\* Steps after which everything the invariant speaks of is as it was.
LEMMA QuietFrames ==
    ASSUME FrameInv, UNCHANGED <<hdr, widx, ridx, ring, playVars, pc, pumpVars, ghosts>>
    PROVE  FrameInv'
BY DEF FrameInv, Flow, FrameTypes, RingTrue, WriterTrue, SeedTrue, PumpTrue, PumpAt, Entering,
       Holding, Starting, Consuming, Running, Cap, Block, Slot, playVars, pumpVars, ghosts

\* Where nobody consumes, the seeds and the pump are of no interest.
LEMMA RefusedFrames ==
    ASSUME FrameInv, ~Acceptable(hdr), [Next]_vars
    PROVE  FrameInv'
<1> USE DEF FrameInv, Starting, Consuming, Running, Goto, OnlyMoves, region, playVars,
            pumpVars, ghosts
<1>1. CASE Player
  BY <1>1 DEF Player, CreateRegion, SizeRegion, WriteHeader, Becomes, BeginWrite,
              WriteFrame, EndWrite, PlayerDies
<1>2. ASSUME NEW e \in Engines, Start(e) PROVE FrameInv'
  <2>1. ProbeRegion(e) \/ MapRegion(e) \/ Prepare(e)
    BY <1>2 DEF Start, TakeLock, ProbeHolder, StealLock, StoreBack, Commit
  <2>2. /\ inOrder' = inOrder /\ hdr' = hdr
        /\ \E l \in Labels \ {"lock", "probe", "steal", "run", "copy", "publish", "play",
                             "store", "commit"} : pc' = [pc EXCEPT ![e] = l]
    BY <2>1 DEF ProbeRegion, MapRegion, Prepare, Labels
  <2> QED BY <2>2
<1>3. ASSUME NEW e \in Engines, Worker(e) PROVE FrameInv'
  BY <1>3 DEF Worker, Pump, CopyFrame, PublishRead, Play
<1>4. ASSUME NEW e \in Engines, Stop(e) PROVE FrameInv'
  BY <1>4 DEF Stop, Forget
<1>5. ASSUME NEW e \in Engines, Crash(e) PROVE FrameInv'
  BY <1>5 DEF Crash, Forget
<1>6. CASE UNCHANGED vars
  BY <1>6 DEF vars
<1> QED BY <1>1, <1>2, <1>3, <1>4, <1>5, <1>6 DEF Next


\* The player's steps keep the flow of frames: a frame is written over one more
\* than a capacity older, for which the reader has made room.
LEMMA PlayerFrames ==
    ASSUME FrameInv, Acceptable(hdr), Player
    PROVE  FrameInv'
<1>f. inOrder /\ hdr \in Headers /\ FrameTypes /\ RingTrue /\ WriterTrue /\ SeedTrue /\ PumpTrue
  BY DEF FrameInv, Flow
<1>g. /\ Cap \in Nat \ {0} /\ Block \in Nat \ {0} /\ Block <= Cap
  BY <1>f, Geometry
<1>s. /\ \A i \in Nat : Slot(i) \in 0 .. Cap - 1
      /\ \A i \in Nat : \A j \in Nat : i < j /\ j < i + Cap => Slot(i) # Slot(j)
  BY <1>f, Geometry
<1>h. /\ hdr' = hdr /\ ridx' = ridx /\ pc' = pc /\ rlocal' = rlocal /\ resynced' = resynced
      /\ staged' = staged /\ heard' = heard /\ inOrder' = inOrder
  BY DEF Player, CreateRegion, SizeRegion, WriteHeader, Becomes, BeginWrite,
         WriteFrame, EndWrite, PlayerDies, region, pumpVars, ghosts
<1>c. Cap' = Cap /\ Block' = Block /\ \A i \in Nat : Slot(i)' = Slot(i)
  BY <1>h DEF Cap, Block, Slot
<1>t. /\ widx \in Nat /\ ridx \in Nat /\ filled \in Nat
  BY <1>f DEF FrameTypes
<1>q. SUFFICES FrameTypes' /\ RingTrue' /\ WriterTrue' /\ SeedTrue' /\ PumpTrue'
  BY <1>f, <1>h DEF FrameInv, Flow
<1>1. CASE CreateRegion \/ SizeRegion \/ WriteHeader
  <2>1. UNCHANGED <<hdr, widx, ridx, ring, playVars, pc, pumpVars, ghosts>>
    BY <1>1 DEF CreateRegion, SizeRegion, WriteHeader, Becomes
  <2>2. FrameInv'
    BY <2>1, QuietFrames
  <2> QED BY <1>h, <2>2 DEF FrameInv, Flow
<1>2. CASE BeginWrite \/ PlayerDies
  <2>1. widx' = widx /\ ring' = ring
    BY <1>2 DEF BeginWrite, PlayerDies, region
  <2>2. filled' = filled
    BY <1>2, <1>f DEF BeginWrite, PlayerDies, WriterTrue
  <2>3. player' \in {"writing", "dead"} /\ (player' = "writing" => widx + Block <= ridx + Cap)
    BY <1>2, <1>f, <1>g, <1>t DEF BeginWrite, PlayerDies, WriterTrue
  <2>4. FrameTypes'
    BY <1>f, <1>h, <1>c, <2>1, <2>2, <2>3 DEF FrameTypes
  <2>5. WriterTrue'
    BY <1>f, <1>h, <1>c, <2>1, <2>2, <2>3 DEF WriterTrue
  <2>6. RingTrue' /\ SeedTrue' /\ PumpTrue'
    BY <1>f, <1>h, <1>c, <2>1, <2>2 DEF RingTrue, SeedTrue, PumpTrue, PumpAt, Entering, Starting,
                                        Consuming, Running, Holding
  <2> QED BY <2>4, <2>5, <2>6
<1>3. CASE WriteFrame
  <2>1. /\ filled < Block /\ filled' = filled + 1 /\ widx' = widx /\ player' = player
        /\ player = "writing"
        /\ ring' = [ring EXCEPT ![Slot(widx + filled)] = widx + filled]
    BY <1>3 DEF WriteFrame
  <2>2. ring' = [s \in 0 .. Cap - 1 |-> ring'[s]]
    BY <1>f, <2>1 DEF FrameTypes
  <2>3. FrameTypes'
    BY <1>f, <1>h, <1>c, <2>1, <2>2 DEF FrameTypes
  <2>4. WriterTrue'
    BY <1>f, <1>g, <1>t, <1>h, <1>c, <2>1 DEF WriterTrue
  <2>5. ASSUME NEW i \in Nat, i < widx + filled + 1, widx + filled + 1 <= i + Cap
        PROVE  ring'[Slot(i)] = i
    <3>1. widx + filled \in Nat /\ Slot(i) \in DOMAIN ring
      BY <1>f, <1>s, <1>t DEF FrameTypes
    <3>2. CASE i = widx + filled
      BY <2>1, <3>1, <3>2
    <3>3. CASE i < widx + filled
      <4>1. Slot(i) # Slot(widx + filled)
        BY <1>g, <1>s, <2>5, <3>1, <3>3
      <4>2. ring[Slot(i)] = i
        BY <1>f, <1>g, <1>t, <2>5, <3>3 DEF RingTrue
      <4> QED BY <2>1, <3>1, <4>1, <4>2
    <3> QED BY <1>t, <2>5, <3>2, <3>3
  <2>6. RingTrue'
    BY <1>c, <1>t, <2>1, <2>5 DEF RingTrue
  <2>7. SeedTrue' /\ PumpTrue'
    BY <1>f, <1>h, <1>c, <2>1 DEF SeedTrue, PumpTrue, PumpAt, Entering, Starting, Consuming,
                                  Running, Holding
  <2> QED BY <2>3, <2>4, <2>6, <2>7
<1>4. CASE EndWrite
  <2>1. /\ filled = Block /\ player = "writing" /\ widx' = widx + Block
        /\ player' = "idle" /\ filled' = 0 /\ ring' = ring
    BY <1>4 DEF EndWrite
  <2>2. widx + Block <= ridx + Cap
    BY <1>f, <2>1 DEF WriterTrue
  <2>3. FrameTypes'
    BY <1>f, <1>g, <1>h, <1>c, <2>1 DEF FrameTypes
  <2>4. WriterTrue'
    BY <1>f, <1>g, <1>h, <1>c, <2>1 DEF WriterTrue
  <2>5. RingTrue'
    BY <1>f, <1>g, <1>t, <1>c, <2>1 DEF RingTrue
  <2>6. \A e \in Engines : rlocal[e] \in Nat
    BY <1>f DEF FrameTypes
  <2>7. SeedTrue'
    BY <1>f, <1>g, <1>t, <1>h, <1>c, <2>1, <2>2, <2>6
       DEF SeedTrue, Entering, Starting, Consuming, Running
  <2>8. PumpTrue'
    BY <1>f, <1>g, <1>t, <1>h, <1>c, <2>1, <2>2, <2>6 DEF PumpTrue, PumpAt, Holding
  <2> QED BY <2>3, <2>4, <2>5, <2>7, <2>8
<1> QED BY <1>1, <1>2, <1>3, <1>4 DEF Player

-------------------------------------------------------------------------------
(* Steps of an engine                                                       *)

\* What every step of engine e leaves to the others.
Alone(e) ==
    \A d \in Others(e) : /\ pc'[d] = pc[d] /\ rlocal'[d] = rlocal[d]
                         /\ resynced'[d] = resynced[d] /\ staged'[d] = staged[d]

\* A step inside start(): the header, the ring and the ghosts stay, and the
\* engine is where it may become the consumer only with a true seed.
LEMMA StartFrames ==
    ASSUME FrameInv, Acceptable(hdr), NEW e \in Engines, LockTypes,
           UNCHANGED <<hdr, widx, ridx, ring, playVars, ghosts, staged>>,
           rlocal' \in [Engines -> Nat], resynced' \in [Engines -> BOOLEAN],
           Alone(e),
           pc' \in [Engines -> Labels], ~Holding(e)',
           \A d \in Engines : Consuming(d) => Consuming(d)',
           Entering(e)' =>
              /\ ridx <= widx
              /\ resynced'[e]  => ridx + Cap < widx /\ rlocal'[e] = widx - Block
              /\ ~resynced'[e] => rlocal'[e] = ridx /\ widx <= ridx + Cap
    PROVE  FrameInv'
<1>f. inOrder /\ hdr \in Headers /\ FrameTypes /\ RingTrue /\ WriterTrue /\ SeedTrue /\ PumpTrue
  BY DEF FrameInv, Flow
<1>h. /\ hdr' = hdr /\ ridx' = ridx /\ widx' = widx /\ ring' = ring /\ player' = player
      /\ filled' = filled /\ staged' = staged /\ heard' = heard /\ inOrder' = inOrder
  BY DEF playVars, ghosts
<1>c. Cap' = Cap /\ Block' = Block /\ \A i \in Nat : Slot(i)' = Slot(i)
  BY <1>h DEF Cap, Block, Slot
<1>1. FrameTypes'
  BY <1>f, <1>h, <1>c DEF FrameTypes
<1>2. RingTrue' /\ WriterTrue'
  BY <1>f, <1>h, <1>c DEF RingTrue, WriterTrue
<1>3. ASSUME NEW d \in Others(e), Entering(d)' PROVE Entering(d)
  BY <1>3 DEF Entering, Alone, Others, Starting
<1>4. SeedTrue'
  BY <1>f, <1>h, <1>c, <1>3 DEF SeedTrue, Alone, Others
<1>5. PumpTrue'
  <2> SUFFICES ASSUME NEW d \in Engines, Holding(d)' PROVE PumpAt(d)'
    BY DEF PumpTrue
  <2>1. /\ pc'[d] = pc[d] /\ rlocal'[d] = rlocal[d] /\ staged'[d] = staged[d]
    BY <1>h DEF Alone, Others
  <2>2. PumpAt(d)
    BY <1>f, <2>1 DEF PumpTrue, Holding
  <2> QED BY <1>h, <1>c, <2>1, <2>2 DEF PumpAt
<1> QED BY <1>f, <1>h, <1>1, <1>2, <1>4, <1>5 DEF FrameInv, Flow

\* A step of the consumer, who is alone: what it does to the header and to
\* itself is all there is to look at.
ConsumerStep(e, index, frame) ==
    /\ UNCHANGED <<hdr, widx, ring, player, filled, resynced>> /\ Alone(e)
    /\ Consuming(e)' /\ \A d \in Others(e) : ~Consuming(d)
    /\ pc'[e] # "store"
    /\ ridx' = index /\ ridx <= index /\ heard' = frame /\ frame < index /\ inOrder'
    /\ rlocal' \in [Engines -> Nat] /\ staged' \in [Engines -> Seq(Int)]
    /\ PumpAt(e)'

LEMMA ConsumerFrames ==
    ASSUME FrameInv, Acceptable(hdr), NEW e \in Engines, NEW index \in Nat, NEW frame \in Int,
           ConsumerStep(e, index, frame)
    PROVE  FrameInv'
<1>f. inOrder /\ hdr \in Headers /\ FrameTypes /\ RingTrue /\ WriterTrue /\ SeedTrue /\ PumpTrue
  BY DEF FrameInv, Flow
<1>g. Cap \in Nat \ {0} /\ Block \in Nat \ {0}
  BY <1>f, Geometry
<1>h. /\ hdr' = hdr /\ widx' = widx /\ ring' = ring /\ player' = player
      /\ filled' = filled /\ resynced' = resynced
  BY DEF ConsumerStep
<1>c. Cap' = Cap /\ Block' = Block /\ \A i \in Nat : Slot(i)' = Slot(i)
  BY <1>h DEF Cap, Block, Slot
<1>t. widx \in Nat /\ ridx \in Nat /\ filled \in Nat
  BY <1>f DEF FrameTypes
<1>r. ridx' = index /\ ridx <= index /\ heard' = frame /\ frame < index
  BY DEF ConsumerStep
<1>1. FrameTypes'
  BY <1>f, <1>h, <1>c, <1>r DEF FrameTypes, ConsumerStep
<1>2. RingTrue'
  BY <1>f, <1>h, <1>c DEF RingTrue
<1>3. WriterTrue'
  BY <1>f, <1>g, <1>t, <1>h, <1>c, <1>r DEF WriterTrue
<1>4. \A d \in Engines : ~Entering(d)'
  <2>1. pc'[e] # "store" /\ \A d \in Others(e) : pc'[d] # "store"
    BY DEF Others, Alone, Consuming, ConsumerStep
  <2>2. \E d \in Engines : Consuming(d)'
    BY DEF ConsumerStep
  <2> QED BY <2>1, <2>2 DEF Entering, Others
<1>5. \A d \in Engines : Holding(d)' => d = e
  BY DEF Holding, Consuming, Running, Others, Alone, ConsumerStep
<1>6. SeedTrue' /\ PumpTrue'
  BY <1>4, <1>5 DEF SeedTrue, PumpTrue, ConsumerStep
<1> QED BY <1>f, <1>h, <1>1, <1>2, <1>3, <1>6 DEF FrameInv, Flow, ConsumerStep

\* Inside start(): only Prepare sets the seed, and whoever gets the lock has had
\* it to itself since.
LEMMA EnterFrames ==
    ASSUME LockInv, FrameInv, Acceptable(hdr), NEW e \in Engines,
           \/ ProbeRegion(e) \/ MapRegion(e) \/ Prepare(e) \/ TakeLock(e) \/ ProbeHolder(e)
           \/ StealLock(e)
    PROVE  FrameInv'
<1>f. /\ hdr \in Headers /\ FrameTypes /\ SeedTrue /\ LockTypes /\ WordTrue /\ StartTrue
  BY DEF FrameInv, Flow, LockInv
<1>g. /\ Cap \in Nat \ {0} /\ Block \in Nat \ {0} /\ Block <= Cap
  BY <1>f, Geometry
<1>t. /\ widx \in Nat /\ ridx \in Nat /\ rlocal \in [Engines -> Nat]
      /\ resynced \in [Engines -> BOOLEAN] /\ pc \in [Engines -> Labels]
  BY <1>f DEF FrameTypes, LockTypes
<1>h. UNCHANGED <<hdr, widx, ridx, ring, playVars, ghosts, staged>>
  BY DEF ProbeRegion, MapRegion, Prepare, TakeLock, ProbeHolder, StealLock, Hand,
         OnlyMoves, region, playVars, pumpVars, ghosts
<1>1. CASE Prepare(e)
  <2>1. CASE Acceptable(hdr) /\ ridx <= widx
    <3>1. /\ pc' = [pc EXCEPT ![e] = "lock"]
          /\ rlocal' = [rlocal EXCEPT ![e] = Seed]
          /\ resynced' = [resynced EXCEPT ![e] = widx - ridx > Cap]
      BY <1>1, <2>1 DEF Prepare
    <3>2. Seed \in Nat /\ (widx - ridx > Cap) \in BOOLEAN
      BY <1>g, <1>t DEF Seed
    <3>3. rlocal' \in [Engines -> Nat] /\ resynced' \in [Engines -> BOOLEAN]
      BY <1>t, <3>1, <3>2
    <3>4. Alone(e)
      BY <1>h, <1>t, <3>1 DEF Alone, Others
    <3>5. pc' \in [Engines -> Labels] /\ ~Holding(e)'
      BY <1>t, <3>1 DEF Holding, Labels
    <3>6. \A d \in Engines : Consuming(d) => Consuming(d)'
      BY <1>1, <1>t, <3>1 DEF Prepare, Consuming, Running
    <3>7. /\ resynced'[e]  => ridx + Cap < widx /\ rlocal'[e] = widx - Block
          /\ ~resynced'[e] => rlocal'[e] = ridx /\ widx <= ridx + Cap
      <4>1. rlocal'[e] = Seed /\ resynced'[e] = (widx - ridx > Cap)
        BY <1>t, <3>1
      <4>2. CASE widx - ridx > Cap
        <5>1. Seed = widx - Block /\ ridx + Cap < widx
          BY <1>t, <1>g, <4>2 DEF Seed
        <5> QED BY <4>1, <4>2, <5>1
      <4>3. CASE ~(widx - ridx > Cap)
        <5>1. Seed = ridx /\ widx <= ridx + Cap
          BY <1>t, <1>g, <4>3 DEF Seed
        <5> QED BY <4>1, <4>3, <5>1
      <4> QED BY <4>2, <4>3
    <3> QED BY <1>f, <1>h, <2>1, <3>3, <3>4, <3>5, <3>6, <3>7, StartFrames
  <2>2. CASE ~(Acceptable(hdr) /\ ridx <= widx)
    <3>1. pc' = [pc EXCEPT ![e] = "rejected"] /\ rlocal' = rlocal /\ resynced' = resynced
      BY <1>1, <2>2 DEF Prepare
    <3>2. Alone(e)
      BY <1>h, <1>t, <3>1 DEF Alone, Others
    <3>3. pc' \in [Engines -> Labels] /\ ~Holding(e)' /\ ~Entering(e)'
      BY <1>t, <3>1 DEF Holding, Entering, Starting, Labels
    <3>4. \A d \in Engines : Consuming(d) => Consuming(d)'
      BY <1>1, <1>t, <3>1 DEF Prepare, Consuming, Running
    <3> QED BY <1>f, <1>h, <1>t, <3>1, <3>2, <3>3, <3>4, StartFrames
  <2> QED BY <2>1, <2>2
<1>2. CASE ProbeRegion(e) \/ MapRegion(e)
  <2>1. /\ \E l \in {"rejected", "crashed", "probed", "mapped"} : pc' = [pc EXCEPT ![e] = l]
        /\ rlocal' = rlocal /\ resynced' = resynced /\ ~Consuming(e)
    BY <1>2 DEF ProbeRegion, MapRegion, Goto, OnlyMoves, pumpVars, Consuming, Running
  <2>2. Alone(e)
    BY <1>h, <1>t, <2>1 DEF Alone, Others
  <2>3. pc' \in [Engines -> Labels] /\ ~Holding(e)' /\ ~Entering(e)'
    BY <1>t, <2>1 DEF Holding, Entering, Starting, Labels
  <2>4. \A d \in Engines : Consuming(d) => Consuming(d)'
    BY <1>t, <2>1 DEF Consuming, Running
  <2> QED BY <1>f, <1>h, <1>t, <2>1, <2>2, <2>3, <2>4, StartFrames
<1>3. CASE TakeLock(e) \/ ProbeHolder(e) \/ StealLock(e)
  <2>1. /\ \E l \in {"store", "probe", "steal", "refused"} : pc' = [pc EXCEPT ![e] = l]
        /\ rlocal' = rlocal /\ resynced' = resynced /\ Starting(e)
    BY <1>3 DEF TakeLock, ProbeHolder, StealLock, pumpVars, Starting
  <2>2. Alone(e)
    BY <1>h, <1>t, <2>1 DEF Alone, Others
  <2>3. pc' \in [Engines -> Labels] /\ ~Holding(e)'
    BY <1>t, <2>1 DEF Holding, Labels
  <2>4. \A d \in Engines : Consuming(d) => Consuming(d)'
    BY <1>t, <2>1 DEF Consuming, Running, Starting
  <2>5. ASSUME pc'[e] = "store" PROVE \A d \in Engines : ~Consuming(d)
    BY <1>3, <1>f, <1>t, <2>5, PidAssumption
       DEF TakeLock, ProbeHolder, StealLock, WordTrue, StartTrue, Consuming, Running, Dead
  <2>6. Entering(e)' => Entering(e)
    BY <2>1, <2>4, <2>5 DEF Entering
  <2> QED BY <1>f, <1>h, <1>t, <2>1, <2>2, <2>3, <2>4, <2>6, StartFrames DEF SeedTrue
<1> QED BY <1>1, <1>2, <1>3

\* Past gate 7 the consumer is alone.
LEMMA ConsumerAlone ==
    ASSUME LockInv, NEW e \in Engines, Consuming(e)
    PROVE  \A d \in Others(e) : ~Consuming(d)
BY DEF LockInv, WordTrue, Others

\* The consumer takes its index over, stages the frames it finds there, publishes
\* the index and plays.
LEMMA PumpFrames ==
    ASSUME LockInv, FrameInv, Acceptable(hdr), NEW e \in Engines,
           StoreBack(e) \/ Commit(e) \/ Worker(e)
    PROVE  FrameInv'
<1>f. /\ inOrder /\ hdr \in Headers /\ FrameTypes /\ RingTrue /\ WriterTrue /\ SeedTrue
      /\ PumpTrue /\ pc \in [Engines -> Labels]
  BY DEF FrameInv, Flow, LockInv, LockTypes
<1>g. /\ Cap \in Nat \ {0} /\ Block \in Nat \ {0} /\ Block <= Cap
  BY <1>f, Geometry
<1>t. /\ widx \in Nat /\ ridx \in Nat /\ filled \in Nat /\ heard \in Int
      /\ rlocal \in [Engines -> Nat] /\ resynced \in [Engines -> BOOLEAN]
      /\ staged \in [Engines -> Seq(Int)] /\ heard < ridx
  BY <1>f DEF FrameTypes, WriterTrue
<1>1. Consuming(e) /\ \A d \in Others(e) : ~Consuming(d)
  BY ConsumerAlone DEF StoreBack, Commit, Worker, Pump, CopyFrame, PublishRead, Play,
                       Consuming, Running
<1>h. /\ UNCHANGED <<hdr, widx, ring, player, filled, resynced>> /\ Alone(e)
      /\ \E l \in {"commit", "run", "copy", "publish", "play"} : pc' = [pc EXCEPT ![e] = l]
  <2>1. /\ UNCHANGED <<hdr, widx, ring, player, filled, resynced>>
        /\ rlocal' = rlocal \/ \E n : rlocal' = [rlocal EXCEPT ![e] = n]
        /\ staged' = staged \/ \E q : staged' = [staged EXCEPT ![e] = q]
    BY DEF StoreBack, Commit, Worker, Pump, CopyFrame, PublishRead, Play, Goto, region,
           playVars, pumpVars, ghosts
  <2>2. \E l : l \in {"commit", "run", "copy", "publish", "play"} /\ pc' = [pc EXCEPT ![e] = l]
    <3>1. CASE StoreBack(e) \/ Commit(e) \/ PublishRead(e) \/ Play(e)
      BY <3>1 DEF StoreBack, Commit, PublishRead, Play, Goto
    <3>2. CASE Pump(e)
      BY <3>2 DEF Pump
    <3>3. CASE CopyFrame(e)
      BY <3>3 DEF CopyFrame
    <3> QED BY <3>1, <3>2, <3>3 DEF Worker
  <2>3. Alone(e)
    BY <1>f, <1>t, <2>1, <2>2 DEF Alone, Others
  <2> QED BY <2>1, <2>2, <2>3
<1>c. Cap' = Cap /\ Block' = Block /\ Consuming(e)' /\ pc'[e] # "store"
  BY <1>f, <1>h DEF Cap, Block, Consuming, Running
<1>2. CASE StoreBack(e)
  <2>1. /\ rlocal' = rlocal /\ staged' = staged /\ heard' = heard /\ inOrder' = inOrder
        /\ pc'[e] = "commit" /\ ridx' = rlocal[e]
    BY <1>2, <1>f, <1>t DEF StoreBack, Goto, SeedTrue, Entering, pumpVars, ghosts
  <2>2. rlocal[e] \in Nat /\ ridx <= rlocal[e] /\ rlocal[e] <= widx /\ widx <= rlocal[e] + Cap
    BY <1>2, <1>f, <1>g, <1>t DEF StoreBack, SeedTrue, Entering
  <2>3. PumpAt(e)'
    BY <1>h, <1>c, <2>1, <2>2 DEF PumpAt
  <2>4. ConsumerStep(e, rlocal[e], heard)
    BY <1>f, <1>t, <1>1, <1>h, <1>c, <2>1, <2>2, <2>3 DEF ConsumerStep
  <2> QED BY <1>t, <2>2, <2>4, ConsumerFrames
<1>3. CASE Commit(e) \/ Pump(e)
  <2>1. /\ rlocal' = rlocal /\ heard' = heard /\ inOrder' = inOrder /\ ridx' = ridx
        /\ staged' = [staged EXCEPT ![e] = <<>>] /\ Holding(e)
    BY <1>3 DEF Commit, Pump, Goto, Holding, region, ghosts
  <2>2. <<>> \in Seq(Int) /\ Len(<<>>) = 0
    BY EmptySeq
  <2>3. staged' \in [Engines -> Seq(Int)] /\ staged'[e] = <<>>
    BY <1>t, <2>1, <2>2
  <2>4. rlocal[e] = ridx /\ ridx <= widx /\ widx <= ridx + Cap
    BY <1>f, <2>1 DEF PumpTrue, PumpAt
  <2>5. pc'[e] \in {"run", "copy"} /\ (pc'[e] = "copy" => ridx + Block <= widx)
    BY <1>3, <1>f, <1>g, <1>t, <2>4 DEF Commit, Pump, Goto
  <2>6. PumpAt(e)'
    BY <1>g, <1>h, <1>c, <2>1, <2>2, <2>3, <2>4, <2>5 DEF PumpAt
  <2>7. ConsumerStep(e, ridx, heard)
    BY <1>f, <1>t, <1>1, <1>h, <1>c, <2>1, <2>3, <2>6 DEF ConsumerStep
  <2> QED BY <1>t, <2>7, ConsumerFrames
<1>4. CASE CopyFrame(e)
  <2> DEFINE old == staged[e]
             new == Append(old, ring[Slot(rlocal[e] + Len(old))])
  <2>1. /\ rlocal' = rlocal /\ heard' = heard /\ inOrder' = inOrder /\ ridx' = ridx
        /\ staged' = [staged EXCEPT ![e] = new] /\ pc[e] = "copy"
    BY <1>4 DEF CopyFrame, region, ghosts
  <2>2. /\ rlocal[e] = ridx /\ ridx <= widx /\ widx <= ridx + Cap
        /\ ridx + Block <= widx /\ Len(old) < Block
        /\ \A i \in 1 .. Len(old) : old[i] = ridx + i - 1
    BY <1>f, <2>1 DEF PumpTrue, PumpAt, Holding
  <2>3. old \in Seq(Int) /\ Len(old) \in Nat
    BY <1>t, LenProperties
  <2>4. widx + filled <= ridx + Cap
    BY <1>f, <1>g, <1>t, <2>2 DEF WriterTrue
  <2>5. ring[Slot(rlocal[e] + Len(old))] = ridx + Len(old) /\ ridx + Len(old) \in Int
    <3>1. /\ ridx + Len(old) \in Nat /\ ridx + Len(old) < widx + filled
          /\ widx + filled <= ridx + Len(old) + Cap
      BY <1>g, <1>t, <2>2, <2>3, <2>4
    <3> QED BY <1>f, <2>2, <3>1 DEF RingTrue
  <2>6. /\ new \in Seq(Int) /\ Len(new) = Len(old) + 1
        /\ \A i \in 1 .. Len(old) : new[i] = old[i]
        /\ new[Len(old) + 1] = ridx + Len(old)
    BY <2>3, <2>5, AppendProperties
  <2> HIDE DEF new
  <2>7. staged' \in [Engines -> Seq(Int)] /\ staged'[e] = new
    BY <1>t, <2>1, <2>6
  <2>8. \A i \in 1 .. Len(new) : new[i] = ridx + i - 1
    <3> HIDE DEF old
    <3> SUFFICES ASSUME NEW i \in 1 .. Len(old) + 1 PROVE new[i] = ridx + i - 1
      BY <2>6
    <3>1. CASE i = Len(old) + 1
      BY <1>t, <2>3, <2>6, <3>1
    <3>2. CASE i \in 1 .. Len(old)
      BY <2>2, <2>6, <3>2
    <3> QED BY <2>3, <3>1, <3>2
  <2>9. /\ pc'[e] \in {"copy", "publish"} /\ Len(new) <= Block
        /\ (pc'[e] = "copy" <=> Len(new) # Block)
    BY <1>4, <1>f, <1>g, <2>2, <2>3, <2>6, <2>7 DEF CopyFrame
  <2>10. PumpAt(e)'
    BY <1>g, <1>c, <1>h, <2>1, <2>2, <2>3, <2>6, <2>7, <2>8, <2>9 DEF PumpAt
  <2>11. ConsumerStep(e, ridx, heard)
    BY <1>f, <1>t, <1>1, <1>h, <1>c, <2>1, <2>7, <2>10 DEF ConsumerStep
  <2> QED BY <1>t, <2>11, ConsumerFrames
<1>5. CASE PublishRead(e)
  <2> DEFINE new == rlocal[e] + Block
  <2>1. /\ rlocal' = [rlocal EXCEPT ![e] = new] /\ heard' = heard /\ inOrder' = inOrder
        /\ ridx' = new /\ staged' = staged /\ pc[e] = "publish" /\ pc'[e] = "play"
    BY <1>5, <1>f, <1>t DEF PublishRead, ghosts
  <2>2. /\ rlocal[e] = ridx /\ ridx + Block <= widx /\ Len(staged[e]) = Block
        /\ widx <= ridx + Cap
        /\ \A i \in 1 .. Len(staged[e]) : staged[e][i] = ridx + i - 1
    BY <1>f, <2>1 DEF PumpTrue, PumpAt, Holding
  <2>3. /\ new \in Nat /\ ridx <= new /\ heard < new /\ heard < new - Block /\ new <= widx
        /\ widx <= new + Cap /\ new - Block = ridx
    BY <1>g, <1>t, <2>2
  <2>4. \A i \in 1 .. Block : staged[e][i] = new - Block + i - 1
    BY <2>2, <2>3
  <2> HIDE DEF new
  <2>5. rlocal' \in [Engines -> Nat] /\ rlocal'[e] = new
    BY <1>t, <2>1, <2>3
  <2>6. PumpAt(e)'
    BY <1>c, <2>1, <2>2, <2>3, <2>4, <2>5, <1>h DEF PumpAt
  <2>7. ConsumerStep(e, new, heard)
    BY <1>f, <1>t, <1>1, <1>h, <1>c, <2>1, <2>3, <2>5, <2>6 DEF ConsumerStep
  <2> QED BY <1>t, <2>3, <2>7, ConsumerFrames
<1>6. CASE Play(e)
  <2>1. /\ rlocal' = rlocal /\ ridx' = ridx /\ staged' = [staged EXCEPT ![e] = <<>>]
        /\ pc[e] = "play" /\ pc'[e] = "run" /\ heard' = staged[e][Block]
    BY <1>6, <1>f DEF Play, region
  <2>2. /\ rlocal[e] = ridx /\ ridx <= widx /\ widx <= ridx + Cap /\ heard < ridx - Block
        /\ \A i \in 1 .. Block : staged[e][i] = ridx - Block + i - 1
    BY <1>f, <2>1 DEF PumpTrue, PumpAt, Holding
  <2>3. staged[e][1] = ridx - Block /\ staged[e][Block] = ridx - 1
    BY <1>g, <1>t, <2>2
  <2>4. /\ staged[e][1] > heard
        /\ \A i \in 2 .. Block : staged[e][i] = staged[e][1] + i - 1
    BY <1>g, <1>t, <2>2, <2>3
  <2>5. inOrder'
    BY <1>6, <1>f, <2>4 DEF Play
  <2>6. <<>> \in Seq(Int) /\ Len(<<>>) = 0
    BY EmptySeq
  <2>7. staged' \in [Engines -> Seq(Int)]
    BY <1>t, <2>1, <2>6
  <2>8. PumpAt(e)'
    BY <1>c, <1>h, <2>1, <2>2 DEF PumpAt
  <2>9. heard' = ridx - 1 /\ ridx - 1 \in Int /\ ridx - 1 < ridx
    BY <1>t, <2>1, <2>3
  <2>10. ConsumerStep(e, ridx, ridx - 1)
    BY <1>f, <1>t, <1>1, <1>h, <1>c, <2>1, <2>5, <2>7, <2>8, <2>9 DEF ConsumerStep
  <2> QED BY <1>t, <2>9, <2>10, ConsumerFrames
<1> QED BY <1>2, <1>3, <1>4, <1>5, <1>6 DEF Worker

\* An engine leaves, by stopping or by a crash, while nobody is starting: the
\* next one will read the indices as they are left.
LEMMA LeaveFrames ==
    ASSUME LockInv, FrameInv, Acceptable(hdr), ~MayStall, NEW e \in Engines,
           Stop(e) \/ Crash(e)
    PROVE  FrameInv'
<1>f. /\ inOrder /\ hdr \in Headers /\ FrameTypes /\ RingTrue /\ WriterTrue /\ SeedTrue
      /\ PumpTrue /\ pc \in [Engines -> Labels]
  BY DEF FrameInv, Flow, LockInv, LockTypes
<1>h. /\ UNCHANGED <<hdr, widx, ridx, ring, player, filled, heard, inOrder>>
      /\ \E l \in {"stopped", "crashed"} : pc' = [pc EXCEPT ![e] = l]
      /\ rlocal' = [rlocal EXCEPT ![e] = 0] /\ resynced' = [resynced EXCEPT ![e] = FALSE]
      /\ staged' = [staged EXCEPT ![e] = <<>>]
  BY DEF Stop, Crash, Forget, region, playVars, ghosts
<1>c. Cap' = Cap /\ Block' = Block /\ \A i \in Nat : Slot(i)' = Slot(i)
  BY <1>h DEF Cap, Block, Slot
<1>1. \A d \in Others(e) : ~Starting(d)
  BY DEF Stop, Crash, NobodyStalls
<1>2. <<>> \in Seq(Int)
  BY EmptySeq
<1>3. FrameTypes'
  BY <1>f, <1>h, <1>c, <1>2 DEF FrameTypes
<1>4. RingTrue' /\ WriterTrue'
  BY <1>f, <1>h, <1>c DEF RingTrue, WriterTrue
<1>5. ASSUME NEW d \in Engines, Entering(d)'
      PROVE  /\ pc[d] = "store" /\ rlocal'[d] = rlocal[d] /\ resynced'[d] = resynced[d]
  BY <1>f, <1>h, <1>1, <1>5 DEF Entering, Starting, Others, FrameTypes
<1>6. SeedTrue'
  BY <1>f, <1>h, <1>c, <1>5 DEF SeedTrue, Entering
<1>7. ASSUME NEW d \in Engines, Holding(d)' PROVE PumpAt(d)'
  <2>1. pc'[d] = pc[d] /\ rlocal'[d] = rlocal[d] /\ staged'[d] = staged[d]
    BY <1>f, <1>h, <1>7 DEF Holding, FrameTypes
  <2>2. PumpAt(d)
    BY <1>f, <1>7, <2>1 DEF PumpTrue, Holding
  <2> QED BY <1>h, <1>c, <2>1, <2>2 DEF PumpAt
<1>8. PumpTrue'
  BY <1>7 DEF PumpTrue
<1> QED BY <1>f, <1>h, <1>3, <1>4, <1>6, <1>8 DEF FrameInv, Flow

\* Every step keeps the flow of frames.
LEMMA StepFrames ==
    ASSUME LockInv, FrameInv, ~MayStall, [Next]_vars
    PROVE  FrameInv'
<1>1. CASE ~Acceptable(hdr)
  BY <1>1, RefusedFrames
<1>2. CASE Acceptable(hdr) /\ Player
  BY <1>2, PlayerFrames
<1>3. CASE Acceptable(hdr) /\ UNCHANGED vars
  <2>1. UNCHANGED <<hdr, widx, ridx, ring, playVars, pc, pumpVars, ghosts>>
    BY <1>3 DEF vars, region
  <2> QED BY <2>1, QuietFrames
<1>4. ASSUME Acceptable(hdr), NEW e \in Engines, Start(e) \/ Worker(e) \/ Stop(e) \/ Crash(e)
      PROVE  FrameInv'
  BY <1>4, EnterFrames, PumpFrames, LeaveFrames DEF Start
<1> QED BY <1>1, <1>2, <1>3, <1>4 DEF Next

\* Unless a start() stalls between reading the indices and locking the ring
\* while the consumer leaves, the frames the engines render, one process after
\* the other, are whole blocks, each newer than the last, whatever indices and
\* geometry the region was found with (SharedRingBackend.cpp:187, 396).
THEOREM FramesAlwaysInOrder ==
    ASSUME ~MayStall
    PROVE  Spec => []FramesInOrder
<1>1. Init => LockInv /\ FrameInv
  BY InitLock, InitFrames
<1>2. LockInv /\ FrameInv /\ [Next]_vars => (LockInv /\ FrameInv)'
  BY StepLock, StepFrames
<1>3. FrameInv => FramesInOrder
  BY DEF FrameInv, FramesInOrder
<1> QED BY <1>1, <1>2, <1>3, PTL DEF Spec
===============================================================================
