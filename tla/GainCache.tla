------------------------------- MODULE GainCache -------------------------------
(***************************************************************************)
(* The gain cache of the VBAP renderer: an open-addressing table with      *)
(* linear probing, from which the oldest entry is evicted once it is half  *)
(* full.  Eviction empties a slot and leaves no mark behind, so a later    *)
(* search may stop at the hole before it comes to its entry and store the  *)
(* key a second time.                                                      *)
(*                                                                         *)
(* A key is the bin an object is in: its direction (azimuth and elevation) *)
(* and its width, which is in the low bits and alone decides where a       *)
(* search begins.  Of the gains the key they were computed for is kept.    *)
(* Only the audio thread uses the cache.                                   *)
(***************************************************************************)
EXTENDS Naturals, Sequences, FiniteSets

CONSTANTS
    MAX_CACHE,   \* slots
    Directions,  \* bins of azimuth and elevation
    Widths,      \* bins of width
    Active,      \* active objects of a scene
    MaxMoves     \* bound: changes of the scene

RING_CAP == MAX_CACHE \div 2

\* The objects are fewer than the entries: 64 against 2048 in the code.
ASSUME CacheAssumption ==
    /\ MAX_CACHE \in Nat \ {0} /\ RING_CAP \in 1 .. (MAX_CACHE - 1)
    /\ Widths \subseteq Nat /\ Active \in 1 .. RING_CAP /\ MaxMoves \in Nat

Keys  == Directions \X Widths
Slots == 0 .. MAX_CACHE - 1
Blank == <<>>                    \* UINT64_MAX, the key no object has

VARIABLES
    slots,      \* cache_slots_: the key and the gains of each
    order,      \* cache_ring_ from ring_head_ on: the slots used, oldest first
    scene,      \* the bin each active object is in
    turn,       \* the object the block has come to
    got,        \* history: for which key the last gains used were computed
    wanted,     \* history: ... and for which key they were looked up
    hit,        \* history: they came from the cache
    moves

cacheVars == <<slots, order, scene, turn, got, wanted, hit, moves>>

\* prepareToPlay empties the cache.
CacheInit ==
    /\ slots = [i \in Slots |-> Blank] /\ order = <<>>
    /\ scene \in [1 .. Active -> Keys] /\ turn = 1
    /\ got = Blank /\ wanted = Blank /\ hit = FALSE /\ moves = 0

\* The i-th slot a search looks at.
Probe(k, i) == (k[2] + i) % MAX_CACHE

\* Mutant of Stops: the search ends at any key of its home slot.
StopsAtHome(k) ==
    {i \in Slots : slots[Probe(k, i)] = Blank \/ slots[Probe(k, i)].key[2] = k[2]}

\* It ends at its key or at the first empty slot.
Stops(k) == {i \in Slots : slots[Probe(k, i)] = Blank \/ slots[Probe(k, i)].key = k}
Found(k) == Probe(k, CHOOSE i \in Stops(k) : \A j \in Stops(k) : i <= j)

Hit(k) ==
    /\ slots[Found(k)] # Blank
    /\ got' = slots[Found(k)].gains /\ hit' = TRUE
    /\ UNCHANGED <<slots, order>>

\* Mutant of Full: one entry fewer is kept.
FullEarly == Len(order) >= RING_CAP - 1

Full == Len(order) >= RING_CAP
Evicted(table) == IF Full THEN [table EXCEPT ![order[1]] = Blank] ELSE table
Younger        == IF Full THEN Tail(order) ELSE order

\* The oldest entry makes room in the order; the new one goes where the search
\* has ended, which the eviction did not change.
Miss(k) ==
    /\ slots[Found(k)] = Blank
    /\ slots' = [Evicted(slots) EXCEPT ![Found(k)] = [key |-> k, gains |-> k]]
    /\ order' = Append(Younger, Found(k))
    /\ got' = k /\ hit' = FALSE

\* A block renders one active object after the other.
Lookup ==
    /\ Hit(scene[turn]) \/ Miss(scene[turn])
    /\ wanted' = scene[turn]
    /\ turn' = (turn % Active) + 1
    /\ UNCHANGED <<scene, moves>>

\* Between two blocks commands move an object.
MoveObject ==
    /\ turn = 1 /\ moves < MaxMoves
    /\ \E o \in 1 .. Active : \E k \in Keys \ {scene[o]} :
          scene' = [scene EXCEPT ![o] = k]
    /\ moves' = moves + 1
    /\ UNCHANGED <<slots, order, turn, got, wanted, hit>>

CacheNext == Lookup \/ MoveObject

CacheSpec == CacheInit /\ [][CacheNext]_cacheVars /\ WF_cacheVars(Lookup)

-------------------------------------------------------------------------------
(* Properties *)

\* The slots in the order are those in use, each once, and at most half of
\* all: every search ends, and the way out behind it is never taken.
HalfFull ==
    /\ Len(order) <= RING_CAP
    /\ \A i, j \in DOMAIN order : order[i] = order[j] => i = j
    /\ {order[i] : i \in DOMAIN order} = {s \in Slots : slots[s] # Blank}
    /\ \A k \in Keys : Stops(k) # {}

\* However keys collide, are evicted and stored twice, an object is rendered
\* with the gains of the bin it is in.
GainsOfTheBin == got = wanted

CacheSound == HalfFull /\ GainsOfTheBin

\* Once nothing moves any more every object is rendered from the cache: holes
\* and doubles do not make the objects of one scene evict each other for ever.
SceneSettles == <>[]hit
===============================================================================
