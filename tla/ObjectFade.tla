------------------------------ MODULE ObjectFade ------------------------------
(***************************************************************************)
(* One object in Direct mode (B1): two convolver slots, one in front, and  *)
(* the crossfade between them over two blocks.  Every block in which the   *)
(* object sounds sets its direction and then renders it, on the audio      *)
(* thread.                                                                 *)
(*                                                                         *)
(* A gain is counted in quarters, at the boundaries of blocks; a ramp is   *)
(* linear in between.  Of a convolver it is kept whose direction it has    *)
(* loaded and whether it carries the tail of what it rendered last.        *)
(***************************************************************************)
EXTENDS Integers

CONSTANTS
    Places,     \* directions, of the active data set
    MaxBlocks   \* bound: blocks

Full    == 4
FadeLen == 2              \* blocks in a ramp
Slots   == {0, 1}
Zeros   == "zeros"        \* the response after prepareForReload

\* No measured position has a response of zeros.
ASSUME PlacesAssumption == Zeros \notin Places /\ MaxBlocks \in Nat

VARIABLES
    place,      \* the object's direction in obj_cache_
    sounding,   \* it is active and its gain above 1e-6
    front,      \* front_idx
    ir, tail,   \* of each slot: what is loaded; the overlap is not zero
    new, old,   \* ramp_new, ramp_old
    fading,     \* crossfade_active
    primed,
    stage,      \* the audio thread: "idle" or "render"
    ended,      \* ghost: gain of each direction when the last block ended
    blocks      \* ghost
slotVars == <<front, ir, tail, new, old, fading, primed>>
fadeVars == <<place, sounding, slotVars, stage, ended, blocks>>

-------------------------------------------------------------------------------
(* GainRamp                                                                  *)

Fixed(g)      == [now |-> g, to |-> g, left |-> 0]
Toward(g, to) == [now |-> g, to |-> to, left |-> FadeLen]

\* A block of next()
Advanced(r) == IF r.left = 0 THEN r
               ELSE [r EXCEPT !.now = @ + (r.to - @) \div r.left, !.left = @ - 1]

-------------------------------------------------------------------------------
(* What is heard                                                             *)

Back == 1 - front

SlotGain(s) == IF s = front THEN (IF fading THEN new.now ELSE Full)
               ELSE (IF fading THEN old.now ELSE 0)
GainOf(d) == (IF ir[0] = d THEN SlotGain(0) ELSE 0) + (IF ir[1] = d THEN SlotGain(1) ELSE 0)
Heard == [d \in Places |-> GainOf(d)]
Loudness == (IF ir[0] = Zeros THEN 0 ELSE SlotGain(0))
            + (IF ir[1] = Zeros THEN 0 ELSE SlotGain(1))
Nothing == [d \in Places |-> -1]      \* the block before was not rendered

FadeInit ==
    /\ place \in Places /\ sounding \in BOOLEAN
    /\ front = 0 /\ ir = [s \in Slots |-> Zeros] /\ tail = [s \in Slots |-> FALSE]
    /\ new = Fixed(Full) /\ old = Fixed(0) /\ fading = FALSE /\ primed = FALSE
    /\ stage = "idle" /\ ended = Nothing /\ blocks = 0

-------------------------------------------------------------------------------
(* The audio thread                                                          *)

\* Commands of the drain
MovePlace ==
    /\ stage = "idle" /\ \E p \in Places \ {place} : place' = p
    /\ UNCHANGED <<sounding, slotVars, stage, ended, blocks>>

SwitchSound ==
    /\ stage = "idle" /\ sounding' = ~sounding
    /\ UNCHANGED <<place, slotVars, stage, ended, blocks>>

\* The idle slot takes the response and its tail is flushed.
LoadInto(s, d) ==
    /\ ir' = [ir EXCEPT ![s] = d]
    /\ tail' = [tail EXCEPT ![s] = FALSE]

Snap == /\ new' = Fixed(Full) /\ old' = Fixed(0)
        /\ fading' = FALSE /\ primed' = TRUE

\* The slot in front fades out, from the gain it has reached.
StartFade == /\ old' = Toward(IF fading THEN new.now ELSE Full, 0)
             /\ new' = Toward(0, Full)
             /\ fading' = TRUE /\ UNCHANGED primed

\* Mutant of SetDirection: the loaded slot is not brought to the front.
SetDirectionBehind ==
    /\ stage = "idle" /\ sounding /\ blocks < MaxBlocks
    /\ LoadInto(Back, place)
    /\ IF primed THEN StartFade ELSE Snap
    /\ stage' = "render" /\ UNCHANGED <<place, sounding, front, ended, blocks>>

\* Also for an object that has not moved, and while a fade is under way.
SetDirection ==
    /\ stage = "idle" /\ sounding /\ blocks < MaxBlocks
    /\ LoadInto(Back, place)
    /\ IF primed THEN StartFade ELSE Snap
    /\ front' = Back
    /\ stage' = "render" /\ UNCHANGED <<place, sounding, ended, blocks>>

\* The front slot runs, the other only while a fade is under way.
RenderObject ==
    /\ stage = "render"
    /\ tail' = [s \in Slots |-> tail[s] \/ s = front \/ fading]
    /\ new' = IF fading THEN Advanced(new) ELSE new
    /\ old' = IF fading THEN Advanced(old) ELSE old
    /\ fading' = (fading /\ (new'.left > 0 \/ old'.left > 0))
    /\ UNCHANGED <<place, sounding, front, ir, primed>>
    /\ ended' = Heard'
    /\ stage' = "idle" /\ blocks' = blocks + 1

\* A block of AmbiVS, or one in which the object is silent
SkipObject ==
    /\ stage = "idle" /\ blocks < MaxBlocks
    /\ ended' = Nothing /\ blocks' = blocks + 1
    /\ UNCHANGED <<place, sounding, slotVars, stage>>

\* initialize() with a file, the audio stopped: object 0 is given a direction.
PrimeAgain ==
    /\ stage = "idle" /\ blocks < MaxBlocks
    /\ \E legacy \in BOOLEAN, p \in Places :
          /\ front' = IF legacy THEN 1 ELSE 0
          /\ ir' = [s \in Slots |-> IF legacy /\ s = 1 THEN p ELSE Zeros]
          /\ primed' = legacy
    /\ tail' = [s \in Slots |-> FALSE]
    /\ new' = Fixed(Full) /\ old' = Fixed(0) /\ fading' = FALSE
    /\ ended' = Nothing /\ blocks' = blocks + 1
    /\ UNCHANGED <<place, sounding, stage>>

-------------------------------------------------------------------------------
FadeNext == MovePlace \/ SwitchSound \/ SetDirection \/ RenderObject \/ SkipObject \/ PrimeAgain
FadeSpec == FadeInit /\ [][FadeNext]_fadeVars

-------------------------------------------------------------------------------
(* Properties *)

\* However often a fade is cut short, at every boundary of a block the object
\* is heard, at no less than half and no more than its level, and the slot in
\* front is the one of its last direction (BinauralMonitor.cpp:163).
LevelKept ==
    /\ stage = "render" => Loudness \in 2 .. Full /\ ir[front] = place
    /\ ended # Nothing => \E d \in Places : ended[d] >= 2

\* "chain transitions stay C0-continuous"
\* (tests/core_unit/test_p_binaural_chained_crossfade.cpp:6): a block begins
\* with the gains at which the block before it ended.  It does not: the slot
\* that was fading out is loaded again and cut off.
TransitionsContinuous == stage = "render" /\ ended # Nothing => Heard = ended
===============================================================================
