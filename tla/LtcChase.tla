-------------------------------- MODULE LtcChase --------------------------------
(***************************************************************************)
(* The LTC chase: the audio thread copies input channel 0 into a ring of   *)
(* samples, the control thread takes them out and feeds the decoder, whose *)
(* register slides over the last bits until they end in the sync word.     *)
(*                                                                         *)
(* A sample stands for a bit of the time code and is its number on the     *)
(* line: FrameBits of them are a frame, and the last of them is the sync   *)
(* word.  A sample that finds the ring full is dropped, and none is copied *)
(* while the chase is switched off; the decoder is told of neither.        *)
(***************************************************************************)
EXTENDS Naturals, Sequences

CONSTANTS
    CapacityPow2,  \* cells of the ring, of which one stays free
    FrameBits,     \* 80 in the code
    BlockSize,     \* samples per audio block
    MaxSamples     \* bound: samples on the line

ASSUME LtcAssumption ==
    /\ CapacityPow2 \in Nat \ {0, 1} /\ FrameBits \in Nat \ {0}
    /\ BlockSize \in Nat \ {0} /\ MaxSamples \in Nat

VARIABLES
    chase,     \* ltc_chase_enable_
    line,      \* the number of the next sample
    todo,      \* samples of this block that are left
    ppc,       \* where push() is
    head, tail, cells,
    seenTail,  \* tail_ as the audio thread sees it
    seenHead,  \* head_ as the control thread sees it
    cpc,       \* where pop() and the decoder are
    sample,    \* what pop() has returned
    register,  \* low_ and high_, the bits shifted in since reset()
    tc,        \* tc_packed_ and tc_valid_: the register it was decoded from
    missed     \* history: samples that were not put into the ring

audioVars == <<chase, line, todo, ppc, head, cells, seenTail, missed>>
chaseVars == <<tail, seenHead, cpc, sample, register, tc>>
ltcVars   == <<audioVars, chaseVars>>

MASK(n) == n % CapacityPow2

LtcInit ==
    /\ chase = FALSE /\ line = 0 /\ todo = 0 /\ ppc = "idle"
    /\ head = 0 /\ tail = 0 /\ seenTail = 0 /\ seenHead = 0
    /\ cells = [c \in 0 .. CapacityPow2 - 1 |-> MaxSamples]
    /\ cpc = "idle" /\ sample = 0 /\ register = <<>> /\ tc = <<>> /\ missed = {}

-------------------------------------------------------------------------------
(* The audio thread                                                         *)

\* A block is offered sample by sample, or not at all.
EnterBlock ==
    /\ ppc = "idle" /\ todo = 0 /\ line + BlockSize <= MaxSamples
    /\ IF chase
       THEN todo' = BlockSize /\ UNCHANGED <<line, missed>>
       ELSE /\ line' = line + BlockSize
            /\ missed' = missed \cup line .. line + BlockSize - 1
            /\ UNCHANGED todo
    /\ UNCHANGED <<chase, ppc, head, cells, seenTail, chaseVars>>

\* The command drain comes after the tap: a switch counts from the next block.
SetChase ==
    /\ ppc = "idle" /\ todo = 0 /\ chase' = ~chase
    /\ UNCHANGED <<line, todo, ppc, head, cells, seenTail, missed, chaseVars>>

\* Mutant of RingIsFull: the index is not masked.
RingIsFullUnmasked == head + 1 = seenTail

RingIsFull == MASK(head + 1) = seenTail

Offer ==
    /\ ppc = "idle" /\ todo > 0
    /\ IF RingIsFull
       THEN /\ missed' = missed \cup {line}
            /\ line' = line + 1 /\ todo' = todo - 1 /\ UNCHANGED ppc
       ELSE ppc' = "write" /\ UNCHANGED <<missed, line, todo>>
    /\ UNCHANGED <<chase, head, cells, seenTail, chaseVars>>

Write ==
    /\ ppc = "write" /\ ppc' = "store"
    /\ cells' = [cells EXCEPT ![head] = line]
    /\ UNCHANGED <<chase, line, todo, head, seenTail, missed, chaseVars>>

StoreHead ==
    /\ ppc = "store" /\ ppc' = "idle"
    /\ head' = MASK(head + 1)
    /\ line' = line + 1 /\ todo' = todo - 1
    /\ UNCHANGED <<chase, cells, seenTail, missed, chaseVars>>

\* Progress of the other side becomes visible.
LearnTail ==
    /\ seenTail # tail /\ seenTail' = tail
    /\ UNCHANGED <<chase, line, todo, ppc, head, cells, missed, chaseVars>>

-------------------------------------------------------------------------------
(* The control thread: update()                                             *)

LearnHead ==
    /\ seenHead # head /\ seenHead' = head
    /\ UNCHANGED <<audioVars, tail, cpc, sample, register, tc>>

Take ==
    /\ cpc = "idle" /\ tail # seenHead /\ cpc' = "read"
    /\ UNCHANGED <<audioVars, tail, seenHead, sample, register, tc>>

Read ==
    /\ cpc = "read" /\ cpc' = "store"
    /\ sample' = cells[tail]
    /\ UNCHANGED <<audioVars, tail, seenHead, register, tc>>

StoreTail ==
    /\ cpc = "store" /\ cpc' = "decode"
    /\ tail' = MASK(tail + 1)
    /\ UNCHANGED <<audioVars, seenHead, sample, register, tc>>

ShiftBit(b) ==
    LET bits == Append(register, b)
    IN  IF Len(bits) > FrameBits THEN Tail(bits) ELSE bits

\* The register is full and ends in the sync word.
InSync(bits) == Len(bits) = FrameBits /\ bits[FrameBits] % FrameBits = FrameBits - 1

\* Every bit is where the decoder expects it; otherwise the digits are those
\* of no frame and may or may not pass the bounds on them.
InPlace(bits) == \A b \in 1 .. FrameBits : bits[b] % FrameBits = b - 1

CheckAndDecode ==
    /\ cpc = "decode" /\ cpc' = "idle"
    /\ register' = ShiftBit(sample)
    /\ \/ InSync(register') /\ tc' = register'
       \/ ~(InSync(register') /\ InPlace(register')) /\ UNCHANGED tc
    /\ UNCHANGED <<audioVars, tail, seenHead, sample>>

\* prepareToPlay, between two runs of the device: what the ring holds is thrown
\* away and the decoder reset.  The switch stays.
PrepareChase ==
    /\ ppc = "idle" /\ todo = 0 /\ cpc = "idle"
    /\ tail' = head /\ seenTail' = head /\ seenHead' = head
    /\ register' = <<>> /\ tc' = <<>> /\ missed' = 0 .. line - 1
    /\ UNCHANGED <<chase, line, todo, ppc, head, cells, cpc, sample>>

-------------------------------------------------------------------------------
AudioSide   == EnterBlock \/ SetChase \/ Offer \/ Write \/ StoreHead \/ LearnTail
ControlSide == LearnHead \/ Take \/ Read \/ StoreTail \/ CheckAndDecode

LtcNext == AudioSide \/ ControlSide \/ PrepareChase

\* No program of the repository calls update() after enabling the chase, so
\* nothing is said of progress.
LtcSpec == LtcInit /\ [][LtcNext]_ltcVars

-------------------------------------------------------------------------------
(* Property *)

\* The time code shown was on the line as it is: its bits are in order, none
\* is there twice or from the lap before, and between two of them only
\* samples are missing that never got into the ring.
TimecodeTrue ==
    tc # <<>> =>
        \A b \in 1 .. FrameBits - 1 :
            /\ tc[b] < tc[b + 1]
            /\ tc[b] + 1 .. tc[b + 1] - 1 \subseteq missed
===============================================================================
