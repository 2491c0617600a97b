-------------------------- MODULE CommandPathProofs ---------------------------
(***************************************************************************)
(* Proofs about the way of a command from a datagram to the loudspeakers,  *)
(* and about the ring it goes through, for every set of packets, number of *)
(* objects, power-of-two size of the ring and width of its indices (only   *)
(* divisibility is used), and any delay of the two threads' views.         *)
(*                                                                         *)
(* And about packets: every command with any values in its fields comes    *)
(* back, after being written and read, with all that its dialect has words *)
(* for.                                                                    *)
(*                                                                         *)
(* BlockRendersWhole is proved under Cadence, the assumption of the run: a *)
(* block is shorter than the second between two rebuilds of the decoder.   *)
(* The ring and LastWordCounts need no hypothesis.                         *)
(*                                                                         *)
(* Spans are never compared as numbers: the lemmas on Span reason modulo   *)
(* the width of an int, so the proofs cover the wrap of the indices after  *)
(* 2^31 pushes, which no test reaches.                                     *)
(***************************************************************************)
EXTENDS CommandPath, SequenceTheorems, FiniteSetTheorems, TLAPS

Half == Width \div 2

-------------------------------------------------------------------------------
(* Arithmetic *)

LEMMA Division ==
    ASSUME NEW a \in Int, NEW c \in Nat \ {0}
    PROVE  /\ a = c * (a \div c) + (a % c)
           /\ a \div c \in Int /\ a % c \in 0 .. c - 1
OBVIOUS

\* Quotient and remainder are unique.
LEMMA Remainder ==
    ASSUME NEW a \in Int, NEW c \in Nat \ {0}, NEW q \in Int, NEW r \in Int,
           a = c * q + r, 0 <= r, r < c
    PROVE  a % c = r
OBVIOUS

LEMMA NoMultiple ==
    ASSUME NEW q \in Int, NEW c \in Nat \ {0}, 0 < c * q, c * q < c
    PROVE  FALSE
<1>1. CASE q <= 0
  BY <1>1
<1>2. CASE q >= 1
  BY <1>2
<1> QED BY <1>1, <1>2

LEMMA ModAdd ==
    ASSUME NEW a \in Int, NEW c \in Nat \ {0}, NEW k \in Int
    PROVE  (a + c * k) % c = a % c
<1> DEFINE p == a \div c   r == a % c
<1>1. a = c * p + r /\ p \in Int /\ r \in 0 .. c - 1
  BY Division
<1> HIDE DEF p, r
<1>2. a + c * k = c * (p + k) + r
  BY <1>1
<1>3. (a + c * k) % c = r
  BY <1>1, <1>2, Remainder
<1> QED BY <1>3 DEF r

LEMMA ModDiffers ==
    ASSUME NEW a \in Int, NEW b \in Int, NEW c \in Nat \ {0}, a < b, b < a + c
    PROVE  a % c # b % c
<1> SUFFICES ASSUME a % c = b % c PROVE FALSE
  OBVIOUS
<1> DEFINE p == a \div c  q == b \div c  r == a % c
<1>1. a = c * p + r /\ b = c * q + r /\ p \in Int /\ q \in Int /\ r \in Int
  BY Division
<1> HIDE DEF p, q, r
<1>2. 0 < c * (q - p) /\ c * (q - p) < c /\ q - p \in Int
  BY <1>1
<1> QED BY <1>2, NoMultiple

\* The width is even and a multiple of the size.
LEMMA WidthEven ==
    /\ Half \in Nat /\ Half > N /\ Width = 2 * Half
    /\ \E m \in Int : Width = N * m
<1>1. N \in Nat \ {0} /\ Width \in Nat /\ Width > 2 * N /\ Width % (2 * N) = 0
  BY FifoAssumption
<1>2. PICK c \in Nat \ {0} : c = 2 * N
  BY <1>1
<1>3. Width % c = 0
  BY <1>1, <1>2
<1>4. PICK k \in Int : Width = c * k
  <2>1. Width \in Int
    BY <1>1
  <2>2. Width = c * (Width \div c) + (Width % c) /\ Width \div c \in Int
    BY <2>1, Division, Zenon
  <2>3. Width = c * (Width \div c)
    BY <2>1, <2>2, <1>3
  <2> QED BY <2>2, <2>3, Zenon
<1> DEFINE h == N * k
<1>5. h \in Int /\ Width = 2 * h
  BY <1>1, <1>2, <1>4
<1>6. Width = N * (2 * k) /\ 2 * k \in Int
  BY <1>1, <1>2, <1>4
<1> HIDE DEF h
<1>7. Half = h
  BY <1>1, <1>5 DEF Half
<1>8. Half \in Nat /\ Half > N /\ Width = 2 * Half
  BY <1>1, <1>5, <1>7
<1> QED BY <1>6, <1>8

\* Within one turn of the ints, wrapping adds or takes away one turn.
LEMMA WrapNear ==
    ASSUME NEW x \in Int, -(2 * Half) <= x, x < 2 * Half
    PROVE  Wrap(x) = IF x < -Half THEN x + 2 * Half
                     ELSE IF x >= Half THEN x - 2 * Half ELSE x
<1> DEFINE y == x + Half
<1>1. Half \in Nat \ {0} /\ Width = 2 * Half /\ Width \in Nat \ {0} /\ y \in Int
  BY WidthEven
<1>2. CASE x < -Half
  <2>1. y = Width * (-1) + (y + Width) /\ 0 <= y + Width /\ y + Width < Width
    BY <1>1, <1>2
  <2>2. y % Width = y + Width
    BY <1>1, <2>1, Remainder
  <2> QED BY <1>1, <1>2, <2>2 DEF Wrap, Half
<1>3. CASE x >= Half
  <2>1. y = Width * 1 + (y - Width) /\ 0 <= y - Width /\ y - Width < Width
    BY <1>1, <1>3
  <2>2. y % Width = y - Width
    BY <1>1, <2>1, Remainder
  <2> QED BY <1>1, <1>3, <2>2 DEF Wrap, Half
<1>4. CASE -Half <= x /\ x < Half
  <2>1. y = Width * 0 + y /\ 0 <= y /\ y < Width
    BY <1>1, <1>4
  <2>2. y % Width = y
    BY <1>1, <2>1, Remainder
  <2> QED BY <1>1, <1>4, <2>2 DEF Wrap, Half
<1> QED BY <1>1, <1>2, <1>3, <1>4

\* What a span is, for two ints.
LEMMA SpanIs ==
    ASSUME NEW a \in Ints, NEW b \in Ints
    PROVE  /\ Span(a, b) = IF b - a < -Half THEN b - a + 2 * Half
                           ELSE IF b - a >= Half THEN b - a - 2 * Half ELSE b - a
           /\ Span(a, b) \in Ints
<1>1. Half \in Nat /\ a \in -Half .. Half - 1 /\ b \in -Half .. Half - 1
  BY WidthEven DEF Ints, Half
<1>2. -(2 * Half) <= b - a /\ b - a < 2 * Half /\ b - a \in Int
  BY <1>1
<1>3. Span(a, b) = IF b - a < -Half THEN b - a + 2 * Half
                   ELSE IF b - a >= Half THEN b - a - 2 * Half ELSE b - a
  BY <1>2, WrapNear DEF Span
<1>4. Span(a, b) \in -Half .. Half - 1
  BY <1>1, <1>2, <1>3
<1> QED BY <1>3, <1>4 DEF Ints, Half

\* The index after one.
LEMMA NextIs ==
    ASSUME NEW a \in Ints
    PROVE  /\ Wrap(a + 1) = IF a = Half - 1 THEN -Half ELSE a + 1
           /\ Wrap(a + 1) \in Ints
<1>1. Half \in Nat /\ Half > 1 /\ a \in -Half .. Half - 1
  BY WidthEven, FifoAssumption DEF Ints, Half
<1>2. -(2 * Half) <= a + 1 /\ a + 1 < 2 * Half /\ a + 1 \in Int
  BY <1>1
<1>3. Wrap(a + 1) = IF a = Half - 1 THEN -Half ELSE a + 1
  BY <1>1, <1>2, WrapNear
<1>4. Wrap(a + 1) \in -Half .. Half - 1
  BY <1>1, <1>3
<1> QED BY <1>3, <1>4 DEF Ints, Half

-------------------------------------------------------------------------------
(* Spans *)

LEMMA SpanSelf == \A a \in Ints : Span(a, a) = 0
BY SpanIs, WidthEven DEF Ints, Half

LEMMA SpanZero ==
    ASSUME NEW a \in Ints, NEW b \in Ints, Span(a, b) = 0
    PROVE  a = b
<1>1. Half \in Nat /\ Ints = -Half .. Half - 1
  BY WidthEven DEF Ints, Half
<1>2. Span(a, b) = IF b - a < -Half THEN b - a + 2 * Half
                   ELSE IF b - a >= Half THEN b - a - 2 * Half ELSE b - a
  BY SpanIs
<1> QED BY <1>1, <1>2

\* The second index moves on ...
LEMMA SpanGrows ==
    ASSUME NEW a \in Ints, NEW b \in Ints, Span(a, b) \in 0 .. N - 1
    PROVE  Span(a, Wrap(b + 1)) = Span(a, b) + 1
<1>1. Half \in Nat /\ Half > N /\ N \in Nat \ {0} /\ Ints = -Half .. Half - 1
  BY WidthEven, FifoAssumption DEF Ints, Half
<1>2. PICK n \in Ints : n = Wrap(b + 1) /\ n = IF b = Half - 1 THEN -Half ELSE b + 1
  BY NextIs
<1>3. Span(a, n) = IF n - a < -Half THEN n - a + 2 * Half
                   ELSE IF n - a >= Half THEN n - a - 2 * Half ELSE n - a
  BY SpanIs
<1>4. Span(a, b) = IF b - a < -Half THEN b - a + 2 * Half
                   ELSE IF b - a >= Half THEN b - a - 2 * Half ELSE b - a
  BY SpanIs
<1>5. Span(a, n) = Span(a, b) + 1
  BY <1>1, <1>2, <1>3, <1>4
<1> QED BY <1>2, <1>5

\* ... or the first.
LEMMA SpanShrinks ==
    ASSUME NEW a \in Ints, NEW b \in Ints, Span(a, b) \in 1 .. N
    PROVE  Span(Wrap(a + 1), b) = Span(a, b) - 1
<1>1. Half \in Nat /\ Half > N /\ N \in Nat \ {0} /\ Ints = -Half .. Half - 1
  BY WidthEven, FifoAssumption DEF Ints, Half
<1>2. PICK n \in Ints : n = Wrap(a + 1) /\ n = IF a = Half - 1 THEN -Half ELSE a + 1
  BY NextIs
<1>3. Span(n, b) = IF b - n < -Half THEN b - n + 2 * Half
                   ELSE IF b - n >= Half THEN b - n - 2 * Half ELSE b - n
  BY SpanIs
<1>4. Span(a, b) = IF b - a < -Half THEN b - a + 2 * Half
                   ELSE IF b - a >= Half THEN b - a - 2 * Half ELSE b - a
  BY SpanIs
<1>5. Span(n, b) = Span(a, b) - 1
  BY <1>1, <1>2, <1>3, <1>4
<1> QED BY <1>2, <1>5

\* Spans within the ring add up.
LEMMA SpanAdds ==
    ASSUME NEW a \in Ints, NEW b \in Ints, NEW c \in Ints,
           Span(a, b) \in 0 .. N, Span(b, c) \in 0 .. N, Span(a, c) \in 0 .. N
    PROVE  Span(a, c) = Span(a, b) + Span(b, c)
<1>1. Half \in Nat /\ Half > N /\ N \in Nat \ {0} /\ Ints = -Half .. Half - 1
  BY WidthEven, FifoAssumption DEF Ints, Half
<1>2. Span(a, b) = IF b - a < -Half THEN b - a + 2 * Half
                   ELSE IF b - a >= Half THEN b - a - 2 * Half ELSE b - a
  BY SpanIs
<1>3. Span(b, c) = IF c - b < -Half THEN c - b + 2 * Half
                   ELSE IF c - b >= Half THEN c - b - 2 * Half ELSE c - b
  BY SpanIs
<1>4. Span(a, c) = IF c - a < -Half THEN c - a + 2 * Half
                   ELSE IF c - a >= Half THEN c - a - 2 * Half ELSE c - a
  BY SpanIs
<1> QED BY <1>1, <1>2, <1>3, <1>4

\* A slot is found by counting on from another index.
LEMMA SlotAtSpan ==
    ASSUME NEW a \in Ints, NEW b \in Ints
    PROVE  Slot(b) = Slot(a + Span(a, b))
<1>1. N \in Nat \ {0} /\ a \in Int /\ b \in Int
  BY WidthEven, FifoAssumption DEF Ints, Half
<1>2. PICK m \in Int : 2 * Half = N * m
  BY WidthEven
<1>3. \E k \in {-m, 0, m} : a + Span(a, b) = b + N * k
  <2>1. a + Span(a, b) \in {b + 2 * Half, b - 2 * Half, b}
    BY <1>1, SpanIs, WidthEven
  <2>2. N * (-m) = -(N * m) /\ N * 0 = 0
    BY <1>1
  <2> QED BY <1>1, <1>2, <2>1, <2>2
<1>4. PICK k \in Int : a + Span(a, b) = b + N * k
  BY <1>2, <1>3
<1>5. (b + N * k) % N = b % N
  BY <1>1, ModAdd
<1> QED BY <1>4, <1>5 DEF Slot

\* Counting on from the next index.
LEMMA SlotAfterNext ==
    ASSUME NEW a \in Ints, NEW i \in Int
    PROVE  Slot(Wrap(a + 1) + i) = Slot(a + 1 + i)
<1>1. N \in Nat \ {0} /\ Half \in Nat /\ a \in Int
  BY WidthEven, FifoAssumption DEF Ints, Half
<1>2. PICK m \in Int : 2 * Half = N * m
  BY WidthEven
<1>3. CASE a = Half - 1
  <2>1. Wrap(a + 1) = -Half
    BY <1>3, NextIs
  <2>2. a + 1 + i = (Wrap(a + 1) + i) + N * m /\ Wrap(a + 1) + i \in Int
    BY <1>1, <1>2, <1>3, <2>1
  <2>3. PICK x \in Int : x = Wrap(a + 1) + i
    BY <2>2
  <2>4. (x + N * m) % N = x % N
    BY <1>1, ModAdd
  <2> QED BY <2>2, <2>3, <2>4 DEF Slot
<1>4. CASE a # Half - 1
  BY <1>4, NextIs
<1> QED BY <1>3, <1>4

\* Places less than a turn of the ring apart are different slots.
LEMMA SlotsDiffer ==
    ASSUME NEW a \in Int, NEW b \in Int, a < b, b < a + N
    PROVE  Slot(a) # Slot(b)
<1>1. N \in Nat \ {0}
  BY FifoAssumption
<1> QED BY <1>1, ModDiffers, Zenon DEF Slot

LEMMA SlotInRing == \A a \in Int : Slot(a) \in 0 .. N - 1
BY FifoAssumption, Division DEF Slot

-------------------------------------------------------------------------------
(* The invariant *)

Contents == Commands \cup {None}

\* What each thread knows at its next step: a push that goes on has room, a pop
\* that goes on has an element, and an element that is published is written.
StepsTrue ==
    /\ popper.at # "idle" => Span(tail, seenHead) >= 1
    /\ pusher.at \in {"write", "publish"} => Span(seenTail, head) < N
    /\ pusher.at = "idle" <=> pusher.cmd = None
    /\ pusher.at = "publish" => slots[Slot(head)] = pusher.cmd

FifoInv == TypeOK /\ StepsTrue

LEMMA InitFifo == Init => FifoInv
<1> SUFFICES ASSUME Init PROVE FifoInv
  OBVIOUS
<1>1. 0 \in Ints
  BY WidthEven, FifoAssumption DEF Ints, Half
<1>2. Span(0, 0) = 0 /\ N \in Nat \ {0}
  BY <1>1, SpanSelf, FifoAssumption
<1> QED BY <1>1, <1>2 DEF Init, FifoInv, TypeOK, StepsTrue

\* The spans between the indices and the views.
LEMMA SpansTrue ==
    ASSUME FifoInv
    PROVE  /\ head \in Ints /\ tail \in Ints /\ seenTail \in Ints /\ seenHead \in Ints
           /\ Span(seenTail, head) = Span(seenTail, tail) + Span(tail, head)
           /\ Span(tail, head) \in 0 .. N /\ Span(seenTail, tail) \in 0 .. N
           /\ Span(seenTail, head) \in 0 .. N
           /\ Span(tail, seenHead) \in 0 .. Span(tail, head)
           /\ N \in Nat \ {0}
BY SpanAdds, FifoAssumption DEF FifoInv, TypeOK

\* The queue that the ring holds.
LEMMA StoredIs ==
    ASSUME FifoInv
    PROVE  /\ Popped \in {0, 1} /\ Span(tail, head) - Popped \in Nat
           /\ Stored \in Seq(Contents)
           /\ Len(Stored) = Span(tail, head) - Popped
           /\ \A i \in 1 .. Span(tail, head) - Popped :
                 Stored[i] = slots[Slot(tail + Popped + i - 1)]
<1>1. Popped \in {0, 1} /\ Span(tail, head) - Popped \in Nat
  <2>1. popper.at \in {"idle", "read", "release"}
    BY DEF FifoInv, TypeOK
  <2> QED BY <2>1, SpansTrue DEF Popped, FifoInv, StepsTrue
<1>2. tail \in Int
  BY SpansTrue, WidthEven DEF Ints, Half
<1>3. ASSUME NEW i \in 1 .. Span(tail, head) - Popped
      PROVE  slots[Slot(tail + Popped + i - 1)] \in Contents
  <2>1. tail + Popped + i - 1 \in Int
    BY <1>1, <1>2
  <2>2. Slot(tail + Popped + i - 1) \in 0 .. N - 1
    BY <2>1, SlotInRing
  <2> QED BY <2>2 DEF FifoInv, TypeOK, Contents
<1>4. Stored \in Seq(Contents)
  <2> DEFINE n == Span(tail, head) - Popped
             e(i) == slots[Slot(tail + Popped + i - 1)]
  <2>1. n \in Nat /\ \A i \in 1 .. n : e(i) \in Contents
    BY <1>1, <1>3
  <2> HIDE DEF n, e
  <2>2. [i \in 1 .. n |-> e(i)] \in Seq(Contents)
    BY <2>1, IsASeq
  <2> QED BY <2>2 DEF Stored, n, e
<1>5. DOMAIN Stored = 1 .. Span(tail, head) - Popped
  BY DEF Stored
<1>6. Len(Stored) = Span(tail, head) - Popped
  BY <1>1, <1>4, <1>5, LenProperties
<1> QED BY <1>1, <1>4, <1>6 DEF Stored

StoredTyped == Stored \in Seq(Contents) /\ Len(Stored) = Span(tail, head) - Popped

LEMMA StoredType == FifoInv => StoredTyped
BY StoredIs DEF StoredTyped

LEMMA StoredTypeNext == FifoInv' => StoredTyped'
BY StoredType, PTL

-------------------------------------------------------------------------------
(* Every step keeps the invariant. *)

LEMMA PushKeeps ==
    ASSUME FifoInv, PushBegin \/ PushCheck \/ PushWrite
    PROVE  FifoInv'
<1> USE DEF FifoInv, TypeOK, StepsTrue
<1>0. None \notin Commands
  BY FifoAssumption
<1>1. CASE PushBegin
  BY <1>0, <1>1 DEF PushBegin
<1>2. CASE PushCheck
  <2>1. Span(seenTail, head) = Wrap(head - seenTail)
    BY DEF Span
  <2>2. Wrap(head - seenTail) \in 0 .. N /\ N \in Nat
    BY <2>1, FifoAssumption
  <2>3. CASE Wrap(head - seenTail) >= N
    BY <1>2, <2>3 DEF PushCheck
  <2>4. CASE ~(Wrap(head - seenTail) >= N)
    BY <1>2, <2>1, <2>2, <2>4 DEF PushCheck
  <2> QED BY <2>3, <2>4
<1>3. CASE PushWrite
  <2>1. Slot(head) \in 0 .. N - 1
    BY SpansTrue, SlotInRing, WidthEven DEF Ints, Half
  <2> QED BY <1>3, <2>1 DEF PushWrite
<1> QED BY <1>1, <1>2, <1>3

LEMMA PublishKeeps ==
    ASSUME FifoInv, PushPublish
    PROVE  /\ FifoInv'
           /\ Span(tail, head)' = Span(tail, head) + 1
           /\ Span(seenTail, head)' = Span(seenTail, head) + 1
<1> USE DEF PushPublish
<1>1. head' = Wrap(head + 1) /\ head' \in Ints
  BY SpansTrue, NextIs
<1>2. Span(seenTail, head) \in 0 .. N - 1
  BY SpansTrue DEF FifoInv, StepsTrue
<1>3. Span(tail, head) \in 0 .. N - 1
  BY <1>2, SpansTrue
<1>4. Span(seenTail, head') = Span(seenTail, head) + 1
  BY <1>1, <1>2, SpansTrue, SpanGrows
<1>5. Span(tail, head') = Span(tail, head) + 1
  BY <1>1, <1>3, SpansTrue, SpanGrows
<1>6. TypeOK'
  <2>1. Span(tail, seenHead) \in 0 .. Span(tail, head')
    BY <1>3, <1>5, SpansTrue
  <2>2. Span(tail, head') \in 0 .. N /\ Span(seenTail, head') \in 0 .. N
    BY <1>2, <1>3, <1>4, <1>5, SpansTrue
  <2> QED BY <1>1, <2>1, <2>2 DEF FifoInv, TypeOK
<1>7. StepsTrue'
  BY DEF FifoInv, StepsTrue
<1> QED BY <1>4, <1>5, <1>6, <1>7 DEF FifoInv

LEMMA PopKeeps ==
    ASSUME FifoInv, PopCheck \/ PopRead
    PROVE  FifoInv'
<1> USE DEF FifoInv, TypeOK, StepsTrue
<1>1. CASE PopCheck
  <2>1. CASE seenHead = tail
    BY <1>1, <2>1 DEF PopCheck
  <2>2. CASE seenHead # tail
    <3>1. Span(tail, seenHead) # 0
      BY <2>2, SpansTrue, SpanZero
    <3>2. Span(tail, seenHead) >= 1
      BY <3>1, SpansTrue
    <3> QED BY <1>1, <2>2, <3>2 DEF PopCheck
  <2> QED BY <2>1, <2>2
<1>2. CASE PopRead
  <2>1. Slot(tail) \in 0 .. N - 1
    BY SpansTrue, SlotInRing, WidthEven DEF Ints, Half
  <2> QED BY <1>2, <2>1 DEF PopRead
<1> QED BY <1>1, <1>2

LEMMA ReleaseKeeps ==
    ASSUME FifoInv, PopRelease
    PROVE  /\ FifoInv'
           /\ Span(tail, head)' = Span(tail, head) - 1
           /\ Span(tail, seenHead)' = Span(tail, seenHead) - 1
<1> USE DEF PopRelease
<1>1. tail' = Wrap(tail + 1) /\ tail' \in Ints
  BY SpansTrue, NextIs
<1>2. Span(tail, seenHead) >= 1
  BY DEF FifoInv, StepsTrue
<1>3. Span(tail, seenHead) \in 1 .. N /\ Span(tail, head) \in 1 .. N
  BY <1>2, SpansTrue
<1>4. Span(tail', seenHead) = Span(tail, seenHead) - 1
  BY <1>1, <1>3, SpansTrue, SpanShrinks
<1>5. Span(tail', head) = Span(tail, head) - 1
  BY <1>1, <1>3, SpansTrue, SpanShrinks
<1>6. Span(seenTail, tail) \in 0 .. N - 1
  BY <1>3, SpansTrue
<1>7. Span(seenTail, tail') = Span(seenTail, tail) + 1
  BY <1>1, <1>6, SpansTrue, SpanGrows
<1>8. TypeOK'
  <2>1. Span(tail', head) \in 0 .. N /\ Span(seenTail, tail') \in 0 .. N
    BY <1>3, <1>5, <1>6, <1>7, SpansTrue
  <2>2. Span(tail', seenHead) \in 0 .. Span(tail', head)
    BY <1>3, <1>4, <1>5, SpansTrue
  <2>3. popper' \in [at : {"idle", "read", "release"}, out : Commands \cup {None}]
    BY DEF FifoInv, TypeOK
  <2> QED BY <1>1, <2>1, <2>2, <2>3 DEF FifoInv, TypeOK
<1>9. StepsTrue'
  <2>1. popper'.at = "idle"
    BY DEF FifoInv, TypeOK
  <2> QED BY <2>1 DEF FifoInv, StepsTrue
<1> QED BY <1>4, <1>5, <1>8, <1>9 DEF FifoInv

LEMMA SeeKeeps ==
    ASSUME FifoInv, SeeTail \/ SeeHead
    PROVE  FifoInv'
<1> USE DEF FifoInv, TypeOK, StepsTrue
<1>1. Span(tail, tail) = 0 /\ N \in Nat \ {0}
  BY SpansTrue, SpanSelf
<1>2. CASE SeeTail
  <2>1. pusher.at \in {"write", "publish"} => Span(tail, head) < N
    BY <1>1, SpansTrue
  <2> QED BY <1>1, <1>2, <2>1 DEF SeeTail
<1>3. CASE SeeHead
  <2>1. popper.at # "idle" => Span(tail, head) >= 1
    BY <1>1, SpansTrue
  <2> QED BY <1>1, <1>3, <2>1 DEF SeeHead
<1> QED BY <1>2, <1>3

LEMMA StepFifo ==
    ASSUME FifoInv, [Next]_vars
    PROVE  FifoInv'
<1>1. CASE UNCHANGED vars
  BY <1>1 DEF vars, FifoInv, TypeOK, StepsTrue
<1> QED BY <1>1, PushKeeps, PublishKeeps, PopKeeps, ReleaseKeeps, SeeKeeps DEF Next, Push, Pop

-------------------------------------------------------------------------------
(* Every step is a step of the queue, or invisible. *)

LEMMA BeginRefines ==
    ASSUME FifoInv, PushBegin \/ PushCheck
    PROVE  [Queue!QNext]_Queue!qVars
<1>1. UNCHANGED <<head, tail, seenTail, seenHead, slots, popper>>
  BY DEF PushBegin, PushCheck
<1>2. UNCHANGED <<Stored, Span(seenTail, head), Span(tail, seenHead), Popped, popper.out>>
  BY <1>1 DEF Stored, Span, Popped
<1>3. pusher \in [at : {"idle", "check", "write", "publish"}, cmd : Contents]
      /\ (pusher.at = "idle" <=> pusher.cmd = None)
  BY DEF FifoInv, TypeOK, StepsTrue, Contents
<1>4. CASE PushBegin
  <2>1. pusher.cmd = None /\ pusher'.cmd \in Commands
    BY <1>3, <1>4 DEF PushBegin
  <2>2. Queue!QOffer
    BY <1>2, <2>1 DEF Queue!QOffer
  <2> QED BY <2>2 DEF Queue!QNext
<1>5. CASE PushCheck
  <2>1. CASE Wrap(head - seenTail) >= N
    <3>1. pusher.cmd # None /\ pusher'.cmd = None
      BY <1>3, <1>5, <2>1 DEF PushCheck
    <3>2. Span(seenTail, head) >= N
      BY <2>1 DEF Span
    <3>3. N - Span(seenTail, head) = 0
      BY <3>2, SpansTrue
    <3>4. Queue!QReject
      BY <1>2, <3>1, <3>3 DEF Queue!QReject
    <3> QED BY <3>4 DEF Queue!QNext
  <2>2. CASE ~(Wrap(head - seenTail) >= N)
    <3>1. pusher'.cmd = pusher.cmd
      BY <1>3, <1>5, <2>2 DEF PushCheck
    <3> QED BY <1>2, <3>1 DEF Queue!qVars
  <2> QED BY <2>1, <2>2
<1> QED BY <1>4, <1>5

\* The element is written into a slot that the queue does not hold.
LEMMA WriteRefines ==
    ASSUME FifoInv, PushWrite
    PROVE  UNCHANGED Queue!qVars
<1>1. /\ UNCHANGED <<head, tail, seenTail, seenHead, popper>>
      /\ slots' = [slots EXCEPT ![Slot(head)] = pusher.cmd]
  BY DEF PushWrite
<1>2. UNCHANGED <<Span(tail, head), Span(seenTail, head), Span(tail, seenHead), Popped, popper.out>>
  BY <1>1 DEF Span, Popped
<1>3. pusher'.cmd = pusher.cmd
  BY DEF PushWrite, FifoInv, TypeOK
<1>4. Span(tail, head) < N
  BY SpansTrue DEF PushWrite, FifoInv, StepsTrue
<1>5. ASSUME NEW i \in 1 .. Span(tail, head) - Popped
      PROVE  slots'[Slot(tail + Popped + i - 1)] = slots[Slot(tail + Popped + i - 1)]
  <2>1. /\ tail \in Int /\ Popped \in {0, 1}
        /\ Span(tail, head) \in 0 .. N - 1 /\ N \in Nat \ {0}
    <3>1. tail \in Int
      BY SpansTrue, WidthEven DEF Ints, Half
    <3>2. Popped \in {0, 1}
      BY StoredIs
    <3>3. N \in Nat \ {0} /\ Span(tail, head) \in 0 .. N
      BY SpansTrue
    <3> QED BY <1>4, <3>1, <3>2, <3>3
  <2>2. PICK a \in Int : a = tail + Popped + i - 1
    BY <2>1
  <2>3. PICK b \in Int : b = tail + Span(tail, head)
    BY <2>1
  <2>4. a < b /\ b < a + N
    BY <2>1, <2>2, <2>3
  <2>5. Slot(a) # Slot(b)
    BY <2>4, SlotsDiffer
  <2>6. Slot(head) = Slot(b)
    BY <2>3, SpansTrue, SlotAtSpan
  <2>7. Slot(a) \in 0 .. N - 1
    BY SlotInRing
  <2> QED BY <1>1, <2>2, <2>5, <2>6, <2>7 DEF FifoInv, TypeOK
<1>6. Stored' = Stored
  BY <1>1, <1>2, <1>5 DEF Stored
<1> QED BY <1>2, <1>3, <1>6 DEF Queue!qVars

\* The stored head makes the element the last of the queue.
LEMMA PublishRefines ==
    ASSUME FifoInv, PushPublish
    PROVE  Queue!QAccept
<1>1. UNCHANGED <<tail, seenTail, seenHead, slots, popper>> /\ pusher'.cmd = None
  BY DEF PushPublish
<1>2. UNCHANGED <<Span(tail, seenHead), Popped, popper.out>>
  BY <1>1 DEF Span, Popped
<1>3. FifoInv' /\ Span(tail, head)' = Span(tail, head) + 1
      /\ Span(seenTail, head)' = Span(seenTail, head) + 1
  BY PublishKeeps
<1>4. pusher.cmd # None /\ pusher.cmd \in Contents /\ slots[Slot(head)] = pusher.cmd
  BY DEF PushPublish, FifoInv, TypeOK, StepsTrue, Contents
<1>5. Span(seenTail, head) < N
  BY DEF PushPublish, FifoInv, StepsTrue
<1> DEFINE n == Span(tail, head) - Popped
<1>6. n \in Nat /\ Stored \in Seq(Contents) /\ Len(Stored) = n
  BY StoredIs
<1>7. Stored' \in Seq(Contents) /\ Len(Stored') = n + 1
  <2>1. Stored' \in Seq(Contents) /\ Len(Stored') = Span(tail, head)' - Popped'
    BY <1>3, StoredTypeNext DEF StoredTyped
  <2> QED BY <1>2, <1>3, <2>1, <1>6, SpansTrue, StoredIs
<1>8. ASSUME NEW i \in 1 .. n + 1
      PROVE  Stored'[i] = IF i = n + 1 THEN pusher.cmd ELSE Stored[i]
  <2>1. Stored'[i] = slots[Slot(tail + Popped + i - 1)]
    BY <1>1, <1>2, <1>3, <1>8, SpansTrue, StoredIs DEF Stored
  <2>2. CASE i = n + 1
    <3>1. tail + Popped + i - 1 = tail + Span(tail, head)
      <4>1. tail \in Int /\ Popped \in {0, 1} /\ Span(tail, head) \in 0 .. N /\ N \in Nat
        BY SpansTrue, StoredIs, WidthEven DEF Ints, Half
      <4> QED BY <2>2, <4>1
    <3>2. Slot(head) = Slot(tail + Span(tail, head))
      BY SpansTrue, SlotAtSpan
    <3> QED BY <1>4, <2>1, <2>2, <3>1, <3>2
  <2>3. CASE i # n + 1
    BY <1>6, <2>1, <2>3, StoredIs
  <2> QED BY <2>2, <2>3
<1>9. Stored' = Append(Stored, pusher.cmd)
  <2> HIDE DEF n
  <2>1. Append(Stored, pusher.cmd) \in Seq(Contents)
        /\ Len(Append(Stored, pusher.cmd)) = n + 1
        /\ \A i \in 1 .. n + 1 : Append(Stored, pusher.cmd)[i] =
              IF i = n + 1 THEN pusher.cmd ELSE Stored[i]
    BY <1>4, <1>6
  <2> QED BY <1>7, <1>8, <2>1, SeqEqual
<1>10. (N - Span(seenTail, head))' = N - Span(seenTail, head) - 1
       /\ N - Span(seenTail, head) > 0
  BY <1>3, <1>5, SpansTrue
<1> QED BY <1>1, <1>2, <1>4, <1>9, <1>10 DEF Queue!QAccept

\* The copied element was the first of the queue.
LEMMA ReadRefines ==
    ASSUME FifoInv, PopRead
    PROVE  Queue!QTake
<1>1. UNCHANGED <<head, tail, seenTail, seenHead, slots, pusher>>
      /\ popper' = [at |-> "release", out |-> slots[Slot(tail)]]
      /\ popper.at = "read"
  BY DEF PopRead
<1>2. UNCHANGED <<Span(tail, head), Span(seenTail, head), Span(tail, seenHead), pusher.cmd>>
  BY <1>1 DEF Span
<1>3. Popped = 0 /\ Popped' = 1
  BY <1>1 DEF Popped
<1>4. Span(tail, seenHead) >= 1
  BY <1>1 DEF FifoInv, StepsTrue
<1> DEFINE n == Span(tail, head)
<1>5. n \in Nat /\ n >= 1 /\ Stored \in Seq(Contents) /\ Len(Stored) = n
  BY <1>3, <1>4, SpansTrue, StoredIs
<1>6. tail \in Int
  BY SpansTrue, WidthEven DEF Ints, Half
<1>7. Stored' \in Seq(Contents) /\ Len(Stored') = n - 1
      /\ Stored' = [i \in 1 .. n - 1 |-> slots[Slot(tail + 1 + i - 1)]]
  <2>1. StoredTyped'
    BY PopKeeps, StoredTypeNext
  <2>2. Span(tail, head)' - Popped' = n - 1
    BY <1>2, <1>3
  <2>3. Stored' = [i \in 1 .. n - 1 |-> slots[Slot(tail + 1 + i - 1)]]
    BY <1>1, <1>3, <2>2 DEF Stored
  <2> QED BY <2>1, <2>2, <2>3 DEF StoredTyped
<1>8. \A i \in 1 .. n : Stored[i] = slots[Slot(tail + 0 + i - 1)]
  <2>1. Stored = [i \in 1 .. n |-> slots[Slot(tail + 0 + i - 1)]]
    <3>1. n - Popped = n
      BY <1>3, <1>5
    <3> QED BY <1>3, <3>1 DEF Stored
  <2> QED BY <2>1
<1>9. ASSUME NEW i \in 1 .. n - 1 PROVE Stored'[i] = Stored[i + 1]
  <2>1. Stored'[i] = slots[Slot(tail + 1 + i - 1)]
    BY <1>7, <1>9
  <2>2. i + 1 \in 1 .. n /\ tail + 1 + i - 1 = tail + 0 + (i + 1) - 1
    BY <1>5, <1>6
  <2> QED BY <1>8, <2>1, <2>2
<1>10. Stored' = Tail(Stored)
  <2> HIDE DEF n
  <2>1. Stored # <<>>
    BY <1>5
  <2>2. Tail(Stored) \in Seq(Contents) /\ Len(Tail(Stored)) = n - 1
        /\ \A i \in 1 .. n - 1 : Tail(Stored)[i] = Stored[i + 1]
    BY <1>5, <2>1, HeadTailProperties
  <2> QED BY <1>7, <1>9, <2>2, SeqEqual
<1>11. popper'.out = Head(Stored)
  <2>1. Stored[1] = slots[Slot(tail)]
    BY <1>5, <1>6, <1>8
  <2> QED BY <1>1, <1>5, <2>1
<1>12. Span(tail, seenHead) - Popped > 0
       /\ (Span(tail, seenHead) - Popped)' = Span(tail, seenHead) - Popped - 1
  BY <1>2, <1>3, <1>4, SpansTrue
<1> QED BY <1>2, <1>10, <1>11, <1>12 DEF Queue!QTake

LEMMA CheckRefines ==
    ASSUME FifoInv, PopCheck
    PROVE  [Queue!QNext]_Queue!qVars
<1>1. UNCHANGED <<head, tail, seenTail, seenHead, slots, pusher>> /\ popper.at = "idle"
  BY DEF PopCheck
<1>2. UNCHANGED <<Span(tail, head), Span(seenTail, head), Span(tail, seenHead), pusher.cmd>>
  BY <1>1 DEF Span
<1>3. popper'.at \in {"idle", "read"}
  BY DEF PopCheck, FifoInv, TypeOK
<1>4. Popped = 0 /\ Popped' = 0
  BY <1>1, <1>3 DEF Popped
<1>5. Stored' = Stored
  BY <1>1, <1>2, <1>4 DEF Stored
<1>6. CASE seenHead = tail
  <2>1. popper'.out = None
    BY <1>6 DEF PopCheck, FifoInv, TypeOK
  <2>2. Span(tail, seenHead) - Popped = 0
    BY <1>4, <1>6, SpansTrue, SpanSelf
  <2>3. Queue!QFindEmpty
    BY <1>2, <1>4, <1>5, <2>1, <2>2 DEF Queue!QFindEmpty
  <2> QED BY <2>3 DEF Queue!QNext
<1>7. CASE seenHead # tail
  <2>1. popper'.out = popper.out
    BY <1>7 DEF PopCheck, FifoInv, TypeOK
  <2> QED BY <1>2, <1>4, <1>5, <2>1 DEF Queue!qVars
<1> QED BY <1>6, <1>7

\* The stored tail hands back a slot the queue no longer holds.
LEMMA ReleaseRefines ==
    ASSUME FifoInv, PopRelease
    PROVE  UNCHANGED Queue!qVars
<1>1. /\ UNCHANGED <<head, seenTail, seenHead, slots, pusher>>
      /\ popper.at = "release" /\ tail' = Wrap(tail + 1)
      /\ popper'.at = "idle" /\ popper'.out = popper.out
  BY DEF PopRelease, FifoInv, TypeOK
<1>2. Popped = 1 /\ Popped' = 0
  BY <1>1 DEF Popped
<1>3. Span(tail, head)' = Span(tail, head) - 1
      /\ Span(tail, seenHead)' = Span(tail, seenHead) - 1
  BY ReleaseKeeps
<1>4. Span(seenTail, head)' = Span(seenTail, head)
  BY <1>1 DEF Span
<1>5. tail \in Int /\ tail \in Ints /\ Span(tail, head) \in Int /\ Span(tail, seenHead) \in Int
  BY SpansTrue, WidthEven DEF Ints, Half
<1>6. ASSUME NEW i \in 1 .. Span(tail, head) - 1
      PROVE  Slot(tail' + 0 + i - 1) = Slot(tail + 1 + i - 1)
  <2>1. PICK j \in Int : j = i - 1
    BY <1>5
  <2>2. Slot(Wrap(tail + 1) + j) = Slot(tail + 1 + j)
    BY <1>5, SlotAfterNext
  <2>3. Wrap(tail + 1) \in Int
    BY <1>5, NextIs, WidthEven DEF Ints, Half
  <2>4. tail' + 0 + i - 1 = Wrap(tail + 1) + j /\ tail + 1 + i - 1 = tail + 1 + j
    BY <1>1, <1>5, <2>1, <2>3
  <2> QED BY <2>2, <2>4
<1>7. Span(tail, head)' - Popped' = Span(tail, head) - 1
  BY <1>2, <1>3, <1>5
<1>8. Stored' = Stored
  <2>1. Stored = [i \in 1 .. Span(tail, head) - 1 |-> slots[Slot(tail + 1 + i - 1)]]
    BY <1>2 DEF Stored
  <2>2. Stored' = [i \in 1 .. Span(tail, head) - 1 |-> slots[Slot(tail' + 0 + i - 1)]]
    BY <1>1, <1>2, <1>7 DEF Stored
  <2> QED BY <1>6, <2>1, <2>2
<1>9. (Span(tail, seenHead) - Popped)' = Span(tail, seenHead) - Popped
  BY <1>2, <1>3, <1>5
<1> QED BY <1>1, <1>4, <1>8, <1>9 DEF Queue!qVars

\* A view that catches up is something learnt.
LEMMA SeeRefines ==
    ASSUME FifoInv, SeeTail \/ SeeHead
    PROVE  Queue!QLearn
<1>1. UNCHANGED <<head, tail, slots, pusher, popper>>
  BY DEF SeeTail, SeeHead
<1>2. UNCHANGED <<Span(tail, head), Popped, Stored, pusher.cmd, popper.out>>
  BY <1>1 DEF Span, Popped, Stored
<1>3. Len(Stored) = Span(tail, head) - Popped /\ Popped \in {0, 1}
  BY StoredIs
<1>4. Span(seenTail, head)' \in {Span(seenTail, head), Span(tail, head)}
  BY <1>1 DEF SeeTail, SeeHead, Span
<1>5. Span(tail, seenHead)' \in {Span(tail, seenHead), Span(tail, head)}
  BY <1>1 DEF SeeTail, SeeHead, Span
<1>6. (N - Span(seenTail, head))' \in N - Span(seenTail, head) .. N - Len(Stored)
  BY <1>3, <1>4, SpansTrue
<1>7. (Span(tail, seenHead) - Popped)' \in Span(tail, seenHead) - Popped .. Len(Stored)
  BY <1>2, <1>3, <1>5, SpansTrue
<1> QED BY <1>2, <1>6, <1>7 DEF Queue!QLearn

LEMMA StepRefines ==
    ASSUME FifoInv, [Next]_vars
    PROVE  [Queue!QNext]_Queue!qVars
<1>1. CASE UNCHANGED vars
  <2>1. UNCHANGED <<Stored, Span(seenTail, head), Span(tail, seenHead), Popped,
                    pusher.cmd, popper.out>>
    BY <1>1 DEF vars, Stored, Span, Popped
  <2> QED BY <2>1 DEF Queue!qVars
<1> QED BY <1>1, BeginRefines, WriteRefines, PublishRefines, CheckRefines, ReadRefines,
           ReleaseRefines, SeeRefines DEF Next, Push, Pop, Queue!QNext

LEMMA InitRefines == Init => Queue!QInit
<1> SUFFICES ASSUME Init PROVE Queue!QInit
  OBVIOUS
<1>1. 0 \in Ints
  BY WidthEven, FifoAssumption DEF Ints, Half
<1>2. Span(0, 0) = 0 /\ N \in Nat
  BY <1>1, SpanSelf, FifoAssumption
<1>3. Popped = 0
  BY DEF Init, Popped
<1>4. Stored = <<>>
  BY <1>2, <1>3 DEF Init, Stored
<1> QED BY <1>2, <1>3, <1>4 DEF Init, Queue!QInit

-------------------------------------------------------------------------------
\* The indices stay ints, no view leaves the span between the two, and the ring
\* never holds more than its size, also after the indices have wrapped.
THEOREM FifoTypeCorrect == Spec => []TypeOK
<1>1. FifoInv => TypeOK
  BY DEF FifoInv
<1> QED BY <1>1, InitFifo, StepFifo, PTL DEF Spec

\* push and pop implement the bounded queue: every accepted command is popped
\* once, in order and unaltered, a push is refused only when the producer
\* knows of no room, a pop finds nothing only when the consumer knows of
\* nothing.
THEOREM FifoImplementsQueue == Spec => ImplementsQueue
<1> QED BY InitFifo, StepFifo, InitRefines, StepRefines, PTL
        DEF Spec, ImplementsQueue, Queue!QSpec

-------------------------------------------------------------------------------
(* What may be queued *)

LEMMA Tags ==
    /\ ObjectTags \cap ChannelTags = {} /\ AdmTags \cap ChannelTags = {}
    /\ (ObjectTags \cup AdmTags \cup ChannelTags) \cap EngineTags = {}
    /\ "ObjAlgo" \in ObjectTags /\ "ObjAlgo" \notin AdmTags \cup ChannelTags
    /\ "SysReset" \in EngineTags /\ "SysAmbiDecoderType" \in EngineTags
BY DEF ObjectTags, AdmTags, ChannelTags, EngineTags

\* Whatever a packet says, a decoder type in a command is one that exists.
TypeExists(m) == m.tag = "SysAmbiDecoderType" => m.p[1] \in 0 .. 4

LEMMA BuiltType ==
    ASSUME NEW pkt \in Packets, NEW a
    PROVE  TypeExists(BuildCommand(pkt, a))
<1> USE DEF TypeExists, Means, Unknown
<1>1. pkt.verb \in ObjectVerbs => TypeExists(BuildObject(pkt.verb, a))
  BY DEF ObjectVerbs, BuildObject
<1>2. pkt.verb \in SystemVerbs => TypeExists(BuildSystem(pkt.verb, a))
  <2> DEFINE type == IF GetInt(a, 1) \in 0 .. 4 THEN GetInt(a, 1) ELSE 0
  <2>1. type \in 0 .. 4
    OBVIOUS
  <2> HIDE DEF type
  <2>2. TypeExists(Means("SysAmbiDecoderType", <<type>>))
    BY <2>1
  <2>3. pkt.verb = "/sys/ambi_decoder_type" =>
           BuildSystem(pkt.verb, a) = Means("SysAmbiDecoderType", <<type>>)
    BY DEF BuildSystem, type
  <2>4. pkt.verb \in SystemVerbs \ {"/sys/ambi_decoder_type"} =>
           BuildSystem(pkt.verb, a).tag # "SysAmbiDecoderType"
    BY DEF SystemVerbs, BuildSystem, BuildHandshake
  <2> QED BY <2>2, <2>3, <2>4
<1>3. pkt.verb \in BinauralVerbs => TypeExists(BuildBinaural(pkt.verb, a))
  BY DEF BinauralVerbs, BuildBinaural
<1>4. pkt.verb \in HeartbeatVerbs => TypeExists(BuildHeartbeat(pkt.verb, a))
  BY DEF HeartbeatVerbs, BuildHeartbeat
<1>5. pkt.verb \in SceneVerbs => TypeExists(BuildScene(pkt.verb, a))
  BY DEF SceneVerbs, BuildScene
<1>6. pkt.verb \in TransportVerbs => TypeExists(BuildTransport(pkt.verb, a))
  BY DEF TransportVerbs, BuildTransport
<1>7. pkt.n \in Int
  BY PathAssumption
<1>8. pkt.verb \in ChannelVerbs => TypeExists(BuildChannel(pkt.verb, pkt.n, a))
  BY <1>7 DEF ChannelVerbs, BuildChannel
<1>9. pkt.verb \in AdmVerbs => TypeExists(DecodeAdm(pkt.verb, pkt.n, a))
  BY <1>7 DEF AdmVerbs, DecodeAdm
<1>10. TypeExists(Unknown)
  OBVIOUS
<1> HIDE DEF TypeExists, Unknown
<1> QED BY <1>1, <1>2, <1>3, <1>4, <1>5, <1>6, <1>8, <1>9, <1>10 DEF BuildCommand

LEMMA QueuedType ==
    ASSUME NEW q \in Elements
    PROVE  /\ q.tag \in QueuedTags
           /\ q.tag \notin ObjectTags \cup AdmTags => q.obj = 0
           /\ q.tag = "SysAmbiDecoderType" => q.p[1] \in 0 .. 4
<1>1. PICK pkt \in Packets : /\ Decode(pkt).tag \in QueuedTags
                             /\ q = Queued(Decode(pkt))
  BY DEF Elements, Received
<1> DEFINE c == Decode(pkt)
<1>2. TypeExists(c)
  <2>1. TypeExists(BuildCommand(pkt, OscArgs(pkt))) /\ TypeExists(Unknown)
    BY BuiltType DEF TypeExists, Unknown
  <2> QED BY <2>1 DEF Decode, TypeExists
<1> HIDE DEF c
<1>3. q = Queued(c) /\ c.tag \in QueuedTags
  BY <1>1 DEF c
<1>4. "SysAmbiDecoderType" # "ObjMute"
  OBVIOUS
<1> QED BY <1>2, <1>3, <1>4 DEF Queued, TypeExists

-------------------------------------------------------------------------------
(* What a command changes *)

Objects == 0 .. MaxObjects - 1
Decoder == -1
Parts == Objects \cup {Decoder}

\* A command that has a word about a part: an object's algorithm or the decoder.
Touches(q, k) ==
    IF k = Decoder THEN q.tag = "SysAmbiDecoderType"
    ELSE q.tag = "SysReset" \/ (q.tag = "ObjAlgo" /\ q.obj = k)

Says(q, k) ==
    IF k = Decoder THEN q.p[1] ELSE IF q.tag = "SysReset" THEN "VBAP" ELSE q.p[2]

\* What is in effect for a part, and what was asked for.
Plays(d, k) == IF k = Decoder THEN d.type ELSE d.objs[k].algo
Wanted(a, k) == IF k = Decoder THEN a.type ELSE a.algo[k]

DeskTrue(d) ==
    /\ DOMAIN d = {"objs", "noise", "trim", "limit", "play", "reverb", "order", "type", "chase"}
    /\ DOMAIN d.objs = Objects
    /\ \A o \in Objects : "algo" \in DOMAIN d.objs[o]

AskedTrue(a) == DOMAIN a = {"algo", "type"} /\ DOMAIN a.algo = Objects

\* The desk is touched where the command has a word, and nowhere else.
LEMMA ApplySays ==
    ASSUME NEW d, DeskTrue(d), NEW q \in Elements
    PROVE  /\ DeskTrue(Apply(d, q))
           /\ \A k \in Parts : Plays(Apply(d, q), k) =
                                 IF Touches(q, k) THEN Says(q, k) ELSE Plays(d, k)
<1> USE DEF DeskTrue, Plays, Touches, Says, Objects, Parts, Decoder
<1>0. MaxObjects \in Nat \ {0} /\ q.tag \in QueuedTags
  BY PathAssumption, QueuedType
<1>1. CASE q.obj < MaxObjects /\ q.tag \in ObjectTags \cup AdmTags
  <2>1. PICK o : o = ApplyToObject(d.objs[q.obj], q)
    OBVIOUS
  <2>2. Apply(d, q) = [d EXCEPT !.objs[q.obj] = o]
    BY <1>1, <2>1, Tags DEF Apply
  <2>3. ASSUME q.obj \in Objects
        PROVE  /\ "algo" \in DOMAIN o
               /\ o.algo = IF q.tag = "ObjAlgo" THEN q.p[2] ELSE d.objs[q.obj].algo
    BY <1>1, <2>1, <2>3 DEF ApplyToObject, MoveTo, ObjectTags, AdmTags
  <2>4. q.tag \notin {"SysReset", "SysAmbiDecoderType"}
    BY <1>1, Tags
  <2>5. \A k \in Parts : Touches(q, k) <=> q.tag = "ObjAlgo" /\ q.obj = k /\ k # Decoder
    BY <2>4
  <2>6. CASE q.obj \in Objects
    <3> DEFINE e == [d EXCEPT !.objs[q.obj] = o]
    <3>1. /\ DOMAIN e = DOMAIN d /\ e.type = d.type
          /\ DOMAIN e.objs = Objects
          /\ e.objs[q.obj] = o
          /\ \A k \in Objects \ {q.obj} : e.objs[k] = d.objs[k]
      BY <2>6
    <3> HIDE DEF e
    <3>2. DeskTrue(e)
      BY <2>3, <2>6, <3>1
    <3>3. \A k \in Parts : Plays(e, k) = IF Touches(q, k) THEN Says(q, k) ELSE Plays(d, k)
      <4>1. Plays(e, Decoder) = Plays(d, Decoder) /\ ~Touches(q, Decoder)
        BY <2>5, <3>1
      <4>2. ASSUME NEW k \in Objects
            PROVE  Plays(e, k) = IF Touches(q, k) THEN Says(q, k) ELSE Plays(d, k)
        <5>1. k # Decoder
          BY <1>0
        <5>2. CASE q.obj = k
          BY <2>3, <2>4, <2>5, <2>6, <3>1, <5>1, <5>2
        <5>3. CASE q.obj # k
          BY <2>5, <3>1, <5>1, <5>3
        <5> QED BY <5>2, <5>3
      <4> QED BY <4>1, <4>2
    <3> QED BY <2>2, <3>2, <3>3 DEF e
  <2>7. CASE q.obj \notin Objects
    <3> DEFINE e == [d EXCEPT !.objs[q.obj] = o]
    <3>1. /\ DOMAIN e = DOMAIN d /\ e.type = d.type
          /\ DOMAIN e.objs = Objects /\ \A k \in Objects : e.objs[k] = d.objs[k]
      BY <2>7
    <3> HIDE DEF e
    <3>2. DeskTrue(e) /\ \A k \in Parts : ~Touches(q, k) /\ Plays(e, k) = Plays(d, k)
      BY <2>4, <2>7, <3>1
    <3> QED BY <2>2, <3>2 DEF e
  <2> QED BY <2>6, <2>7
<1>2. CASE q.obj < MaxObjects /\ q.tag \in ChannelTags
  <2>1. Apply(d, q) = ApplyToChannel(d, q)
    BY <1>2, Tags DEF Apply
  <2>2. /\ DOMAIN ApplyToChannel(d, q) = DOMAIN d
        /\ ApplyToChannel(d, q).objs = d.objs /\ ApplyToChannel(d, q).type = d.type
    BY <1>2 DEF ApplyToChannel, ChannelTags
  <2>3. q.tag \notin {"SysReset", "SysAmbiDecoderType", "ObjAlgo"}
    BY <1>2, Tags
  <2> QED BY <2>1, <2>2, <2>3
<1>3. CASE q.tag \in EngineTags
  <2>0. q.obj < MaxObjects
    BY <1>0, <1>3, QueuedType, Tags
  <2>1. Apply(d, q) = ApplyToEngine(d, q)
    BY <1>3, <2>0, Tags DEF Apply
  <2>2. q.tag # "ObjAlgo"
    BY <1>3, Tags
  <2>3. CASE q.tag = "SysReset"
    <3>1. Apply(d, q) = [d EXCEPT !.objs = Desk.objs]
      BY <2>1, <2>3 DEF ApplyToEngine
    <3>2. Desk.objs = [o \in Objects |-> ObjCache] /\ ObjCache.algo = "VBAP"
          /\ "algo" \in DOMAIN ObjCache
      BY DEF Desk, ObjCache
    <3> QED BY <2>3, <3>1, <3>2
  <2>4. CASE q.tag = "SysAmbiDecoderType"
    <3>1. Apply(d, q) = [d EXCEPT !.type = q.p[1]]
      BY <2>1, <2>4, QueuedType DEF ApplyToEngine, SetDecoderType
    <3> QED BY <2>4, <3>1
  <2>5. CASE q.tag \notin {"SysReset", "SysAmbiDecoderType"}
    <3>1. /\ DOMAIN ApplyToEngine(d, q) = DOMAIN d
          /\ ApplyToEngine(d, q).objs = d.objs /\ ApplyToEngine(d, q).type = d.type
      BY <1>3, <2>5 DEF ApplyToEngine, EngineTags
    <3> QED BY <2>1, <2>2, <2>5, <3>1
  <2> QED BY <2>3, <2>4, <2>5
<1>4. CASE ~(q.obj < MaxObjects) /\ q.tag \notin EngineTags
  <2>1. Apply(d, q) = d
    BY <1>4 DEF Apply
  <2>2. q.tag \notin {"SysReset", "SysAmbiDecoderType"} /\ q.obj \notin Objects
    BY <1>0, <1>4, Tags
  <2> QED BY <2>1, <2>2
<1> QED BY <1>0, <1>1, <1>2, <1>3, <1>4 DEF QueuedTags

LEMMA AskingSays ==
    ASSUME NEW a, AskedTrue(a), NEW q \in Elements
    PROVE  /\ AskedTrue(Asking(a, q))
           /\ \A k \in Parts : Wanted(Asking(a, q), k) =
                                 IF Touches(q, k) THEN Says(q, k) ELSE Wanted(a, k)
<1> USE DEF AskedTrue, Wanted, Touches, Says, Objects, Parts, Decoder
<1>0. MaxObjects \in Nat \ {0}
  BY PathAssumption
<1>1. CASE q.tag = "ObjAlgo" /\ q.obj < MaxObjects
  <2>1. Asking(a, q) = [a EXCEPT !.algo[q.obj] = q.p[2]]
    BY <1>1 DEF Asking
  <2> QED BY <1>1, <2>1
<1>2. CASE q.tag = "SysReset"
  <2>1. Asking(a, q) = [a EXCEPT !.algo = [o \in DOMAIN a.algo |-> "VBAP"]]
    BY <1>2 DEF Asking
  <2> QED BY <1>2, <2>1
<1>3. CASE q.tag = "SysAmbiDecoderType"
  <2>1. Asking(a, q) = [a EXCEPT !.type = q.p[1]]
    BY <1>3 DEF Asking
  <2> QED BY <1>3, <2>1
<1>4. CASE /\ ~(q.tag = "ObjAlgo" /\ q.obj < MaxObjects)
           /\ q.tag \notin {"SysReset", "SysAmbiDecoderType"}
  <2>1. Asking(a, q) = a
    BY <1>4 DEF Asking
  <2> QED BY <1>0, <1>4, <2>1
<1> QED BY <1>1, <1>2, <1>3, <1>4

\* A start sets up the channels afresh and nothing else.
LEMMA PreparedSays ==
    ASSUME NEW d, DeskTrue(d)
    PROVE  /\ DeskTrue(Prepared(d))
           /\ \A k \in Parts : Plays(Prepared(d), k) = Plays(d, k)
BY DEF DeskTrue, Plays, Prepared

-------------------------------------------------------------------------------
(* The ring under the rig *)

LEMMA PathInitFifo == PathInit => Init
BY DEF PathInit

LEMMA PathStepFifo == [PathNext]_pathVars => [Next]_vars
<1> USE DEF vars, Next, Push, Pop
<1> SUFFICES ASSUME [PathNext]_pathVars PROVE [Next]_vars
  OBVIOUS
<1>1. CASE Start \/ ReceiveOther \/ EndBlock \/ Build \/ Publish \/ StopDevice \/ Release
           \/ UNCHANGED pathVars
  BY <1>1 DEF Start, ReceiveOther, EndBlock, Build, Publish, StopDevice, Release, pathVars
<1>2. CASE Receive \/ Allocate \/ PushStep \/ Accept
  BY <1>2 DEF Receive, Allocate, PushStep, Accept
<1>3. CASE DrainCheck \/ DrainRead \/ DrainApply \/ See
  BY <1>3 DEF DrainCheck, DrainRead, DrainApply, See
<1> QED BY <1>1, <1>2, <1>3 DEF PathNext

\* The ring implements the bounded queue with all that surrounds it.
THEOREM PathImplementsQueue == PathSpec => ImplementsQueue
<1>1. PathSpec => Spec
  BY PathInitFifo, PathStepFifo, PTL DEF PathSpec, Spec
<1> QED BY <1>1, FifoImplementsQueue

LEMMA FifoAlways == PathSpec => []FifoInv
BY InitFifo, StepFifo, PathInitFifo, PathStepFifo, PTL DEF PathSpec

-------------------------------------------------------------------------------
(* What waits to be acted upon *)

LEMMA PendingIs ==
    ASSUME FifoInv
    PROVE  /\ popper.at # "release" => Pending = Stored
           /\ popper.at = "release" => Pending = <<popper.out>> \o Stored
<1>1. Stored \in Seq(Contents)
  BY StoredIs
<1> QED BY <1>1 DEF Pending

PendingShape ==
    /\ popper.at # "release" => Pending = Stored
    /\ popper.at = "release" => Pending = <<popper.out>> \o Stored

LEMMA PendingIsNext == FifoInv' => PendingShape'
<1>1. FifoInv => PendingShape
  BY PendingIs DEF PendingShape
<1> QED BY <1>1, PTL

LEMMA PublishAppends ==
    ASSUME FifoInv, PushPublish
    PROVE  Pending' = Append(Pending, pusher.cmd) /\ pusher.cmd \in Commands
<1>1. Stored' = Append(Stored, pusher.cmd)
  BY PublishRefines DEF Queue!QAccept
<1>2. pusher.cmd \in Commands /\ popper' = popper
  BY DEF PushPublish, FifoInv, TypeOK, StepsTrue
<1>3. Stored \in Seq(Contents) /\ popper.out \in Contents /\ pusher.cmd \in Contents
  BY <1>2, StoredIs DEF FifoInv, TypeOK, Contents
<1>4. PendingShape'
  BY PublishKeeps, PendingIsNext
<1>5. <<popper.out>> \o Append(Stored, pusher.cmd) =
        Append(<<popper.out>> \o Stored, pusher.cmd)
  BY <1>3
<1> QED BY <1>1, <1>2, <1>4, <1>5, PendingIs DEF PendingShape

LEMMA ReleaseDrops ==
    ASSUME FifoInv, PopRelease
    PROVE  Pending = <<popper.out>> \o Pending' /\ Pending' \in Seq(Contents)
<1>1. Stored' = Stored
  BY ReleaseRefines DEF Queue!qVars
<1>2. popper.at = "release" /\ popper'.at = "idle"
  BY DEF PopRelease, FifoInv, TypeOK
<1>3. PendingShape'
  BY ReleaseKeeps, PendingIsNext
<1> QED BY <1>1, <1>2, <1>3, PendingIs, StoredIs DEF PendingShape

\* Nothing else changes it: taking the first element only moves it on.
LEMMA PendingStays ==
    ASSUME FifoInv, [Next]_vars, ~PushPublish, ~PopRelease
    PROVE  Pending' = Pending
<1>1. CASE UNCHANGED vars
  BY <1>1 DEF vars, Pending, Stored, Span, Popped
<1>2. CASE PushBegin \/ PushCheck \/ SeeTail \/ SeeHead
  BY <1>2 DEF PushBegin, PushCheck, SeeTail, SeeHead, Pending, Stored, Span, Popped
<1>3. CASE PushWrite
  <2>1. Stored' = Stored /\ popper' = popper
    BY <1>3, WriteRefines DEF Queue!qVars, PushWrite
  <2> QED BY <2>1 DEF Pending
<1>4. CASE PopCheck
  <2>1. popper.at = "idle" /\ popper'.at \in {"idle", "read"}
        /\ UNCHANGED <<head, tail, slots>>
    BY <1>4 DEF PopCheck, FifoInv, TypeOK
  <2> QED BY <2>1 DEF Pending, Stored, Span, Popped
<1>5. CASE PopRead
  <2>1. popper.at = "read" /\ popper'.at = "release"
    BY <1>5 DEF PopRead
  <2>2. Stored' = Tail(Stored) /\ popper'.out = Head(Stored)
    BY <1>5, ReadRefines DEF Queue!QTake
  <2>3. Stored \in Seq(Contents) /\ Len(Stored) # 0
    <3>1. Span(tail, seenHead) >= 1 /\ Popped = 0
      BY <2>1 DEF FifoInv, StepsTrue, Popped
    <3> QED BY <3>1, SpansTrue, StoredIs
  <2>4. <<Head(Stored)>> \o Tail(Stored) = Stored
    BY <2>3
  <2>5. PendingShape'
    BY <1>5, PopKeeps, PendingIsNext
  <2> QED BY <2>1, <2>2, <2>4, <2>5, PendingIs DEF PendingShape
<1> QED BY <1>1, <1>2, <1>3, <1>4, <1>5 DEF Next, Push, Pop

-------------------------------------------------------------------------------
(* The last word *)

\* Acting upon a sequence of commands turns a part from `was' into `is': the
\* last of them that has a word about it says so.
Agreed(s, k, was, is) ==
    \/ is = was /\ \A i \in DOMAIN s : ~Touches(s[i], k)
    \/ \E i \in DOMAIN s :
          /\ Touches(s[i], k) /\ is = Says(s[i], k)
          /\ \A j \in DOMAIN s : j > i => ~Touches(s[j], k)

\* One more command has the last word if it has one.
LEMMA AgreedAppend ==
    ASSUME NEW S, NEW s \in Seq(S), NEW q \in S, NEW k, NEW was, NEW is, Agreed(s, k, was, is)
    PROVE  Agreed(Append(s, q), k, was, IF Touches(q, k) THEN Says(q, k) ELSE is)
<1> DEFINE t == Append(s, q)   n == Len(s)
<1>1. /\ n \in Nat /\ DOMAIN s = 1 .. n /\ DOMAIN t = 1 .. n + 1
      /\ t[n + 1] = q /\ \A i \in 1 .. n : t[i] = s[i]
  OBVIOUS
<1> HIDE DEF t, n
<1>2. CASE Touches(q, k)
  <2>1. n + 1 \in DOMAIN t /\ \A j \in DOMAIN t : ~(j > n + 1)
    BY <1>1
  <2> QED BY <1>1, <1>2, <2>1 DEF Agreed, t
<1>3. CASE ~Touches(q, k)
  <2>1. CASE is = was /\ \A i \in DOMAIN s : ~Touches(s[i], k)
    <3>1. \A i \in DOMAIN t : ~Touches(t[i], k)
      BY <1>1, <1>3, <2>1
    <3> QED BY <1>3, <2>1, <3>1 DEF Agreed, t
  <2>2. ASSUME NEW i \in DOMAIN s, Touches(s[i], k), is = Says(s[i], k),
               \A j \in DOMAIN s : j > i => ~Touches(s[j], k)
        PROVE  Agreed(t, k, was, is)
    <3>1. i \in DOMAIN t /\ Touches(t[i], k) /\ is = Says(t[i], k)
      BY <1>1, <2>2
    <3>2. \A j \in DOMAIN t : j > i => ~Touches(t[j], k)
      BY <1>1, <1>3, <2>2
    <3> QED BY <3>1, <3>2 DEF Agreed
  <2> QED BY <1>3, <2>1, <2>2 DEF Agreed, t
<1> QED BY <1>2, <1>3

\* The first command, acted upon, changes what was and not what will be.
LEMMA AgreedTail ==
    ASSUME NEW S, NEW t \in Seq(S), NEW q \in S, NEW k, NEW was, NEW is,
           Agreed(<<q>> \o t, k, was, is)
    PROVE  Agreed(t, k, IF Touches(q, k) THEN Says(q, k) ELSE was, is)
<1> DEFINE s == <<q>> \o t   n == Len(t)
<1>1. /\ n \in Nat /\ DOMAIN t = 1 .. n /\ DOMAIN s = 1 .. n + 1
      /\ s[1] = q /\ \A i \in 1 .. n : t[i] = s[i + 1]
  OBVIOUS
<1>0. Agreed(s, k, was, is)
  OBVIOUS
<1> HIDE DEF s, n
<1>2. CASE is = was /\ \A i \in DOMAIN s : ~Touches(s[i], k)
  <2>1. ~Touches(q, k) /\ \A i \in DOMAIN t : ~Touches(t[i], k)
    BY <1>1, <1>2
  <2> QED BY <1>2, <2>1 DEF Agreed
<1>3. ASSUME NEW i \in DOMAIN s, Touches(s[i], k), is = Says(s[i], k),
             \A j \in DOMAIN s : j > i => ~Touches(s[j], k)
      PROVE  Agreed(t, k, IF Touches(q, k) THEN Says(q, k) ELSE was, is)
  <2>1. CASE i = 1
    <3>1. \A j \in DOMAIN t : ~Touches(t[j], k)
      BY <1>1, <1>3, <2>1
    <3> QED BY <1>1, <1>3, <2>1, <3>1 DEF Agreed
  <2>2. CASE i # 1
    <3>0. i \in 1 .. n + 1
      BY <1>1
    <3>1. PICK h \in DOMAIN t : i = h + 1
      <4>1. i - 1 \in DOMAIN t /\ i = (i - 1) + 1
        BY <1>1, <2>2, <3>0
      <4> QED BY <4>1
    <3>2. Touches(t[h], k) /\ is = Says(t[h], k)
      BY <1>1, <1>3, <3>1
    <3>3. \A j \in DOMAIN t : j > h => ~Touches(t[j], k)
      BY <1>1, <1>3, <3>1
    <3> QED BY <3>2, <3>3 DEF Agreed
  <2> QED BY <2>1, <2>2
<1> QED BY <1>0, <1>2, <1>3 DEF Agreed

\* For every part, acting upon what waits leads from what is in effect to what
\* was asked for.
LastWordInv ==
    /\ Pending \in Seq(Elements)
    /\ DeskTrue(mix) /\ AskedTrue(asked)
    /\ \A k \in Parts : Agreed(Pending, k, Plays(mix, k), Wanted(asked, k))

LEMMA NothingPending == PathInit => Pending = <<>>
<1> SUFFICES ASSUME PathInit PROVE Pending = <<>>
  OBVIOUS
<1>1. FifoInv /\ Span(0, 0) = 0
  BY PathInitFifo, InitFifo, SpanSelf, WidthEven, FifoAssumption DEF Ints, Half
<1>2. Span(tail, head) = 0 /\ popper.at = "idle"
  BY <1>1 DEF PathInit, Init
<1>3. Popped = 0
  BY <1>2 DEF Popped
<1>4. Stored \in Seq(Contents) /\ Len(Stored) = 0
  BY <1>1, <1>2, <1>3, StoredIs
<1>5. Pending = Stored
  BY <1>1, <1>2, PendingIs
<1> QED BY <1>4, <1>5

LEMMA LastWordInit == PathInit => LastWordInv
<1> SUFFICES ASSUME PathInit PROVE LastWordInv
  OBVIOUS
<1>1. Pending = <<>>
  BY NothingPending
<1>2. DeskTrue(mix) /\ \A k \in Parts : Plays(mix, k) = IF k = Decoder THEN 0 ELSE "VBAP"
  BY DEF PathInit, Desk, ObjCache, DeskTrue, Plays, Objects, Parts
<1>3. AskedTrue(asked) /\ \A k \in Parts : Wanted(asked, k) = IF k = Decoder THEN 0 ELSE "VBAP"
  BY DEF PathInit, AskedTrue, Wanted, Objects, Parts
<1>4. \A k \in Parts : Agreed(<<>>, k, Plays(mix, k), Wanted(asked, k))
  BY <1>2, <1>3 DEF Agreed
<1> QED BY <1>1, <1>2, <1>3, <1>4 DEF LastWordInv

\* What is acted upon is a command, and the rest waits in its order.
LEMMA TakenIsCommand ==
    ASSUME FifoInv, LastWordInv, PopRelease
    PROVE  popper.out \in Elements /\ Pending' \in Seq(Elements)
<1>1. Pending = <<popper.out>> \o Pending' /\ Pending' \in Seq(Contents)
  BY ReleaseDrops
<1>2. Pending \in Seq(Elements) /\ popper.out \in Contents
  BY DEF LastWordInv, FifoInv, TypeOK, Contents
<1>3. Pending # <<>> /\ Head(Pending) = popper.out /\ Tail(Pending) = Pending'
  BY <1>1, <1>2
<1> QED BY <1>2, <1>3

LEMMA LastWordStep ==
    ASSUME FifoInv, LastWordInv, [PathNext]_pathVars
    PROVE  LastWordInv'
<1>0. Commands = Elements /\ [Next]_vars
  BY PathAssumption, PathStepFifo
<1>1. CASE Accept
  <2>1. Pending' = Append(Pending, pusher.cmd) /\ pusher.cmd \in Elements
    BY <1>0, <1>1, PublishAppends DEF Accept
  <2>2. mix' = mix /\ asked' = Asking(asked, pusher.cmd)
    BY <1>1 DEF Accept
  <2>3. AskedTrue(asked')
        /\ \A k \in Parts : Wanted(asked', k) =
              IF Touches(pusher.cmd, k) THEN Says(pusher.cmd, k) ELSE Wanted(asked, k)
    BY <2>1, <2>2, AskingSays DEF LastWordInv
  <2>4. Pending \in Seq(Elements)
    BY DEF LastWordInv
  <2>5. ASSUME NEW k \in Parts
        PROVE  Agreed(Pending', k, Plays(mix, k), Wanted(asked', k))
    <3>1. Agreed(Pending, k, Plays(mix, k), Wanted(asked, k))
      BY DEF LastWordInv
    <3>2. Agreed(Append(Pending, pusher.cmd), k, Plays(mix, k),
                 IF Touches(pusher.cmd, k) THEN Says(pusher.cmd, k) ELSE Wanted(asked, k))
      BY <2>1, <2>4, <3>1, AgreedAppend
    <3> QED BY <2>1, <2>3, <3>2
  <2>6. Pending' \in Seq(Elements)
    BY <2>1, <2>4
  <2> QED BY <2>2, <2>3, <2>5, <2>6 DEF LastWordInv
<1>2. CASE DrainApply
  <2>1. Pending = <<popper.out>> \o Pending' /\ Pending' \in Seq(Contents)
    BY <1>2, ReleaseDrops DEF DrainApply
  <2>2. mix' = Apply(mix, popper.out) /\ asked' = asked
    BY <1>2 DEF DrainApply
  <2>3. popper.out \in Elements /\ Pending' \in Seq(Elements)
    BY <1>2, TakenIsCommand DEF DrainApply
  <2>4. DeskTrue(mix')
        /\ \A k \in Parts : Plays(mix', k) =
              IF Touches(popper.out, k) THEN Says(popper.out, k) ELSE Plays(mix, k)
    BY <2>2, <2>3, ApplySays DEF LastWordInv
  <2>5. ASSUME NEW k \in Parts
        PROVE  Agreed(Pending', k, Plays(mix', k), Wanted(asked, k))
    <3>1. Agreed(<<popper.out>> \o Pending', k, Plays(mix, k), Wanted(asked, k))
      BY <2>1 DEF LastWordInv
    <3>2. Agreed(Pending', k, IF Touches(popper.out, k) THEN Says(popper.out, k)
                              ELSE Plays(mix, k), Wanted(asked, k))
      BY <2>3, <3>1, AgreedTail
    <3> QED BY <2>4, <3>2
  <2> QED BY <2>2, <2>3, <2>4, <2>5 DEF LastWordInv
<1>3. CASE Start
  <2>1. Pending' = Pending /\ asked' = asked /\ mix' = Prepared(mix)
    BY <1>3 DEF Start, vars, Pending, Stored, Span, Popped
  <2>2. DeskTrue(mix') /\ \A k \in Parts : Plays(mix', k) = Plays(mix, k)
    BY <2>1, PreparedSays DEF LastWordInv
  <2> QED BY <2>1, <2>2 DEF LastWordInv
<1>4. CASE ~Accept /\ ~DrainApply /\ ~Start
  <2>1. UNCHANGED <<mix, asked>>
    BY <1>4 DEF PathNext, pathVars, rig, Receive, ReceiveOther, Allocate, PushStep, DrainCheck,
                DrainRead, EndBlock, Build, Publish, StopDevice, Release, See
  <2>2. Pending' = Pending
    <3>1. CASE PushBegin \/ PushCheck \/ PushWrite
      <4>1. ~PushPublish /\ UNCHANGED popper
        BY <3>1 DEF PushBegin, PushCheck, PushWrite, PushPublish
      <4>2. ~PopRelease
        BY <4>1 DEF PopRelease, FifoInv, TypeOK
      <4> QED BY <1>0, <4>1, <4>2, PendingStays
    <3>2. CASE PopCheck \/ PopRead \/ SeeTail \/ SeeHead
      <4>1. ~PushPublish
        BY <3>2 DEF PopCheck, PopRead, SeeTail, SeeHead, PushPublish, FifoInv, TypeOK
      <4>2. ~PopRelease
        BY <3>2 DEF PopCheck, PopRead, SeeTail, SeeHead, PopRelease, FifoInv, TypeOK
      <4> QED BY <1>0, <4>1, <4>2, PendingStays
    <3>3. CASE UNCHANGED vars
      BY <3>3 DEF vars, Pending, Stored, Span, Popped
    <3> QED BY <1>4, <3>1, <3>2, <3>3
         DEF PathNext, pathVars, vars, Receive, ReceiveOther, Allocate, PushStep, DrainCheck,
             DrainRead, EndBlock, Build, Publish, StopDevice, Release, See
  <2> QED BY <2>1, <2>2 DEF LastWordInv
<1> QED BY <1>1, <1>2, <1>3, <1>4

\* The last word counts: a part whose ring is drained is as was asked for last,
\* whatever was dropped at a full ring and however often the backend restarted.
THEOREM LastWordAlwaysCounts == PathSpec => []LastWordCounts
<1>1. LastWordInv => LastWordCounts
  <2> SUFFICES ASSUME LastWordInv, Pending = <<>> 
               PROVE  \A k \in Parts : Plays(mix, k) = Wanted(asked, k)
    BY DEF LastWordCounts, Parts, Plays, Wanted, Objects, Decoder
  <2> TAKE k \in Parts
  <2>1. Agreed(<<>>, k, Plays(mix, k), Wanted(asked, k))
    BY DEF LastWordInv
  <2> QED BY <2>1 DEF Agreed
<1> QED BY <1>1, FifoAlways, LastWordInit, LastWordStep, PTL DEF PathSpec

-------------------------------------------------------------------------------
(* What a block renders with *)

\* Without WFS storage nothing calls for it: no object is routed there and no
\* command on its way says so.
WfsTrue ==
    \/ ready \/ left
    \/ /\ \A o \in Objects : Plays(mix, o) # "WFS"
       /\ \A i \in DOMAIN Pending : ~IsWfsSwitch(Pending[i])
       /\ pusher.at # "idle" => ~IsWfsSwitch(pusher.cmd)

\* The decoder: from a start on the active slot is whole and of the type
\* applied, and the slot of a running block is the active one unless there was
\* a publish in between, which the next build waits for.
RigTrue ==
    /\ main.at \in {"stopped", "loop", "build", "stopping"}
    /\ main.at = "stopped" => osc.at = "down" /\ pusher.at = "idle"
    /\ audio # "down" => main.at \in {"loop", "build"}
    /\ active \in 0 .. 1 /\ DOMAIN mats = 0 .. 1
    /\ main.at # "stopped" => applied \in 0 .. 4 /\ mats[active] = applied
    /\ main.at = "build" => main.type \in 0 .. 4 /\ ~straddle
    /\ straddle => audio = "render"
    /\ audio = "render" => mats[pin] # Unbuilt /\ pin \in 0 .. 1 /\ (~straddle => pin = active)
    /\ mix.type \in 0 .. 4
    /\ DOMAIN main = {"at", "type"} /\ DOMAIN osc = {"at", "cmd"}

LEMMA RigInit == PathInit => RigTrue
BY DEF PathInit, Init, RigTrue, Desk

LEMMA RigStep ==
    ASSUME Cadence, FifoInv, LastWordInv, RigTrue, [PathNext]_pathVars
    PROVE  RigTrue'
<1> USE DEF RigTrue, Unbuilt
<1>1. CASE Start
  <2>1. mix'.type = mix.type
    BY <1>1 DEF Start, Prepared, LastWordInv, DeskTrue
  <2>2. /\ main'.at = "loop" /\ DOMAIN main' = DOMAIN main
        /\ DOMAIN osc' = DOMAIN osc /\ audio' = "idle"
        /\ straddle' = straddle /\ applied' = mix.type
    BY <1>1 DEF Start
  <2>3. active' \in 0 .. 1 /\ DOMAIN mats' = 0 .. 1 /\ mats'[active'] = mix.type
    BY <1>1 DEF Start
  <2>4. ~straddle
    BY <1>1 DEF Start
  <2> QED BY <2>1, <2>2, <2>3, <2>4
<1>2. CASE Receive
  <2>1. UNCHANGED <<main, audio, mix, applied, active, mats, pin, straddle>>
    BY <1>2 DEF Receive
  <2>2. main.at # "stopped" /\ DOMAIN osc' = DOMAIN osc
    BY <1>2 DEF Receive
  <2> QED BY <2>1, <2>2
<1>3. CASE Allocate
  BY <1>3 DEF Allocate
<1>4. CASE PushStep \/ Accept
  <2>1. UNCHANGED <<main, osc, audio, mix, applied, active, mats, pin, straddle>>
    BY <1>4 DEF PushStep, Accept, rig
  <2>2. main.at # "stopped"
    BY <1>4 DEF PushStep, Accept, PushCheck, PushWrite, PushPublish
  <2> QED BY <2>1, <2>2
<1>5. CASE DrainCheck
  <2>1. /\ UNCHANGED <<main, osc, mix, applied, active, mats, straddle>>
        /\ pusher' = pusher /\ audio # "down" /\ audio # "render"
    BY <1>5 DEF DrainCheck, DeviceRuns, PopCheck
  <2>2. audio' \in {"drain", "render"} /\ (audio' = "render" => pin' = active)
    BY <1>5 DEF DrainCheck
  <2> QED BY <2>1, <2>2
<1>6. CASE DrainApply
  <2>1. /\ UNCHANGED <<main, osc, audio, applied, active, mats, pin, straddle>>
        /\ pusher' = pusher /\ mix' = Apply(mix, popper.out)
    BY <1>6 DEF DrainApply, PopRelease
  <2>2. popper.out \in Elements
    BY <1>6, TakenIsCommand DEF DrainApply
  <2>3. mix'.type = IF popper.out.tag = "SysAmbiDecoderType" THEN popper.out.p[1] ELSE mix.type
    <3>1. Decoder \in Parts /\ DeskTrue(mix)
      BY DEF Parts, LastWordInv
    <3>2. Plays(Apply(mix, popper.out), Decoder) =
            IF Touches(popper.out, Decoder) THEN Says(popper.out, Decoder) ELSE Plays(mix, Decoder)
      BY <2>2, <3>1, ApplySays
    <3> QED BY <2>1, <3>2 DEF Plays, Says, Touches
  <2>4. mix'.type \in 0 .. 4
    BY <2>2, <2>3, QueuedType
  <2> QED BY <2>1, <2>4
<1>7. CASE EndBlock
  BY <1>7 DEF EndBlock, vars
<1>8. CASE Build
  BY <1>8 DEF Build, vars
<1>9. CASE Publish
  <2>1. /\ UNCHANGED <<osc, audio, mix, pin, pusher>>
        /\ main.at = "build" /\ main' = [at |-> "loop", type |-> Unbuilt]
        /\ mats' = [mats EXCEPT ![1 - active] = main.type]
        /\ active' = 1 - active /\ applied' = main.type
        /\ straddle' = (audio = "render")
    BY <1>9 DEF Publish, vars
  <2>2. active' \in 0 .. 1 /\ active' # active /\ DOMAIN mats' = 0 .. 1
        /\ mats'[active'] = main.type /\ mats'[active] = applied
    BY <2>1
  <2>3. main'.at = "loop" /\ DOMAIN main' = {"at", "type"} /\ applied' \in 0 .. 4
    BY <2>1
  <2>4. audio = "render" => pin = active /\ mats'[pin] # Unbuilt
    BY <2>1, <2>2
  <2>5. straddle' <=> audio = "render"
    BY <2>1
  <2> QED BY <2>1, <2>2, <2>3, <2>4, <2>5
<1>10. CASE StopDevice
  BY <1>10 DEF StopDevice, vars
<1>11. CASE Release
  BY <1>11 DEF Release, vars
<1>12. CASE ReceiveOther \/ DrainRead \/ See \/ UNCHANGED pathVars
  <2>1. UNCHANGED rig /\ pusher' = pusher
    BY <1>12 DEF ReceiveOther, DrainRead, See, PopRead, SeeTail, SeeHead, pathVars, vars
  <2> QED BY <2>1 DEF rig
<1> QED BY <1>1, <1>2, <1>3, <1>4, <1>5, <1>6, <1>7, <1>8, <1>9, <1>10, <1>11, <1>12
     DEF PathNext

\* No object is routed to WFS by a command that is not a switch to it.
LEMMA NoSwitchNoRoute ==
    ASSUME NEW d, DeskTrue(d), NEW q \in Elements, ~IsWfsSwitch(q),
           \A o \in Objects : Plays(d, o) # "WFS"
    PROVE  \A o \in Objects : Plays(Apply(d, q), o) # "WFS"
<1> TAKE o \in Objects
<1>1. o \in Parts /\ o # Decoder
  BY PathAssumption DEF Parts, Objects, Decoder
<1>2. Plays(Apply(d, q), o) = IF Touches(q, o) THEN Says(q, o) ELSE Plays(d, o)
  BY <1>1, ApplySays
<1>3. Touches(q, o) => Says(q, o) # "WFS"
  BY <1>1 DEF Touches, Says, IsWfsSwitch
<1> QED BY <1>2, <1>3

LEMMA RoutedIs ==
    ASSUME DeskTrue(mix)
    PROVE  RoutedToWfs(mix) <=> \E o \in Objects : Plays(mix, o) = "WFS"
<1>1. \A o \in Objects : o # Decoder
  BY PathAssumption DEF Objects, Decoder
<1> QED BY <1>1 DEF RoutedToWfs, Plays, DeskTrue

LEMMA WfsInit == PathInit => WfsTrue
<1> SUFFICES ASSUME PathInit PROVE WfsTrue
  OBVIOUS
<1>1. \A o \in Objects : o # Decoder /\ Plays(mix, o) # "WFS"
  BY PathAssumption DEF Objects, Decoder, Plays, PathInit, Desk, ObjCache
<1>2. Pending = <<>> /\ pusher.at = "idle"
  BY NothingPending DEF PathInit, Init
<1> QED BY <1>1, <1>2 DEF WfsTrue

LEMMA WfsStep ==
    ASSUME FifoInv, LastWordInv, RigTrue, WfsTrue, [PathNext]_pathVars
    PROVE  WfsTrue'
<1>0. [Next]_vars
  BY PathStepFifo
<1>1. CASE Start
  <2>1. Pending' = Pending /\ pusher' = pusher /\ pusher.at = "idle"
    BY <1>1 DEF Start, vars, Pending, Stored, Span, Popped, RigTrue
  <2>2. CASE RoutedToWfs(mix)
    BY <1>1, <2>2 DEF Start, WfsTrue
  <2>3. CASE \E i \in DOMAIN Pending : IsWfsSwitch(Pending[i])
    BY <1>1, <2>3, Zenon DEF Start, WfsTrue
  <2>4. CASE ~RoutedToWfs(mix) /\ \A i \in DOMAIN Pending : ~IsWfsSwitch(Pending[i])
    <3>1. \A o \in Objects : Plays(mix', o) # "WFS"
      <4>1. mix' = Prepared(mix) /\ DeskTrue(mix)
        BY <1>1 DEF Start, LastWordInv
      <4>2. \A o \in Objects : Plays(mix', o) = Plays(mix, o) /\ Plays(mix, o) # "WFS"
        BY <2>4, <4>1, PreparedSays, RoutedIs DEF Parts
      <4> QED BY <4>2
    <3> QED BY <2>1, <2>4, <3>1 DEF WfsTrue
  <2> QED BY <2>2, <2>3, <2>4
<1>2. CASE Receive
  <2>1. UNCHANGED <<mix, ready, left>> /\ Pending' = Pending
    <3>1. PushBegin \/ UNCHANGED vars
      BY <1>2 DEF Receive
    <3>2. UNCHANGED <<head, tail, slots, popper>>
      BY <3>1 DEF PushBegin, vars
    <3> QED BY <1>2, <3>2 DEF Receive, Pending, Stored, Span, Popped
  <2>2. ready \/ UNCHANGED vars \/ ~IsWfsSwitch(pusher'.cmd)
    BY <1>2 DEF Receive
  <2>3. UNCHANGED vars => pusher' = pusher
    BY DEF vars
  <2> QED BY <2>1, <2>2, <2>3 DEF WfsTrue
<1>3. CASE Allocate
  BY <1>3 DEF Allocate, WfsTrue
<1>4. CASE PushStep
  <2>1. UNCHANGED <<mix, ready, left>> /\ Pending' = Pending
    <3>1. ~PushPublish /\ ~PopRelease
      <4>1. pusher.at # "publish" /\ popper' = popper
        BY <1>4 DEF PushStep, PushCheck, PushWrite
      <4> QED BY <4>1 DEF PushPublish, PopRelease, FifoInv, TypeOK
    <3> QED BY <1>0, <1>4, <3>1, PendingStays DEF PushStep, rig
  <2>2. pusher'.at = "idle" \/ (pusher'.cmd = pusher.cmd /\ pusher.at # "idle")
    BY <1>4 DEF PushStep, PushCheck, PushWrite, FifoInv, TypeOK
  <2> QED BY <2>1, <2>2 DEF WfsTrue
<1>5. CASE Accept
  <2>1. UNCHANGED <<mix, ready, left>> /\ pusher.at = "publish" /\ pusher'.at = "idle"
    BY <1>5 DEF Accept, PushPublish
  <2>2. Pending' = Append(Pending, pusher.cmd) /\ pusher.cmd \in Elements
    BY <1>5, PublishAppends, PathAssumption DEF Accept
  <2>3. Pending \in Seq(Elements)
    BY DEF LastWordInv
  <2>4. ASSUME ~(ready \/ left), NEW i \in DOMAIN Pending' PROVE ~IsWfsSwitch(Pending'[i])
    <3>1. \A j \in DOMAIN Pending : ~IsWfsSwitch(Pending[j])
      BY <2>4 DEF WfsTrue
    <3>2. ~IsWfsSwitch(pusher.cmd)
      BY <2>1, <2>4 DEF WfsTrue
    <3>3. Pending'[i] = pusher.cmd \/ (i \in DOMAIN Pending /\ Pending'[i] = Pending[i])
      BY <2>2, <2>3, <2>4
    <3> QED BY <3>1, <3>2, <3>3
  <2> QED BY <2>1, <2>4 DEF WfsTrue
<1>6. CASE DrainApply
  <2>1. /\ UNCHANGED <<ready, left, pusher>> /\ PopRelease
        /\ mix' = Apply(mix, popper.out)
    BY <1>6 DEF DrainApply, PopRelease
  <2>2. Pending = <<popper.out>> \o Pending' /\ Pending' \in Seq(Elements)
        /\ popper.out \in Elements
    BY <2>1, ReleaseDrops, TakenIsCommand
  <2>3. CASE \A i \in DOMAIN Pending : ~IsWfsSwitch(Pending[i])
    <3>1. Pending[1] = popper.out /\ 1 \in DOMAIN Pending
          /\ \A i \in DOMAIN Pending' : i + 1 \in DOMAIN Pending /\ Pending'[i] = Pending[i + 1]
      BY <2>2
    <3>2. ~IsWfsSwitch(popper.out) /\ \A i \in DOMAIN Pending' : ~IsWfsSwitch(Pending'[i])
      BY <2>3, <3>1
    <3>3. DeskTrue(mix)
      BY DEF LastWordInv
    <3> QED BY <2>1, <2>2, <3>2, <3>3, NoSwitchNoRoute DEF WfsTrue
  <2>4. CASE ready \/ left
    BY <2>1, <2>4 DEF WfsTrue
  <2> QED BY <2>3, <2>4 DEF WfsTrue
<1>7. CASE DrainCheck \/ DrainRead \/ See
  <2>1. UNCHANGED <<mix, ready, left, pusher>>
    BY <1>7 DEF DrainCheck, DrainRead, See, PopCheck, PopRead, SeeTail, SeeHead, rig
  <2>2. ~PushPublish /\ ~PopRelease
    BY <1>7 DEF DrainCheck, DrainRead, See, PopCheck, PopRead, SeeTail, SeeHead,
                PushPublish, PopRelease, FifoInv, TypeOK
  <2>3. Pending' = Pending
    BY <1>0, <2>2, PendingStays
  <2> QED BY <2>1, <2>3 DEF WfsTrue
<1>8. CASE ReceiveOther \/ EndBlock \/ Build \/ Publish \/ StopDevice \/ Release \/ UNCHANGED pathVars
  <2>1. UNCHANGED <<mix, ready, left>> /\ UNCHANGED vars
    BY <1>8 DEF ReceiveOther, EndBlock, Build, Publish, StopDevice, Release, pathVars, rig
  <2> QED BY <2>1 DEF WfsTrue, vars, Pending, Stored, Span, Popped
<1> QED BY <1>1, <1>2, <1>3, <1>4, <1>5, <1>6, <1>7, <1>8 DEF PathNext

\* Every block renders with what another thread has finished: its delay lines,
\* unless the switch was left in the ring by a stop, and matrices of one build.
THEOREM BlockAlwaysRendersWhole ==
    ASSUME Cadence
    PROVE  PathSpec => []BlockRendersWhole
<1>1. ASSUME LastWordInv, WfsTrue, RigTrue PROVE BlockRendersWhole
  <2>1. Handed(mix)["WFS"] # {} => RoutedToWfs(mix)
    BY DEF Handed, RoutedToWfs, Renderers
  <2>2. ready \/ left \/ ~RoutedToWfs(mix)
    BY <1>1, RoutedIs DEF LastWordInv, WfsTrue
  <2> QED BY <1>1, <2>1, <2>2 DEF RigTrue, BlockRendersWhole
<1>2. ASSUME Cadence, FifoInv, LastWordInv, WfsTrue, RigTrue, [PathNext]_pathVars
      PROVE  LastWordInv' /\ WfsTrue' /\ RigTrue'
  BY <1>2, LastWordStep, WfsStep, RigStep
<1> QED BY <1>1, <1>2, FifoAlways, LastWordInit, WfsInit, RigInit, PTL DEF PathSpec

-------------------------------------------------------------------------------
(* Packets: what is read of the arguments that were written                *)

LEMMA IntervalSize ==
    ASSUME NEW lo \in Nat, NEW hi \in Nat, lo <= hi + 1
    PROVE  Cardinality(lo .. hi) = hi - lo + 1
<1>1. lo \in Int /\ hi \in Int
  OBVIOUS
<1>2. Cardinality(lo .. hi) = IF lo > hi THEN 0 ELSE hi - lo + 1
  BY <1>1, FS_Interval
<1>3. CASE lo > hi
  <2>1. hi - lo + 1 = 0
    BY <1>3
  <2> QED BY <1>2, <1>3, <2>1
<1>4. CASE ~(lo > hi)
  BY <1>2, <1>4
<1> QED BY <1>3, <1>4

\* Values whose tags stand side by side are taken in their order.
LEMMA TakenInterval ==
    ASSUME NEW pkt, NEW kinds, NEW lo \in Nat, NEW hi \in Nat, 1 <= lo, lo <= hi + 1, hi < lo + 8,
           {k \in DOMAIN pkt.tags : pkt.tags[k] \in kinds} = lo .. hi
    PROVE  /\ DOMAIN Taken(pkt, kinds) = 1 .. hi - lo + 1
           /\ \A k \in 1 .. hi - lo + 1 : Taken(pkt, kinds)[k] = pkt.vals[lo + k - 1]
<1> DEFINE at == {k \in DOMAIN pkt.tags : pkt.tags[k] \in kinds}
           Place(n) == CHOOSE k \in at : Cardinality({j \in at : j <= k}) = n
<1>1. at = lo .. hi /\ Cardinality(at) = hi - lo + 1
  <2>1. Cardinality(lo .. hi) = hi - lo + 1
    BY IntervalSize
  <2> QED BY <2>1
<1>2. ASSUME NEW k \in lo .. hi
      PROVE  Cardinality({j \in at : j <= k}) = k - lo + 1
  <2>1. {j \in at : j <= k} = lo .. k
    BY <1>1
  <2>2. Cardinality(lo .. k) = k - lo + 1
    BY IntervalSize
  <2> QED BY <2>1, <2>2
<1>3. Taken(pkt, kinds) = [n \in 1 .. Least(Cardinality(at), MaxArgs) |-> pkt.vals[Place(n)]]
  BY DEF Taken
<1>4. Least(Cardinality(at), MaxArgs) = hi - lo + 1
  BY <1>1 DEF Least, MaxArgs
<1>5. ASSUME NEW n \in 1 .. hi - lo + 1
      PROVE  Place(n) = lo + n - 1
  <2> HIDE DEF at
  <2>1. lo + n - 1 \in at /\ Cardinality({j \in at : j <= lo + n - 1}) = n
    <3>1. lo + n - 1 \in lo .. hi /\ (lo + n - 1) - lo + 1 = n
      OBVIOUS
    <3> QED BY <1>1, <1>2, <3>1
  <2>2. \A k \in at : Cardinality({j \in at : j <= k}) = n => k = lo + n - 1
    BY <1>1, <1>2
  <2> QED BY <2>1, <2>2
<1> HIDE DEF at, Place
<1> QED BY <1>3, <1>4, <1>5

\* Arguments of which the ints come first, followed by others of one kind.
Kinds == {"f", "t", "s"}

ArgumentsOf(args, len, m, q) ==
    /\ len \in 0 .. 8 /\ m \in 0 .. len /\ q \in Kinds
    /\ DOMAIN args = 1 .. len
    /\ \A k \in 1 .. len : args[k][1] = IF k <= m THEN "i" ELSE q

\* A list holds the values of the arguments after the first m.
Holds(list, args, len, m) ==
    /\ DOMAIN list = 1 .. len - m
    /\ \A k \in 1 .. len - m : list[k] = args[m + k][2]

LEMMA ArgumentsTaken ==
    ASSUME NEW verb, NEW n, NEW args, NEW len, NEW m, NEW q, ArgumentsOf(args, len, m, q),
           NEW pkt, pkt = Packet(verb, n, args)
    PROVE  /\ pkt.verb = verb /\ pkt.n = n /\ Parses(pkt)
           /\ OscArgs(pkt).tags = pkt.tags
           /\ DOMAIN pkt.tags = 1 .. len /\ \A k \in 1 .. len : pkt.tags[k] = args[k][1]
           /\ Holds(OscArgs(pkt).ints, args, m, 0)
           /\ Holds(OscArgs(pkt).floats, args, IF q = "f" THEN len ELSE m, m)
           /\ Holds(OscArgs(pkt).u64s, args, IF q = "t" THEN len ELSE m, m)
           /\ Holds(OscArgs(pkt).strings, args, IF q = "s" THEN len ELSE m, m)
           /\ Holds(OscArgs(pkt).doubles, args, m, m)
<1>1. /\ pkt.verb = verb /\ pkt.n = n /\ pkt.whole = TRUE
      /\ pkt.tags = [k \in DOMAIN args |-> args[k][1]]
      /\ pkt.vals = [k \in DOMAIN args |-> args[k][2]]
  BY DEF Packet
<1>2. /\ len \in 0 .. 8 /\ m \in 0 .. len /\ q \in Kinds /\ DOMAIN args = 1 .. len
      /\ DOMAIN pkt.tags = 1 .. len
      /\ \A k \in 1 .. len : pkt.tags[k] = args[k][1] /\ pkt.vals[k] = args[k][2]
      /\ \A k \in 1 .. len : pkt.tags[k] = IF k <= m THEN "i" ELSE q
  BY <1>1 DEF ArgumentsOf
<1>3. Parses(pkt)
  BY <1>1, <1>2 DEF Parses, Kinds
<1>4. /\ OscArgs(pkt).tags = pkt.tags /\ OscArgs(pkt).ints = Taken(pkt, {"i"})
      /\ OscArgs(pkt).floats = Taken(pkt, {"f"}) /\ OscArgs(pkt).u64s = Taken(pkt, {"h", "t"})
      /\ OscArgs(pkt).strings = Taken(pkt, {"s"}) /\ OscArgs(pkt).doubles = Taken(pkt, {"d"})
  BY DEF OscArgs
<1>5. Holds(Taken(pkt, {"i"}), args, m, 0)
  <2>1. {k \in DOMAIN pkt.tags : pkt.tags[k] \in {"i"}} = 1 .. m
    BY <1>2 DEF Kinds
  <2>2. /\ DOMAIN Taken(pkt, {"i"}) = 1 .. m - 1 + 1
        /\ \A k \in 1 .. m - 1 + 1 : Taken(pkt, {"i"})[k] = pkt.vals[1 + k - 1]
    <3>1. 1 \in Nat /\ m \in Nat /\ 1 <= 1 /\ 1 <= m + 1 /\ m < 1 + 8
      BY <1>2
    <3>2. ASSUME NEW S PROVE {k \in DOMAIN pkt.tags : pkt.tags[k] \in S} = 1 .. m
                      => /\ DOMAIN Taken(pkt, S) = 1 .. m - 1 + 1
                         /\ \A k \in 1 .. m - 1 + 1 : Taken(pkt, S)[k] = pkt.vals[1 + k - 1]
      BY <3>1, TakenInterval
    <3> QED BY <2>1, <3>2
  <2> QED BY <1>2, <2>2 DEF Holds
<1>6. ASSUME NEW kinds, "i" \notin kinds
      PROVE  Holds(Taken(pkt, kinds), args, IF q \in kinds THEN len ELSE m, m)
  <2> DEFINE top == IF q \in kinds THEN len ELSE m
  <2>1. {k \in DOMAIN pkt.tags : pkt.tags[k] \in kinds} = m + 1 .. top
    BY <1>2, <1>6
  <2>2. /\ top \in Nat /\ m + 1 \in Nat /\ 1 <= m + 1 /\ m + 1 <= top + 1
        /\ top < m + 1 + 8 /\ top <= len
    BY <1>2
  <2> HIDE DEF top
  <2>3. /\ DOMAIN Taken(pkt, kinds) = 1 .. top - (m + 1) + 1
        /\ \A k \in 1 .. top - (m + 1) + 1 : Taken(pkt, kinds)[k] = pkt.vals[(m + 1) + k - 1]
    BY <2>1, <2>2, TakenInterval
  <2>4. Holds(Taken(pkt, kinds), args, top, m)
    BY <1>2, <2>2, <2>3 DEF Holds
  <2> QED BY <2>4 DEF top
<1>7. /\ Holds(Taken(pkt, {"f"}), args, IF q = "f" THEN len ELSE m, m)
      /\ Holds(Taken(pkt, {"s"}), args, IF q = "s" THEN len ELSE m, m)
  BY <1>6
<1>8. Holds(Taken(pkt, {"h", "t"}), args, IF q = "t" THEN len ELSE m, m)
  <2>1. q \in {"h", "t"} <=> q = "t"
    BY <1>2 DEF Kinds
  <2> QED BY <1>6, <2>1
<1>9. Holds(Taken(pkt, {"d"}), args, m, m)
  <2>1. q \notin {"d"}
    BY <1>2 DEF Kinds
  <2> QED BY <1>6, <2>1
<1> QED BY <1>1, <1>2, <1>3, <1>4, <1>5, <1>7, <1>8, <1>9

-----------------------------------------------------------------------------
(* The legacy dialect                                                       *)

\* What the getters make of the arguments of a packet.
Reads(a, args, len, m, q) ==
    /\ \A k \in 1 .. 6 : GetInt(a, k) = IF k <= m THEN args[k][2] ELSE 0
    /\ q = "f" => \A k \in 1 .. 6 : GetFloat(a, k) = IF m + k <= len THEN args[m + k][2] ELSE 0
    /\ q = "s" => \A k \in 1 .. 6 :
                     GetString(a, k) = IF m + k <= len THEN args[m + k][2] ELSE NoText
    /\ q = "s" /\ m < len => a.strings # <<>> /\ a.strings[1] = args[m + 1][2]
    /\ Nth(a.doubles, 1, 0) = 0
    /\ q = "t" /\ m < len => /\ a.u64s # <<>> /\ a.u64s[1] = args[m + 1][2]
                             /\ Nth(a.u64s, 1, 0) = args[m + 1][2]

\* The sequence numbers in front come back as they were, and the arguments
\* behind them are found in their places.
LEMMA PrefixedReads ==
    ASSUME NEW c, NEW verb, verb \notin AdmVerbs \cup {"none"}, NEW n, NEW R, NEW args \in Seq(R),
           NEW len, NEW m, NEW q, ArgumentsOf(args, len, m, q), len <= 6,
           NEW pkt, pkt = Prefixed(c, verb, n, args), NEW a, a = OscArgs(pkt)
    PROVE  /\ pkt # NotEncodable /\ pkt.verb = verb /\ pkt.n = n
           /\ Reads(a, args, len, m, q)
           /\ Decode(pkt) = [tag |-> BuildCommand(pkt, a).tag, seq |-> c.seq, id |-> c.id,
                             p |-> BuildCommand(pkt, a).p]
<1> DEFINE numbers == <<IntArg(c.seq), IntArg(c.id)>>
           all == numbers \o args
<1>1. /\ len \in 0 .. 6 /\ m \in 0 .. len /\ q \in Kinds
      /\ DOMAIN args = 1 .. len /\ Len(args) = len
      /\ \A k \in 1 .. len : args[k][1] = IF k <= m THEN "i" ELSE q
  BY DEF ArgumentsOf
<1>2. /\ DOMAIN all = 1 .. len + 2 /\ all[1] = IntArg(c.seq) /\ all[2] = IntArg(c.id)
      /\ \A k \in 1 .. len : all[k + 2] = args[k]
  <2> DEFINE T == R \cup {IntArg(c.seq), IntArg(c.id)}
  <2>1. /\ numbers \in Seq(T) /\ args \in Seq(T) /\ Len(numbers) = 2
        /\ numbers[1] = IntArg(c.seq) /\ numbers[2] = IntArg(c.id)
    OBVIOUS
  <2> HIDE DEF numbers, T
  <2>2. /\ Len(all) = 2 + len /\ all \in Seq(T)
        /\ \A i \in 1 .. 2 + len : all[i] = IF i <= 2 THEN numbers[i] ELSE args[i - 2]
    <3>1. /\ Len(numbers \o args) = Len(numbers) + Len(args) /\ numbers \o args \in Seq(T)
          /\ \A i \in 1 .. Len(numbers) + Len(args) :
                (numbers \o args)[i] = IF i <= Len(numbers) THEN numbers[i] ELSE args[i - Len(numbers)]
      BY <2>1, ConcatProperties
    <3> QED BY <1>1, <2>1, <3>1
  <2>3. \A k \in 1 .. len : all[k + 2] = args[k]
    <3> SUFFICES ASSUME NEW k \in 1 .. len PROVE all[k + 2] = args[k]
      OBVIOUS
    <3>1. k + 2 \in 1 .. 2 + len /\ ~(k + 2 <= 2) /\ (k + 2) - 2 = k
      BY <1>1
    <3> QED BY <2>2, <3>1
  <2> QED BY <1>1, <2>1, <2>2, <2>3
<1>3. pkt = Packet(verb, n, all)
  BY DEF Prefixed
<1> HIDE DEF all, numbers
<1>4. ArgumentsOf(all, len + 2, m + 2, q)
  <2>1. \A k \in 1 .. len + 2 : all[k][1] = IF k <= m + 2 THEN "i" ELSE q
    <3> SUFFICES ASSUME NEW k \in 1 .. len + 2 PROVE all[k][1] = IF k <= m + 2 THEN "i" ELSE q
      OBVIOUS
    <3>1. CASE k \in {1, 2}
      BY <1>1, <1>2, <3>1 DEF IntArg
    <3>2. CASE k \notin {1, 2}
      <4>1. k - 2 \in 1 .. len /\ k = (k - 2) + 2 /\ (k - 2 <= m <=> k <= m + 2)
        BY <1>1, <3>2
      <4> QED BY <1>1, <1>2, <4>1
    <3> QED BY <3>1, <3>2
  <2> QED BY <1>1, <1>2, <2>1 DEF ArgumentsOf
<1>5. /\ pkt.verb = verb /\ pkt.n = n /\ Parses(pkt) /\ a.tags = pkt.tags
      /\ DOMAIN pkt.tags = 1 .. len + 2 /\ \A k \in 1 .. len + 2 : pkt.tags[k] = all[k][1]
      /\ Holds(a.ints, all, m + 2, 0)
      /\ Holds(a.floats, all, IF q = "f" THEN len + 2 ELSE m + 2, m + 2)
      /\ Holds(a.u64s, all, IF q = "t" THEN len + 2 ELSE m + 2, m + 2)
      /\ Holds(a.strings, all, IF q = "s" THEN len + 2 ELSE m + 2, m + 2)
      /\ Holds(a.doubles, all, m + 2, m + 2)
  BY <1>3, <1>4, ArgumentsTaken
<1>6. Prefix(a) = 2
  BY <1>1, <1>2, <1>5 DEF Prefix, Nth, IntArg
<1>7. /\ DOMAIN a.ints = 1 .. m + 2 /\ a.ints[1] = c.seq /\ a.ints[2] = c.id
      /\ \A k \in 1 .. m : a.ints[k + 2] = args[k][2]
  <2>1. DOMAIN a.ints = 1 .. m + 2 /\ \A k \in 1 .. m + 2 : a.ints[k] = all[k][2]
    BY <1>1, <1>5 DEF Holds
  <2>2. ASSUME NEW k \in 1 .. m PROVE a.ints[k + 2] = args[k][2]
    <3>1. k \in 1 .. len /\ k + 2 \in 1 .. m + 2
      BY <1>1
    <3>2. a.ints[k + 2] = all[k + 2][2] /\ all[k + 2] = args[k]
      BY <1>2, <2>1, <3>1
    <3> QED BY <3>2
  <2>3. 1 \in 1 .. m + 2 /\ 2 \in 1 .. m + 2
    BY <1>1
  <2>4. a.ints[1] = all[1][2] /\ a.ints[2] = all[2][2]
    BY <2>1, <2>3
  <2>5. a.ints[1] = c.seq /\ a.ints[2] = c.id
    BY <1>2, <2>4 DEF IntArg
  <2> QED BY <2>1, <2>2, <2>5
<1>8. \A k \in 1 .. 6 : GetInt(a, k) = IF k <= m THEN args[k][2] ELSE 0
  BY <1>1, <1>6, <1>7 DEF GetInt, Nth
<1>9. ASSUME NEW list, Holds(list, all, len + 2, m + 2)
      PROVE  /\ DOMAIN list = 1 .. len - m
             /\ \A k \in 1 .. len - m : list[k] = args[m + k][2]
  <2>1. (len + 2) - (m + 2) = len - m
    BY <1>1
  <2>2. ASSUME NEW k \in 1 .. len - m PROVE list[k] = args[m + k][2]
    <3>1. m + k \in 1 .. len /\ (m + 2) + k = (m + k) + 2
      BY <1>1
    <3> QED BY <1>2, <1>9, <2>1, <3>1 DEF Holds
  <2> QED BY <1>9, <2>1, <2>2 DEF Holds
<1>10. q = "f" => \A k \in 1 .. 6 : GetFloat(a, k) = IF m + k <= len THEN args[m + k][2] ELSE 0
  <2> SUFFICES ASSUME q = "f", NEW k \in 1 .. 6
               PROVE  GetFloat(a, k) = IF m + k <= len THEN args[m + k][2] ELSE 0
    OBVIOUS
  <2>1. /\ DOMAIN a.floats = 1 .. len - m
        /\ \A j \in 1 .. len - m : a.floats[j] = args[m + j][2]
    BY <1>5, <1>9
  <2>2. k \in DOMAIN a.floats <=> m + k <= len
    BY <1>1, <2>1
  <2> QED BY <2>1, <2>2 DEF GetFloat, Nth
<1>11. q = "s" =>
          /\ \A k \in 1 .. 6 : GetString(a, k) = IF m + k <= len THEN args[m + k][2] ELSE NoText
          /\ m < len => a.strings # <<>> /\ a.strings[1] = args[m + 1][2]
  <2> SUFFICES ASSUME q = "s"
               PROVE  /\ \A k \in 1 .. 6 : GetString(a, k) =
                                             IF m + k <= len THEN args[m + k][2] ELSE NoText
                      /\ m < len => a.strings # <<>> /\ a.strings[1] = args[m + 1][2]
    OBVIOUS
  <2>1. /\ DOMAIN a.strings = 1 .. len - m
        /\ \A j \in 1 .. len - m : a.strings[j] = args[m + j][2]
    BY <1>5, <1>9
  <2>2. ASSUME NEW k \in 1 .. 6
        PROVE  GetString(a, k) = IF m + k <= len THEN args[m + k][2] ELSE NoText
    <3>1. k \in DOMAIN a.strings <=> m + k <= len
      BY <1>1, <2>1
    <3> QED BY <2>1, <3>1 DEF GetString, Nth
  <2>3. m < len => 1 \in 1 .. len - m
    BY <1>1
  <2>4. DOMAIN <<>> = {}
    OBVIOUS
  <2> QED BY <2>1, <2>2, <2>3, <2>4
<1>12. q = "t" /\ m < len => /\ a.u64s # <<>> /\ a.u64s[1] = args[m + 1][2]
                             /\ Nth(a.u64s, 1, 0) = args[m + 1][2]
  <2> SUFFICES ASSUME q = "t", m < len
               PROVE  /\ a.u64s # <<>> /\ a.u64s[1] = args[m + 1][2]
                      /\ Nth(a.u64s, 1, 0) = args[m + 1][2]
    OBVIOUS
  <2>1. /\ DOMAIN a.u64s = 1 .. len - m
        /\ \A j \in 1 .. len - m : a.u64s[j] = args[m + j][2]
    BY <1>5, <1>9
  <2>3. 1 \in 1 .. len - m
    BY <1>1
  <2>4. DOMAIN <<>> = {}
    OBVIOUS
  <2> QED BY <2>1, <2>3, <2>4 DEF Nth
<1>13. Reads(a, args, len, m, q)
  <2>1. Nth(a.doubles, 1, 0) = 0
    BY <1>1, <1>5 DEF Holds, Nth
  <2> QED BY <1>8, <1>10, <1>11, <1>12, <2>1 DEF Reads
<1>14. Decode(pkt) = [tag |-> BuildCommand(pkt, a).tag, seq |-> c.seq, id |-> c.id,
                      p |-> BuildCommand(pkt, a).p]
  <2>1. Prefix(a) = 2 /\ pkt.verb \notin AdmVerbs /\ Parses(pkt)
    BY <1>5, <1>6
  <2> QED BY <1>7, <2>1 DEF Decode
<1>15. pkt # NotEncodable
  BY <1>5 DEF NotEncodable
<1> QED BY <1>5, <1>13, <1>14, <1>15

\* A command with any values in its fields.
Command(tag, payloads) == [tag : {tag}, seq : Int, id : Int, p : payloads]

\* Whoever finds these arguments takes them for the payload p.
StandsFor(c, verb, n, args, len, m, q, p) ==
    \A pkt, a : pkt.verb = verb /\ pkt.n = n /\ Reads(a, args, len, m, q)
                   => BuildCommand(pkt, a) = Means(c.tag, p)

\* It is read as it was if the packet stands for its tag and its payload.
LEMMA ComesBack ==
    ASSUME NEW c, NEW verb, verb \notin AdmVerbs \cup {"none"}, NEW n, NEW R, NEW args \in Seq(R),
           NEW len, NEW m, NEW q, ArgumentsOf(args, len, m, q), len <= 6,
           Encode(c, "Legacy") = Prefixed(c, verb, n, args), NEW p,
           StandsFor(c, verb, n, args, len, m, q, p)
    PROVE  Dispatched(c, "Legacy") = [tag |-> c.tag, seq |-> c.seq, id |-> c.id, p |-> p]
<1> DEFINE pkt == Prefixed(c, verb, n, args)
           a == OscArgs(pkt)
<1>1. /\ pkt # NotEncodable /\ pkt.verb = verb /\ pkt.n = n
      /\ Reads(a, args, len, m, q)
      /\ Decode(pkt) = [tag |-> BuildCommand(pkt, a).tag, seq |-> c.seq, id |-> c.id,
                        p |-> BuildCommand(pkt, a).p]
  BY PrefixedReads
<1>2. BuildCommand(pkt, a) = Means(c.tag, p)
  BY <1>1 DEF StandsFor
<1>3. Dispatched(c, "Legacy") = Decode(pkt)
  BY <1>1 DEF Dispatched
<1> HIDE DEF pkt, a
<1> QED BY <1>1, <1>2, <1>3 DEF Means

\* A packet with one or two ints, with floats, a time or texts; and what all
\* packets of such a form stand for.
HasInts(pkt, a, verb, x, y) ==
    /\ pkt.verb = verb /\ GetInt(a, 1) = x /\ GetInt(a, 2) = y
    /\ GetString(a, 1) = NoText /\ Nth(a.doubles, 1, 0) = 0

HasFloats(pkt, a, verb, n, i, j, x, y, z) ==
    /\ pkt.verb = verb /\ pkt.n = n /\ GetInt(a, 1) = i /\ GetInt(a, 2) = j
    /\ GetFloat(a, 1) = x /\ GetFloat(a, 2) = y /\ GetFloat(a, 3) = z

HasTime(pkt, a, verb, x) ==
    pkt.verb = verb /\ a.u64s # <<>> /\ a.u64s[1] = x /\ Nth(a.u64s, 1, 0) = x

HasTexts(pkt, a, verb, n, x, y) ==
    /\ pkt.verb = verb /\ pkt.n = n /\ a.strings # <<>> /\ a.strings[1] = x
    /\ GetString(a, 1) = x /\ GetString(a, 2) = y

IntsMean(verb, x, y, m) ==
    \A pkt, a : HasInts(pkt, a, verb, x, y) => BuildCommand(pkt, a) = m

FloatsMean(verb, n, i, j, x, y, z, m) ==
    \A pkt, a : HasFloats(pkt, a, verb, n, i, j, x, y, z) => BuildCommand(pkt, a) = m

TimeMeans(verb, x, m) ==
    \A pkt, a : HasTime(pkt, a, verb, x) => BuildCommand(pkt, a) = m

TextsMean(verb, n, x, y, m) ==
    \A pkt, a : HasTexts(pkt, a, verb, n, x, y) => BuildCommand(pkt, a) = m

\* A command that is written in one of these forms comes back as it stands.
LEMMA Bare ==
    ASSUME NEW c, NEW verb, verb \notin AdmVerbs \cup {"none"}, NEW n, NEW p,
           Encode(c, "Legacy") = Prefixed(c, verb, n, <<>>),
           IntsMean(verb, 0, 0, Means(c.tag, p))
    PROVE  Dispatched(c, "Legacy") = [tag |-> c.tag, seq |-> c.seq, id |-> c.id, p |-> p]
<1> DEFINE args == <<>>
<1>1. args \in Seq({}) /\ ArgumentsOf(args, 0, 0, "s")
  BY DEF ArgumentsOf, Kinds
<1>2. \A a : Reads(a, args, 0, 0, "s") =>
          /\ GetInt(a, 1) = 0 /\ GetInt(a, 2) = 0
          /\ GetString(a, 1) = NoText /\ Nth(a.doubles, 1, 0) = 0
  BY DEF Reads
<1> HIDE DEF args
<1>3. Encode(c, "Legacy") = Prefixed(c, verb, n, args)
  BY DEF args
<1>4. StandsFor(c, verb, n, args, 0, 0, "s", p)
  BY <1>2 DEF StandsFor, IntsMean, HasInts
<1>5. 0 <= 6
  OBVIOUS
<1> QED BY <1>1, <1>3, <1>4, <1>5, ComesBack

LEMMA OneInt ==
    ASSUME NEW c, NEW verb, verb \notin AdmVerbs \cup {"none"}, NEW n, NEW x, NEW p,
           Encode(c, "Legacy") = Prefixed(c, verb, n, <<IntArg(x)>>),
           IntsMean(verb, x, 0, Means(c.tag, p))
    PROVE  Dispatched(c, "Legacy") = [tag |-> c.tag, seq |-> c.seq, id |-> c.id, p |-> p]
<1> DEFINE args == <<IntArg(x)>>
<1>1. args \in Seq({IntArg(x)}) /\ ArgumentsOf(args, 1, 1, "s")
  BY DEF ArgumentsOf, Kinds, IntArg
<1>2. \A a : Reads(a, args, 1, 1, "s") =>
          /\ GetInt(a, 1) = x /\ GetInt(a, 2) = 0
          /\ GetString(a, 1) = NoText /\ Nth(a.doubles, 1, 0) = 0
  BY DEF Reads, IntArg
<1> HIDE DEF args
<1>3. Encode(c, "Legacy") = Prefixed(c, verb, n, args)
  BY DEF args
<1>4. StandsFor(c, verb, n, args, 1, 1, "s", p)
  BY <1>2 DEF StandsFor, IntsMean, HasInts
<1>5. 1 <= 6
  OBVIOUS
<1> QED BY <1>1, <1>3, <1>4, <1>5, ComesBack

LEMMA TwoInts ==
    ASSUME NEW c, NEW verb, verb \notin AdmVerbs \cup {"none"}, NEW n, NEW x, NEW y, NEW p,
           Encode(c, "Legacy") = Prefixed(c, verb, n, <<IntArg(x), IntArg(y)>>),
           IntsMean(verb, x, y, Means(c.tag, p))
    PROVE  Dispatched(c, "Legacy") = [tag |-> c.tag, seq |-> c.seq, id |-> c.id, p |-> p]
<1> DEFINE args == <<IntArg(x), IntArg(y)>>
<1>1. args \in Seq({IntArg(x), IntArg(y)}) /\ ArgumentsOf(args, 2, 2, "s")
  BY DEF ArgumentsOf, Kinds, IntArg
<1>2. \A a : Reads(a, args, 2, 2, "s") =>
          /\ GetInt(a, 1) = x /\ GetInt(a, 2) = y
          /\ GetString(a, 1) = NoText /\ Nth(a.doubles, 1, 0) = 0
  BY DEF Reads, IntArg
<1> HIDE DEF args
<1>3. Encode(c, "Legacy") = Prefixed(c, verb, n, args)
  BY DEF args
<1>4. StandsFor(c, verb, n, args, 2, 2, "s", p)
  BY <1>2 DEF StandsFor, IntsMean, HasInts
<1>5. 2 <= 6
  OBVIOUS
<1> QED BY <1>1, <1>3, <1>4, <1>5, ComesBack

LEMMA OneFloat ==
    ASSUME NEW c, NEW verb, verb \notin AdmVerbs \cup {"none"}, NEW n, NEW x, NEW p,
           Encode(c, "Legacy") = Prefixed(c, verb, n, <<FloatArg(x)>>),
           FloatsMean(verb, n, 0, 0, x, 0, 0, Means(c.tag, p))
    PROVE  Dispatched(c, "Legacy") = [tag |-> c.tag, seq |-> c.seq, id |-> c.id, p |-> p]
<1> DEFINE args == <<FloatArg(x)>>
<1>1. args \in Seq({FloatArg(x)}) /\ ArgumentsOf(args, 1, 0, "f")
  BY DEF ArgumentsOf, Kinds, FloatArg
<1>2. \A a : Reads(a, args, 1, 0, "f") =>
          /\ GetInt(a, 1) = 0 /\ GetInt(a, 2) = 0
          /\ GetFloat(a, 1) = x /\ GetFloat(a, 2) = 0 /\ GetFloat(a, 3) = 0
  BY DEF Reads, FloatArg
<1> HIDE DEF args
<1>3. Encode(c, "Legacy") = Prefixed(c, verb, n, args)
  BY DEF args
<1>4. StandsFor(c, verb, n, args, 1, 0, "f", p)
  BY <1>2 DEF StandsFor, FloatsMean, HasFloats
<1>5. 1 <= 6
  OBVIOUS
<1> QED BY <1>1, <1>3, <1>4, <1>5, ComesBack

LEMMA IntAndFloat ==
    ASSUME NEW c, NEW verb, verb \notin AdmVerbs \cup {"none"}, NEW n, NEW i, NEW x, NEW p,
           Encode(c, "Legacy") = Prefixed(c, verb, n, <<IntArg(i), FloatArg(x)>>),
           FloatsMean(verb, n, i, 0, x, 0, 0, Means(c.tag, p))
    PROVE  Dispatched(c, "Legacy") = [tag |-> c.tag, seq |-> c.seq, id |-> c.id, p |-> p]
<1> DEFINE args == <<IntArg(i), FloatArg(x)>>
<1>1. args \in Seq({IntArg(i), FloatArg(x)}) /\ ArgumentsOf(args, 2, 1, "f")
  BY DEF ArgumentsOf, Kinds, IntArg, FloatArg
<1>2. \A a : Reads(a, args, 2, 1, "f") =>
          /\ GetInt(a, 1) = i /\ GetInt(a, 2) = 0
          /\ GetFloat(a, 1) = x /\ GetFloat(a, 2) = 0 /\ GetFloat(a, 3) = 0
  BY DEF Reads, IntArg, FloatArg
<1> HIDE DEF args
<1>3. Encode(c, "Legacy") = Prefixed(c, verb, n, args)
  BY DEF args
<1>4. StandsFor(c, verb, n, args, 2, 1, "f", p)
  BY <1>2 DEF StandsFor, FloatsMean, HasFloats
<1>5. 2 <= 6
  OBVIOUS
<1> QED BY <1>1, <1>3, <1>4, <1>5, ComesBack

LEMMA IntsAndFloat ==
    ASSUME NEW c, NEW verb, verb \notin AdmVerbs \cup {"none"}, NEW n, NEW i, NEW j, NEW x, NEW p,
           Encode(c, "Legacy") = Prefixed(c, verb, n, <<IntArg(i), IntArg(j), FloatArg(x)>>),
           FloatsMean(verb, n, i, j, x, 0, 0, Means(c.tag, p))
    PROVE  Dispatched(c, "Legacy") = [tag |-> c.tag, seq |-> c.seq, id |-> c.id, p |-> p]
<1> DEFINE args == <<IntArg(i), IntArg(j), FloatArg(x)>>
<1>1. args \in Seq({IntArg(i), IntArg(j), FloatArg(x)}) /\ ArgumentsOf(args, 3, 2, "f")
  BY DEF ArgumentsOf, Kinds, IntArg, FloatArg
<1>2. \A a : Reads(a, args, 3, 2, "f") =>
          /\ GetInt(a, 1) = i /\ GetInt(a, 2) = j
          /\ GetFloat(a, 1) = x /\ GetFloat(a, 2) = 0 /\ GetFloat(a, 3) = 0
  BY DEF Reads, IntArg, FloatArg
<1> HIDE DEF args
<1>3. Encode(c, "Legacy") = Prefixed(c, verb, n, args)
  BY DEF args
<1>4. StandsFor(c, verb, n, args, 3, 2, "f", p)
  BY <1>2 DEF StandsFor, FloatsMean, HasFloats
<1>5. 3 <= 6
  OBVIOUS
<1> QED BY <1>1, <1>3, <1>4, <1>5, ComesBack

LEMMA IntAndFloats ==
    ASSUME NEW c, NEW verb, verb \notin AdmVerbs \cup {"none"},
           NEW n, NEW i, NEW x, NEW y, NEW z, NEW p,
           Encode(c, "Legacy") =
               Prefixed(c, verb, n, <<IntArg(i), FloatArg(x), FloatArg(y), FloatArg(z)>>),
           FloatsMean(verb, n, i, 0, x, y, z, Means(c.tag, p))
    PROVE  Dispatched(c, "Legacy") = [tag |-> c.tag, seq |-> c.seq, id |-> c.id, p |-> p]
<1> DEFINE args == <<IntArg(i), FloatArg(x), FloatArg(y), FloatArg(z)>>
<1>1. /\ args \in Seq({IntArg(i), FloatArg(x), FloatArg(y), FloatArg(z)})
      /\ ArgumentsOf(args, 4, 1, "f")
  BY DEF ArgumentsOf, Kinds, IntArg, FloatArg
<1>2. \A a : Reads(a, args, 4, 1, "f") =>
          /\ GetInt(a, 1) = i /\ GetInt(a, 2) = 0
          /\ GetFloat(a, 1) = x /\ GetFloat(a, 2) = y /\ GetFloat(a, 3) = z
  BY DEF Reads, IntArg, FloatArg
<1> HIDE DEF args
<1>3. Encode(c, "Legacy") = Prefixed(c, verb, n, args)
  BY DEF args
<1>4. StandsFor(c, verb, n, args, 4, 1, "f", p)
  BY <1>2 DEF StandsFor, FloatsMean, HasFloats
<1>5. 4 <= 6
  OBVIOUS
<1> QED BY <1>1, <1>3, <1>4, <1>5, ComesBack

LEMMA OneTime ==
    ASSUME NEW c, NEW verb, verb \notin AdmVerbs \cup {"none"}, NEW n, NEW x, NEW p,
           Encode(c, "Legacy") = Prefixed(c, verb, n, <<TimeArg(x)>>),
           TimeMeans(verb, x, Means(c.tag, p))
    PROVE  Dispatched(c, "Legacy") = [tag |-> c.tag, seq |-> c.seq, id |-> c.id, p |-> p]
<1> DEFINE args == <<TimeArg(x)>>
<1>1. args \in Seq({TimeArg(x)}) /\ ArgumentsOf(args, 1, 0, "t")
  BY DEF ArgumentsOf, Kinds, TimeArg
<1>2. \A a : Reads(a, args, 1, 0, "t") => a.u64s # <<>> /\ a.u64s[1] = x /\ Nth(a.u64s, 1, 0) = x
  BY DEF Reads, TimeArg
<1> HIDE DEF args
<1>3. Encode(c, "Legacy") = Prefixed(c, verb, n, args)
  BY DEF args
<1>4. StandsFor(c, verb, n, args, 1, 0, "t", p)
  BY <1>2 DEF StandsFor, TimeMeans, HasTime
<1>5. 1 <= 6
  OBVIOUS
<1> QED BY <1>1, <1>3, <1>4, <1>5, ComesBack

LEMMA OneText ==
    ASSUME NEW c, NEW verb, verb \notin AdmVerbs \cup {"none"}, NEW n, NEW x, NEW p,
           Encode(c, "Legacy") = Prefixed(c, verb, n, <<TextArg(x)>>),
           TextsMean(verb, n, x, NoText, Means(c.tag, p))
    PROVE  Dispatched(c, "Legacy") = [tag |-> c.tag, seq |-> c.seq, id |-> c.id, p |-> p]
<1> DEFINE args == <<TextArg(x)>>
<1>1. args \in Seq({TextArg(x)}) /\ ArgumentsOf(args, 1, 0, "s")
  BY DEF ArgumentsOf, Kinds, TextArg
<1>2. \A a : Reads(a, args, 1, 0, "s") =>
          /\ a.strings # <<>> /\ a.strings[1] = x
          /\ GetString(a, 1) = x /\ GetString(a, 2) = NoText
  BY DEF Reads, TextArg
<1> HIDE DEF args
<1>3. Encode(c, "Legacy") = Prefixed(c, verb, n, args)
  BY DEF args
<1>4. StandsFor(c, verb, n, args, 1, 0, "s", p)
  BY <1>2 DEF StandsFor, TextsMean, HasTexts
<1>5. 1 <= 6
  OBVIOUS
<1> QED BY <1>1, <1>3, <1>4, <1>5, ComesBack

LEMMA TwoTexts ==
    ASSUME NEW c, NEW verb, verb \notin AdmVerbs \cup {"none"}, NEW n, NEW x, NEW y, NEW p,
           Encode(c, "Legacy") = Prefixed(c, verb, n, <<TextArg(x), TextArg(y)>>),
           TextsMean(verb, n, x, y, Means(c.tag, p))
    PROVE  Dispatched(c, "Legacy") = [tag |-> c.tag, seq |-> c.seq, id |-> c.id, p |-> p]
<1> DEFINE args == <<TextArg(x), TextArg(y)>>
<1>1. args \in Seq({TextArg(x), TextArg(y)}) /\ ArgumentsOf(args, 2, 0, "s")
  BY DEF ArgumentsOf, Kinds, TextArg
<1>2. \A a : Reads(a, args, 2, 0, "s") =>
          /\ a.strings # <<>> /\ a.strings[1] = x
          /\ GetString(a, 1) = x /\ GetString(a, 2) = y
  BY DEF Reads, TextArg
<1> HIDE DEF args
<1>3. Encode(c, "Legacy") = Prefixed(c, verb, n, args)
  BY DEF args
<1>4. StandsFor(c, verb, n, args, 2, 0, "s", p)
  BY <1>2 DEF StandsFor, TextsMean, HasTexts
<1>5. 2 <= 6
  OBVIOUS
<1> QED BY <1>1, <1>3, <1>4, <1>5, ComesBack

-----------------------------------------------------------------------------
(* The commands of a program, with any values in their fields               *)

IsText(s) == s = [text |-> s.text, len |-> s.len, bad |-> s.bad] /\ s.len \in Nat /\ s.bad \in Nat
IsName(s, n) == IsText(s) /\ s.len <= n

Port == {x \in Nat : x <= 65535}
Algorithms == {"VBAP", "WFS", "DBAP", "Ambisonic"}

BareTags == {"SysReset", "SceneList", "CueNext", "CuePrev", "CueStop", "TransportStop"}

\* The fields of a command are of the types of its payload (ipc/Command.h).
WellFormed(c) ==
    /\ c = [tag |-> c.tag, seq |-> c.seq, id |-> c.id, p |-> c.p]
    /\ c.tag \in BareTags => c.p = <<>>
    /\ c.tag \in {"ObjMove", "ObjXYZ"} => c.p \in Nat \X Int \X Int \X Int
    /\ c.tag \in {"ObjGain", "ObjWidth", "NoiseGain", "OutputGain", "OutputLimit"} =>
          c.p \in Nat \X Int
    /\ c.tag \in {"ObjActive", "ObjMute", "ObjActiveAdm", "NoiseType", "HbPing"} =>
          c.p \in Nat \X BOOLEAN
    /\ c.tag = "ObjAlgo" => c.p \in Nat \X Algorithms
    /\ c.tag = "ObjDsp" => c.p \in Nat \X (0 .. 7) \X Int
    /\ c.tag = "ObjName" => c.p = <<c.p[1], c.p[2]>> /\ c.p[1] \in Nat /\ IsName(c.p[2], 31)
    /\ c.tag = "SysHandshake" =>
          c.p = <<c.p[1], c.p[2], c.p[3]>> /\ c.p[1] \in Port /\ c.p[2] \in Port
    /\ c.tag = "SysAlgoSwap" => c.p \in One(Algorithms)
    /\ c.tag = "SysAmbiOrder" => c.p \in One(1 .. 3)
    /\ c.tag = "SysAmbiDecoderType" => c.p \in One(0 .. 4)
    /\ c.tag \in {"SysLtcChase", "SysBinauralEnable", "SysBinauralResetDemote"} =>
          c.p \in One(BOOLEAN)
    /\ c.tag \in {"ReverbSelect", "SysBinauralMode"} => c.p \in One({0, 1})
    /\ c.tag \in {"SysLoadLayout", "SysBinauralSofa"} => c.p = <<c.p[1]>> /\ IsText(c.p[1])
    /\ c.tag = "SysBinauralSofaSelect" => c.p = <<c.p[1]>> /\ IsText(c.p[1]) /\ c.p[1].len > 0
    /\ c.tag = "HbPong" => c.p \in One(Nat)
    /\ c.tag \in {"SceneSave", "SceneLoad", "SceneDelete"} => c.p = <<c.p[1]>> /\ IsName(c.p[1], 63)
    /\ c.tag \in {"SceneRename", "SceneDuplicate"} =>
          c.p = <<c.p[1], c.p[2]>> /\ IsName(c.p[1], 63) /\ IsName(c.p[2], 63)
    /\ c.tag = "SceneMeta" => c.p = <<c.p[1], c.p[2]>> /\ IsName(c.p[1], 63) /\ IsText(c.p[2])
    /\ c.tag \in {"CueGo", "TransportPlay"} => c.p \in One(Int)

-----------------------------------------------------------------------------
(* Which packet a command is written as, and which address means what: no  *)
(* two families have a tag or an address in common.                        *)

LEMMA EncodeFamily ==
    ASSUME NEW c
    PROVE  /\ c.tag \in ObjectTags => Encode(c, "Legacy") = EncodeObject(c)
           /\ c.tag \in SystemTags => Encode(c, "Legacy") = EncodeSystem(c)
           /\ c.tag \in BinauralTags => Encode(c, "Legacy") = EncodeBinaural(c)
           /\ c.tag \in HeartbeatTags => Encode(c, "Legacy") = EncodeHeartbeat(c)
           /\ c.tag \in SceneTags => Encode(c, "Legacy") = EncodeScene(c)
           /\ c.tag \in TransportTags => Encode(c, "Legacy") = EncodeTransport(c)
           /\ c.tag \in ChannelTags => Encode(c, "Legacy") = EncodeChannel(c)
<1>1. CASE c.tag \in ObjectTags
  BY <1>1 DEF Encode, ObjectTags, SystemTags, BinauralTags, HeartbeatTags, SceneTags,
     TransportTags, ChannelTags
<1>2. CASE c.tag \in SystemTags
  BY <1>2 DEF Encode, ObjectTags, SystemTags, BinauralTags, HeartbeatTags, SceneTags,
     TransportTags, ChannelTags
<1>3. CASE c.tag \in BinauralTags
  BY <1>3 DEF Encode, ObjectTags, SystemTags, BinauralTags, HeartbeatTags, SceneTags,
     TransportTags, ChannelTags
<1>4. CASE c.tag \in HeartbeatTags
  BY <1>4 DEF Encode, ObjectTags, SystemTags, BinauralTags, HeartbeatTags, SceneTags,
     TransportTags, ChannelTags
<1>5. CASE c.tag \in SceneTags
  BY <1>5 DEF Encode, ObjectTags, SystemTags, BinauralTags, HeartbeatTags, SceneTags,
     TransportTags, ChannelTags
<1>6. CASE c.tag \in TransportTags
  BY <1>6 DEF Encode, ObjectTags, SystemTags, BinauralTags, HeartbeatTags, SceneTags,
     TransportTags, ChannelTags
<1>7. CASE c.tag \in ChannelTags
  BY <1>7 DEF Encode, ObjectTags, SystemTags, BinauralTags, HeartbeatTags, SceneTags,
     TransportTags, ChannelTags
<1> QED BY <1>1, <1>2, <1>3, <1>4, <1>5, <1>6, <1>7
          DEF ObjectTags, SystemTags, BinauralTags, HeartbeatTags, SceneTags, TransportTags,
              ChannelTags

LEMMA BuildFamily ==
    ASSUME NEW pkt, NEW a
    PROVE  /\ pkt.verb \in ObjectVerbs => BuildCommand(pkt, a) = BuildObject(pkt.verb, a)
           /\ pkt.verb \in SystemVerbs => BuildCommand(pkt, a) = BuildSystem(pkt.verb, a)
           /\ pkt.verb \in BinauralVerbs => BuildCommand(pkt, a) = BuildBinaural(pkt.verb, a)
           /\ pkt.verb \in HeartbeatVerbs => BuildCommand(pkt, a) = BuildHeartbeat(pkt.verb, a)
           /\ pkt.verb \in SceneVerbs => BuildCommand(pkt, a) = BuildScene(pkt.verb, a)
           /\ pkt.verb \in TransportVerbs => BuildCommand(pkt, a) = BuildTransport(pkt.verb, a)
           /\ pkt.verb \in ChannelVerbs => BuildCommand(pkt, a) = BuildChannel(pkt.verb, pkt.n, a)
           /\ pkt.verb \in AdmVerbs => BuildCommand(pkt, a) = DecodeAdm(pkt.verb, pkt.n, a)
<1>1. CASE pkt.verb \in ObjectVerbs
  BY <1>1 DEF BuildCommand, ObjectVerbs, SystemVerbs, BinauralVerbs, HeartbeatVerbs, SceneVerbs,
     TransportVerbs, ChannelVerbs, AdmVerbs
<1>2. CASE pkt.verb \in SystemVerbs
  BY <1>2 DEF BuildCommand, ObjectVerbs, SystemVerbs, BinauralVerbs, HeartbeatVerbs, SceneVerbs,
     TransportVerbs, ChannelVerbs, AdmVerbs
<1>3. CASE pkt.verb \in BinauralVerbs
  BY <1>3 DEF BuildCommand, ObjectVerbs, SystemVerbs, BinauralVerbs, HeartbeatVerbs, SceneVerbs,
     TransportVerbs, ChannelVerbs, AdmVerbs
<1>4. CASE pkt.verb \in HeartbeatVerbs
  BY <1>4 DEF BuildCommand, ObjectVerbs, SystemVerbs, BinauralVerbs, HeartbeatVerbs, SceneVerbs,
     TransportVerbs, ChannelVerbs, AdmVerbs
<1>5. CASE pkt.verb \in SceneVerbs
  BY <1>5 DEF BuildCommand, ObjectVerbs, SystemVerbs, BinauralVerbs, HeartbeatVerbs, SceneVerbs,
     TransportVerbs, ChannelVerbs, AdmVerbs
<1>6. CASE pkt.verb \in TransportVerbs
  BY <1>6 DEF BuildCommand, ObjectVerbs, SystemVerbs, BinauralVerbs, HeartbeatVerbs, SceneVerbs,
     TransportVerbs, ChannelVerbs, AdmVerbs
<1>7. CASE pkt.verb \in ChannelVerbs
  BY <1>7 DEF BuildCommand, ObjectVerbs, SystemVerbs, BinauralVerbs, HeartbeatVerbs, SceneVerbs,
     TransportVerbs, ChannelVerbs, AdmVerbs
<1>8. CASE pkt.verb \in AdmVerbs
  BY <1>8 DEF BuildCommand, ObjectVerbs, SystemVerbs, BinauralVerbs, HeartbeatVerbs, SceneVerbs,
     TransportVerbs, ChannelVerbs, AdmVerbs
<1> QED BY <1>1, <1>2, <1>3, <1>4, <1>5, <1>6, <1>7, <1>8
          DEF ObjectVerbs, SystemVerbs, BinauralVerbs, HeartbeatVerbs, SceneVerbs,
              TransportVerbs, ChannelVerbs, AdmVerbs

-----------------------------------------------------------------------------
(* Family by family: every command comes back as Carried says.             *)

LEMMA AlgorithmsNumbered ==
    \A algo \in Algorithms : AlgoNumber(algo) \in 0 .. 3 /\ AlgoFromInt(AlgoNumber(algo)) = algo
<1>1. \A algo \in Algorithms : \E v \in 0 .. 3 : AlgoFromInt(v) = algo
  <2>1. /\ AlgoFromInt(0) = "VBAP" /\ AlgoFromInt(1) = "WFS"
        /\ AlgoFromInt(2) = "DBAP" /\ AlgoFromInt(3) = "Ambisonic"
    BY DEF AlgoFromInt
  <2> QED BY <2>1 DEF Algorithms
<1> QED BY <1>1 DEF AlgoNumber

\* A text that fits is not cut.
LEMMA CutFits ==
    ASSUME NEW n \in Nat, NEW s, IsName(s, n)
    PROVE  Cut(s, n) = s
<1>1. /\ s = [text |-> s.text, len |-> s.len, bad |-> s.bad]
      /\ s.len \in Nat /\ s.len <= n
  BY DEF IsName, IsText
<1>2. Least(s.len, n) = s.len
  BY <1>1 DEF Least
<1> QED BY <1>1, <1>2 DEF Cut

LEMMA NamesFit == \A s : IsName(s, 63) => CopySceneName(s) = s
BY CutFits DEF CopySceneName

\* A port is a 16-bit number already.
LEMMA PortFits ==
    ASSUME NEW x \in Port
    PROVE  x % 65536 = x /\ (IF x > 0 /\ x <= 65535 THEN x ELSE 0) = x
<1>1. ASSUME NEW c \in Nat \ {0}, NEW y \in Nat, y < c
      PROVE  y % c = y
  <2>1. y = c * 0 + y /\ 0 \in Int /\ y \in Int /\ 0 <= y
    OBVIOUS
  <2> QED BY <1>1, <2>1, Remainder
<1>2. x \in Nat /\ x <= 65535
  BY DEF Port
<1>3. x < 65536 /\ 65536 \in Nat \ {0}
  BY <1>2
<1>4. x % 65536 = x
  BY <1>1, <1>2, <1>3
<1> QED BY <1>2, <1>4

LEMMA HandshakeMeans ==
    ASSUME NEW proto \in Port, NEW port \in Port
    PROVE  IntsMean("/sys/handshake", proto, port, Means("SysHandshake", <<proto, port, NoText>>))
<1> SUFFICES ASSUME NEW pkt, NEW a, HasInts(pkt, a, "/sys/handshake", proto, port)
             PROVE  BuildCommand(pkt, a) = Means("SysHandshake", <<proto, port, NoText>>)
  BY DEF IntsMean
<1>1. BuildCommand(pkt, a) = BuildSystem("/sys/handshake", a)
  BY BuildFamily DEF SystemVerbs, HasInts
<1>2. BuildSystem("/sys/handshake", a) = BuildHandshake(a)
  BY DEF BuildSystem
<1>3. CopySubscriberTag(NoText) = NoText
  <2>1. Least(0, 63) = 0 /\ NoText.len = 0 /\ NoText.bad = 0
    BY DEF NoText, Least
  <2>2. Cut(NoText, 63) = NoText
    BY <2>1 DEF NoText, Cut
  <2> QED BY <2>1, <2>2 DEF CopySubscriberTag
<1>4. GetInt(a, 1) = proto /\ GetInt(a, 2) = port /\ GetString(a, 1) = NoText
  BY DEF HasInts
<1>5. /\ GetInt(a, 1) % 65536 = proto
      /\ (IF GetInt(a, 2) > 0 /\ GetInt(a, 2) <= 65535 THEN GetInt(a, 2) ELSE 0) = port
  BY <1>4, PortFits
<1>6. BuildHandshake(a) = Means("SysHandshake", <<proto, port, NoText>>)
  BY <1>3, <1>4, <1>5 DEF BuildHandshake
<1> QED BY <1>1, <1>2, <1>6

\* The texts of no texts.
LEMMA NoTexts == [k \in DOMAIN <<>> |-> TextArg(<<>>[k])] = <<>>
<1> DEFINE f == [k \in DOMAIN <<>> |-> TextArg(<<>>[k])]
<1>1. DOMAIN f = 1 .. 0
  OBVIOUS
<1>2. f \in Seq({}) /\ Len(f) = 0
  BY <1>1, SeqDef
<1> QED BY <1>2, EmptySeq

LEMMA OneAndMore == \A x, y : <<x>> \o <<y>> = <<x, y>> /\ <<x>> \o <<>> = <<x>>
<1> SUFFICES ASSUME NEW x, NEW y PROVE <<x>> \o <<y>> = <<x, y>> /\ <<x>> \o <<>> = <<x>>
  OBVIOUS
<1>1. <<x>> \in Seq({x, y}) /\ <<y>> \in Seq({x, y}) /\ <<>> \in Seq({x, y})
  OBVIOUS
<1>2. <<x>> \o <<y>> = <<x, y>>
  <2> DEFINE s == <<x>> \o <<y>>
  <2>1. Len(s) = 2 /\ s \in Seq({x, y}) /\ s[1] = x /\ s[2] = y
    BY <1>1, ConcatProperties
  <2> HIDE DEF s
  <2>2. s = <<x, y>>
    BY <2>1
  <2> QED BY <2>2 DEF s
<1>3. <<x>> \o <<>> = <<x>>
  BY <1>1, ConcatEmptySeq
<1> QED BY <1>2, <1>3

\* Objects.
LEMMA ObjectCarried ==
    ASSUME NEW c, WellFormed(c), c.tag \in ObjectTags
    PROVE  Dispatched(c, "Legacy") = Carried(c, "Legacy")
<1>0. c = [tag |-> c.tag, seq |-> c.seq, id |-> c.id, p |-> c.p]
  BY DEF WellFormed
<1>1. CASE c.tag = "ObjMove"
  <2>1. c.p = <<c.p[1], c.p[2], c.p[3], c.p[4]>>
    BY <1>1 DEF WellFormed, One
  <2>2. /\ Encode(c, "Legacy") =
               Prefixed(c, "/obj/move", -1,
                        <<IntArg(c.p[1]), FloatArg(c.p[2]), FloatArg(c.p[3]), FloatArg(c.p[4])>>)
        /\ "/obj/move" \notin AdmVerbs \cup {"none"}
    BY <1>1, <2>1, EncodeFamily DEF EncodeObject, ObjectTags, AdmVerbs
  <2>3. FloatsMean("/obj/move", -1, c.p[1], 0, c.p[2], c.p[3], c.p[4], Means(c.tag, c.p))
    <3> SUFFICES ASSUME NEW pkt, NEW a,
                        HasFloats(pkt, a, "/obj/move", -1, c.p[1], 0, c.p[2], c.p[3], c.p[4])
                 PROVE  BuildCommand(pkt, a) = Means(c.tag, c.p)
      BY DEF FloatsMean
    <3>1. BuildCommand(pkt, a) = BuildObject("/obj/move", a)
      BY BuildFamily DEF ObjectVerbs, HasFloats
    <3> QED BY <1>1, <2>1, <3>1 DEF HasFloats, BuildObject
  <2>4. Dispatched(c, "Legacy") = [tag |-> c.tag, seq |-> c.seq, id |-> c.id, p |-> c.p]
    BY <2>2, <2>3, IntAndFloats
  <2> QED BY <1>0, <1>1, <2>4 DEF Carried, HasWord, LegacyLacks
<1>2. CASE c.tag = "ObjGain"
  <2>1. c.p = <<c.p[1], c.p[2]>>
    BY <1>2 DEF WellFormed, One
  <2>2. /\ Encode(c, "Legacy") = Prefixed(c, "/obj/gain", -1, <<IntArg(c.p[1]), FloatArg(c.p[2])>>)
        /\ "/obj/gain" \notin AdmVerbs \cup {"none"}
    BY <1>2, <2>1, EncodeFamily DEF EncodeObject, ObjectTags, AdmVerbs
  <2>3. FloatsMean("/obj/gain", -1, c.p[1], 0, c.p[2], 0, 0, Means(c.tag, c.p))
    <3> SUFFICES ASSUME NEW pkt, NEW a, HasFloats(pkt, a, "/obj/gain", -1, c.p[1], 0, c.p[2], 0, 0)
                 PROVE  BuildCommand(pkt, a) = Means(c.tag, c.p)
      BY DEF FloatsMean
    <3>1. BuildCommand(pkt, a) = BuildObject("/obj/gain", a)
      BY BuildFamily DEF ObjectVerbs, HasFloats
    <3> QED BY <1>2, <2>1, <3>1 DEF HasFloats, BuildObject
  <2>4. Dispatched(c, "Legacy") = [tag |-> c.tag, seq |-> c.seq, id |-> c.id, p |-> c.p]
    BY <2>2, <2>3, IntAndFloat
  <2> QED BY <1>0, <1>2, <2>4 DEF Carried, HasWord, LegacyLacks
<1>3. CASE c.tag = "ObjActive"
  <2>1. c.p = <<c.p[1], c.p[2]>> /\ c.p[2] \in BOOLEAN
    BY <1>3 DEF WellFormed, One
  <2>2. /\ Encode(c, "Legacy") =
               Prefixed(c, "/obj/active", -1, <<IntArg(c.p[1]), IntArg(Bit(c.p[2]))>>)
        /\ "/obj/active" \notin AdmVerbs \cup {"none"}
    BY <1>3, <2>1, EncodeFamily DEF EncodeObject, ObjectTags, AdmVerbs
  <2>3. IntsMean("/obj/active", c.p[1], Bit(c.p[2]), Means(c.tag, c.p))
    <3> SUFFICES ASSUME NEW pkt, NEW a, HasInts(pkt, a, "/obj/active", c.p[1], Bit(c.p[2]))
                 PROVE  BuildCommand(pkt, a) = Means(c.tag, c.p)
      BY DEF IntsMean
    <3>1. BuildCommand(pkt, a) = BuildObject("/obj/active", a)
      BY BuildFamily DEF ObjectVerbs, HasInts
    <3> QED BY <1>3, <2>1, <3>1 DEF HasInts, BuildObject, Bit
  <2>4. Dispatched(c, "Legacy") = [tag |-> c.tag, seq |-> c.seq, id |-> c.id, p |-> c.p]
    BY <2>2, <2>3, TwoInts
  <2> QED BY <1>0, <1>3, <2>4 DEF Carried, HasWord, LegacyLacks
<1>4. CASE c.tag = "ObjAlgo"
  <2>1. c.p = <<c.p[1], c.p[2]>> /\ AlgoFromInt(AlgoNumber(c.p[2])) = c.p[2]
    BY <1>4, AlgorithmsNumbered DEF WellFormed, One
  <2>2. /\ Encode(c, "Legacy") =
               Prefixed(c, "/obj/algo", -1, <<IntArg(c.p[1]), IntArg(AlgoNumber(c.p[2]))>>)
        /\ "/obj/algo" \notin AdmVerbs \cup {"none"}
    BY <1>4, <2>1, EncodeFamily DEF EncodeObject, ObjectTags, AdmVerbs
  <2>3. IntsMean("/obj/algo", c.p[1], AlgoNumber(c.p[2]), Means(c.tag, c.p))
    <3> SUFFICES ASSUME NEW pkt, NEW a, HasInts(pkt, a, "/obj/algo", c.p[1], AlgoNumber(c.p[2]))
                 PROVE  BuildCommand(pkt, a) = Means(c.tag, c.p)
      BY DEF IntsMean
    <3>1. BuildCommand(pkt, a) = BuildObject("/obj/algo", a)
      BY BuildFamily DEF ObjectVerbs, HasInts
    <3> QED BY <1>4, <2>1, <3>1 DEF HasInts, BuildObject
  <2>4. Dispatched(c, "Legacy") = [tag |-> c.tag, seq |-> c.seq, id |-> c.id, p |-> c.p]
    BY <2>2, <2>3, TwoInts
  <2> QED BY <1>0, <1>4, <2>4 DEF Carried, HasWord, LegacyLacks
<1>5. CASE c.tag = "ObjDsp"
  <2>1. c.p = <<c.p[1], c.p[2], c.p[3]>> /\ c.p[2] \in 0 .. 7
    BY <1>5 DEF WellFormed, One
  <2>2. /\ Encode(c, "Legacy") =
               Prefixed(c, "/obj/dsp", -1, <<IntArg(c.p[1]), IntArg(c.p[2]), FloatArg(c.p[3])>>)
        /\ "/obj/dsp" \notin AdmVerbs \cup {"none"}
    BY <1>5, <2>1, EncodeFamily DEF EncodeObject, ObjectTags, AdmVerbs
  <2>3. FloatsMean("/obj/dsp", -1, c.p[1], c.p[2], c.p[3], 0, 0, Means(c.tag, c.p))
    <3> SUFFICES ASSUME NEW pkt, NEW a,
                        HasFloats(pkt, a, "/obj/dsp", -1, c.p[1], c.p[2], c.p[3], 0, 0)
                 PROVE  BuildCommand(pkt, a) = Means(c.tag, c.p)
      BY DEF FloatsMean
    <3>1. BuildCommand(pkt, a) = BuildObject("/obj/dsp", a)
      BY BuildFamily DEF ObjectVerbs, HasFloats
    <3> QED BY <1>5, <2>1, <3>1 DEF HasFloats, BuildObject
  <2>4. Dispatched(c, "Legacy") = [tag |-> c.tag, seq |-> c.seq, id |-> c.id, p |-> c.p]
    BY <2>2, <2>3, IntsAndFloat
  <2> QED BY <1>0, <1>5, <2>4 DEF Carried, HasWord, LegacyLacks
<1> QED BY <1>1, <1>2, <1>3, <1>4, <1>5 DEF ObjectTags

\* Cues and the transport; the start of a play is not written.
LEMMA TransportCarried ==
    ASSUME NEW c, WellFormed(c), c.tag \in TransportTags
    PROVE  Dispatched(c, "Legacy") = Carried(c, "Legacy")
<1>0. c = [tag |-> c.tag, seq |-> c.seq, id |-> c.id, p |-> c.p]
  BY DEF WellFormed
<1>1. CASE c.tag = "CueGo"
  <2>1. c.p = <<c.p[1]>>
    BY <1>1 DEF WellFormed, One
  <2>2. /\ Encode(c, "Legacy") = Prefixed(c, "/cue/go", -1, <<IntArg(c.p[1])>>)
        /\ "/cue/go" \notin AdmVerbs \cup {"none"}
    BY <1>1, <2>1, EncodeFamily DEF EncodeTransport, TransportTags, AdmVerbs
  <2>3. IntsMean("/cue/go", c.p[1], 0, Means(c.tag, c.p))
    <3> SUFFICES ASSUME NEW pkt, NEW a, HasInts(pkt, a, "/cue/go", c.p[1], 0)
                 PROVE  BuildCommand(pkt, a) = Means(c.tag, c.p)
      BY DEF IntsMean
    <3>1. BuildCommand(pkt, a) = BuildTransport("/cue/go", a)
      BY BuildFamily DEF TransportVerbs, HasInts
    <3> QED BY <1>1, <2>1, <3>1 DEF HasInts, BuildTransport
  <2>4. Dispatched(c, "Legacy") = [tag |-> c.tag, seq |-> c.seq, id |-> c.id, p |-> c.p]
    BY <2>2, <2>3, OneInt
  <2> QED BY <1>0, <1>1, <2>4 DEF Carried, HasWord, LegacyLacks
<1>2. CASE c.tag = "CueNext"
  <2>1. c.p = <<>>
    BY <1>2 DEF WellFormed, One, BareTags
  <2>2. /\ Encode(c, "Legacy") = Prefixed(c, "/cue/next", -1, <<>>)
        /\ "/cue/next" \notin AdmVerbs \cup {"none"}
    BY <1>2, <2>1, EncodeFamily DEF EncodeTransport, TransportTags, AdmVerbs
  <2>3. IntsMean("/cue/next", 0, 0, Means(c.tag, c.p))
    <3> SUFFICES ASSUME NEW pkt, NEW a, HasInts(pkt, a, "/cue/next", 0, 0)
                 PROVE  BuildCommand(pkt, a) = Means(c.tag, c.p)
      BY DEF IntsMean
    <3>1. BuildCommand(pkt, a) = BuildTransport("/cue/next", a)
      BY BuildFamily DEF TransportVerbs, HasInts
    <3> QED BY <1>2, <2>1, <3>1 DEF HasInts, BuildTransport
  <2>4. Dispatched(c, "Legacy") = [tag |-> c.tag, seq |-> c.seq, id |-> c.id, p |-> c.p]
    BY <2>2, <2>3, Bare
  <2> QED BY <1>0, <1>2, <2>4 DEF Carried, HasWord, LegacyLacks
<1>3. CASE c.tag = "CuePrev"
  <2>1. c.p = <<>>
    BY <1>3 DEF WellFormed, One, BareTags
  <2>2. /\ Encode(c, "Legacy") = Prefixed(c, "/cue/prev", -1, <<>>)
        /\ "/cue/prev" \notin AdmVerbs \cup {"none"}
    BY <1>3, <2>1, EncodeFamily DEF EncodeTransport, TransportTags, AdmVerbs
  <2>3. IntsMean("/cue/prev", 0, 0, Means(c.tag, c.p))
    <3> SUFFICES ASSUME NEW pkt, NEW a, HasInts(pkt, a, "/cue/prev", 0, 0)
                 PROVE  BuildCommand(pkt, a) = Means(c.tag, c.p)
      BY DEF IntsMean
    <3>1. BuildCommand(pkt, a) = BuildTransport("/cue/prev", a)
      BY BuildFamily DEF TransportVerbs, HasInts
    <3> QED BY <1>3, <2>1, <3>1 DEF HasInts, BuildTransport
  <2>4. Dispatched(c, "Legacy") = [tag |-> c.tag, seq |-> c.seq, id |-> c.id, p |-> c.p]
    BY <2>2, <2>3, Bare
  <2> QED BY <1>0, <1>3, <2>4 DEF Carried, HasWord, LegacyLacks
<1>4. CASE c.tag = "CueStop"
  <2>1. c.p = <<>>
    BY <1>4 DEF WellFormed, One, BareTags
  <2>2. /\ Encode(c, "Legacy") = Prefixed(c, "/cue/stop", -1, <<>>)
        /\ "/cue/stop" \notin AdmVerbs \cup {"none"}
    BY <1>4, <2>1, EncodeFamily DEF EncodeTransport, TransportTags, AdmVerbs
  <2>3. IntsMean("/cue/stop", 0, 0, Means(c.tag, c.p))
    <3> SUFFICES ASSUME NEW pkt, NEW a, HasInts(pkt, a, "/cue/stop", 0, 0)
                 PROVE  BuildCommand(pkt, a) = Means(c.tag, c.p)
      BY DEF IntsMean
    <3>1. BuildCommand(pkt, a) = BuildTransport("/cue/stop", a)
      BY BuildFamily DEF TransportVerbs, HasInts
    <3> QED BY <1>4, <2>1, <3>1 DEF HasInts, BuildTransport
  <2>4. Dispatched(c, "Legacy") = [tag |-> c.tag, seq |-> c.seq, id |-> c.id, p |-> c.p]
    BY <2>2, <2>3, Bare
  <2> QED BY <1>0, <1>4, <2>4 DEF Carried, HasWord, LegacyLacks
<1>5. CASE c.tag = "TransportPlay"
  <2>1. c.p = <<c.p[1]>>
    BY <1>5 DEF WellFormed, One, BareTags
  <2>2. /\ Encode(c, "Legacy") = Prefixed(c, "/transport/play", -1, <<>>)
        /\ "/transport/play" \notin AdmVerbs \cup {"none"}
    BY <1>5, <2>1, EncodeFamily DEF EncodeTransport, TransportTags, AdmVerbs
  <2>3. IntsMean("/transport/play", 0, 0, Means(c.tag, <<0>>))
    <3> SUFFICES ASSUME NEW pkt, NEW a, HasInts(pkt, a, "/transport/play", 0, 0)
                 PROVE  BuildCommand(pkt, a) = Means(c.tag, <<0>>)
      BY DEF IntsMean
    <3>1. BuildCommand(pkt, a) = BuildTransport("/transport/play", a)
      BY BuildFamily DEF TransportVerbs, HasInts
    <3> QED BY <1>5, <2>1, <3>1 DEF HasInts, BuildTransport
  <2>4. Dispatched(c, "Legacy") = [tag |-> c.tag, seq |-> c.seq, id |-> c.id, p |-> <<0>>]
    BY <2>2, <2>3, Bare
  <2>5. Carried(c, "Legacy") = [c EXCEPT !.p[1] = 0]
    BY <1>5 DEF Carried, HasWord, LegacyLacks
  <2>6. [c.p EXCEPT ![1] = 0] = <<0>>
    BY <2>1
  <2> QED BY <1>0, <2>4, <2>5, <2>6
<1>6. CASE c.tag = "TransportStop"
  <2>1. c.p = <<>>
    BY <1>6 DEF WellFormed, One, BareTags
  <2>2. /\ Encode(c, "Legacy") = Prefixed(c, "/transport/stop", -1, <<>>)
        /\ "/transport/stop" \notin AdmVerbs \cup {"none"}
    BY <1>6, <2>1, EncodeFamily DEF EncodeTransport, TransportTags, AdmVerbs
  <2>3. IntsMean("/transport/stop", 0, 0, Means(c.tag, c.p))
    <3> SUFFICES ASSUME NEW pkt, NEW a, HasInts(pkt, a, "/transport/stop", 0, 0)
                 PROVE  BuildCommand(pkt, a) = Means(c.tag, c.p)
      BY DEF IntsMean
    <3>1. BuildCommand(pkt, a) = BuildTransport("/transport/stop", a)
      BY BuildFamily DEF TransportVerbs, HasInts
    <3> QED BY <1>6, <2>1, <3>1 DEF HasInts, BuildTransport
  <2>4. Dispatched(c, "Legacy") = [tag |-> c.tag, seq |-> c.seq, id |-> c.id, p |-> c.p]
    BY <2>2, <2>3, Bare
  <2> QED BY <1>0, <1>6, <2>4 DEF Carried, HasWord, LegacyLacks
<1> QED BY <1>1, <1>2, <1>3, <1>4, <1>5, <1>6 DEF TransportTags

\* The binaural monitor.
LEMMA BinauralCarried ==
    ASSUME NEW c, WellFormed(c), c.tag \in BinauralTags
    PROVE  Dispatched(c, "Legacy") = Carried(c, "Legacy")
<1>0. c = [tag |-> c.tag, seq |-> c.seq, id |-> c.id, p |-> c.p]
  BY DEF WellFormed
<1>1. CASE c.tag = "SysLoadLayout"
  <2>1. c.p = <<c.p[1]>>
    BY <1>1 DEF WellFormed, One
  <2>2. /\ Encode(c, "Legacy") = Prefixed(c, "/sys/load_layout", -1, <<TextArg(c.p[1])>>)
        /\ "/sys/load_layout" \notin AdmVerbs \cup {"none"}
    BY <1>1, <2>1, EncodeFamily DEF EncodeBinaural, BinauralTags, AdmVerbs
  <2>3. TextsMean("/sys/load_layout", -1, c.p[1], NoText, Means(c.tag, c.p))
    <3> SUFFICES ASSUME NEW pkt, NEW a, HasTexts(pkt, a, "/sys/load_layout", -1, c.p[1], NoText)
                 PROVE  BuildCommand(pkt, a) = Means(c.tag, c.p)
      BY DEF TextsMean
    <3>1. BuildCommand(pkt, a) = BuildBinaural("/sys/load_layout", a)
      BY BuildFamily DEF BinauralVerbs, HasTexts
    <3> QED BY <1>1, <2>1, <3>1 DEF HasTexts, BuildBinaural
  <2>4. Dispatched(c, "Legacy") = [tag |-> c.tag, seq |-> c.seq, id |-> c.id, p |-> c.p]
    BY <2>2, <2>3, OneText
  <2> QED BY <1>0, <1>1, <2>4 DEF Carried, HasWord, LegacyLacks
<1>2. CASE c.tag = "SysBinauralSofa"
  <2>1. c.p = <<c.p[1]>>
    BY <1>2 DEF WellFormed, One
  <2>2. /\ Encode(c, "Legacy") = Prefixed(c, "/sys/binaural_sofa", -1, <<TextArg(c.p[1])>>)
        /\ "/sys/binaural_sofa" \notin AdmVerbs \cup {"none"}
    BY <1>2, <2>1, EncodeFamily DEF EncodeBinaural, BinauralTags, AdmVerbs
  <2>3. TextsMean("/sys/binaural_sofa", -1, c.p[1], NoText, Means(c.tag, c.p))
    <3> SUFFICES ASSUME NEW pkt, NEW a, HasTexts(pkt, a, "/sys/binaural_sofa", -1, c.p[1], NoText)
                 PROVE  BuildCommand(pkt, a) = Means(c.tag, c.p)
      BY DEF TextsMean
    <3>1. BuildCommand(pkt, a) = BuildBinaural("/sys/binaural_sofa", a)
      BY BuildFamily DEF BinauralVerbs, HasTexts
    <3> QED BY <1>2, <2>1, <3>1 DEF HasTexts, BuildBinaural
  <2>4. Dispatched(c, "Legacy") = [tag |-> c.tag, seq |-> c.seq, id |-> c.id, p |-> c.p]
    BY <2>2, <2>3, OneText
  <2> QED BY <1>0, <1>2, <2>4 DEF Carried, HasWord, LegacyLacks
<1>3. CASE c.tag = "SysBinauralSofaSelect"
  <2>1. c.p = <<c.p[1]>> /\ c.p[1].len > 0
    BY <1>3 DEF WellFormed, One
  <2>2. /\ Encode(c, "Legacy") = Prefixed(c, "/sys/binaural_sofa_select", -1, <<TextArg(c.p[1])>>)
        /\ "/sys/binaural_sofa_select" \notin AdmVerbs \cup {"none"}
    BY <1>3, <2>1, EncodeFamily DEF EncodeBinaural, BinauralTags, AdmVerbs
  <2>3. TextsMean("/sys/binaural_sofa_select", -1, c.p[1], NoText, Means(c.tag, c.p))
    <3> SUFFICES ASSUME NEW pkt, NEW a,
                        HasTexts(pkt, a, "/sys/binaural_sofa_select", -1, c.p[1], NoText)
                 PROVE  BuildCommand(pkt, a) = Means(c.tag, c.p)
      BY DEF TextsMean
    <3>1. BuildCommand(pkt, a) = BuildBinaural("/sys/binaural_sofa_select", a)
      BY BuildFamily DEF BinauralVerbs, HasTexts
    <3> QED BY <1>3, <2>1, <3>1 DEF HasTexts, BuildBinaural
  <2>4. Dispatched(c, "Legacy") = [tag |-> c.tag, seq |-> c.seq, id |-> c.id, p |-> c.p]
    BY <2>2, <2>3, OneText
  <2> QED BY <1>0, <1>3, <2>4 DEF Carried, HasWord, LegacyLacks
<1>4. CASE c.tag = "SysBinauralEnable"
  <2>1. c.p = <<c.p[1]>> /\ c.p[1] \in BOOLEAN
    BY <1>4 DEF WellFormed, One
  <2>2. /\ Encode(c, "Legacy") = Prefixed(c, "/sys/binaural_enable", -1, <<IntArg(Bit(c.p[1]))>>)
        /\ "/sys/binaural_enable" \notin AdmVerbs \cup {"none"}
    BY <1>4, <2>1, EncodeFamily DEF EncodeBinaural, BinauralTags, AdmVerbs
  <2>3. IntsMean("/sys/binaural_enable", Bit(c.p[1]), 0, Means(c.tag, c.p))
    <3> SUFFICES ASSUME NEW pkt, NEW a, HasInts(pkt, a, "/sys/binaural_enable", Bit(c.p[1]), 0)
                 PROVE  BuildCommand(pkt, a) = Means(c.tag, c.p)
      BY DEF IntsMean
    <3>1. BuildCommand(pkt, a) = BuildBinaural("/sys/binaural_enable", a)
      BY BuildFamily DEF BinauralVerbs, HasInts
    <3> QED BY <1>4, <2>1, <3>1 DEF HasInts, BuildBinaural, Bit
  <2>4. Dispatched(c, "Legacy") = [tag |-> c.tag, seq |-> c.seq, id |-> c.id, p |-> c.p]
    BY <2>2, <2>3, OneInt
  <2> QED BY <1>0, <1>4, <2>4 DEF Carried, HasWord, LegacyLacks
<1>5. CASE c.tag = "SysBinauralMode"
  <2>1. c.p = <<c.p[1]>> /\ c.p[1] \in {0, 1}
    BY <1>5 DEF WellFormed, One
  <2>2. /\ Encode(c, "Legacy") = Prefixed(c, "/sys/binaural_mode", -1, <<IntArg(c.p[1])>>)
        /\ "/sys/binaural_mode" \notin AdmVerbs \cup {"none"}
    BY <1>5, <2>1, EncodeFamily DEF EncodeBinaural, BinauralTags, AdmVerbs
  <2>3. IntsMean("/sys/binaural_mode", c.p[1], 0, Means(c.tag, c.p))
    <3> SUFFICES ASSUME NEW pkt, NEW a, HasInts(pkt, a, "/sys/binaural_mode", c.p[1], 0)
                 PROVE  BuildCommand(pkt, a) = Means(c.tag, c.p)
      BY DEF IntsMean
    <3>1. BuildCommand(pkt, a) = BuildBinaural("/sys/binaural_mode", a)
      BY BuildFamily DEF BinauralVerbs, HasInts
    <3> QED BY <1>5, <2>1, <3>1 DEF HasInts, BuildBinaural
  <2>4. Dispatched(c, "Legacy") = [tag |-> c.tag, seq |-> c.seq, id |-> c.id, p |-> c.p]
    BY <2>2, <2>3, OneInt
  <2> QED BY <1>0, <1>5, <2>4 DEF Carried, HasWord, LegacyLacks
<1> QED BY <1>1, <1>2, <1>3, <1>4, <1>5 DEF BinauralTags

\* Pings and pongs; the origin of a ping is not written.
LEMMA HeartbeatCarried ==
    ASSUME NEW c, WellFormed(c), c.tag \in HeartbeatTags
    PROVE  Dispatched(c, "Legacy") = Carried(c, "Legacy")
<1>0. c = [tag |-> c.tag, seq |-> c.seq, id |-> c.id, p |-> c.p]
  BY DEF WellFormed
<1>1. CASE c.tag = "HbPing"
  <2>1. c.p = <<c.p[1], c.p[2]>>
    BY <1>1 DEF WellFormed, One
  <2>2. /\ Encode(c, "Legacy") = Prefixed(c, "/hb/ping", -1, <<TimeArg(c.p[1])>>)
        /\ "/hb/ping" \notin AdmVerbs \cup {"none"}
    BY <1>1, <2>1, EncodeFamily DEF EncodeHeartbeat, HeartbeatTags, AdmVerbs
  <2>3. TimeMeans("/hb/ping", c.p[1], Means(c.tag, <<c.p[1], FALSE>>))
    <3> SUFFICES ASSUME NEW pkt, NEW a, HasTime(pkt, a, "/hb/ping", c.p[1])
                 PROVE  BuildCommand(pkt, a) = Means(c.tag, <<c.p[1], FALSE>>)
      BY DEF TimeMeans
    <3>1. BuildCommand(pkt, a) = BuildHeartbeat("/hb/ping", a)
      BY BuildFamily DEF HeartbeatVerbs, HasTime
    <3> QED BY <1>1, <2>1, <3>1 DEF HasTime, BuildHeartbeat
  <2>4. Dispatched(c, "Legacy") = 
           [tag |-> c.tag, seq |-> c.seq, id |-> c.id, p |-> <<c.p[1], FALSE>>]
    BY <2>2, <2>3, OneTime
  <2>5. Carried(c, "Legacy") = [c EXCEPT !.p[2] = FALSE]
    BY <1>1 DEF Carried, HasWord, LegacyLacks
  <2>6. [c.p EXCEPT ![2] = FALSE] = <<c.p[1], FALSE>>
    <3>1. \A x, y, z : [<<x, y>> EXCEPT ![2] = z] = <<x, z>>
      OBVIOUS
    <3>2. [<<c.p[1], c.p[2]>> EXCEPT ![2] = FALSE] = <<c.p[1], FALSE>>
      BY <3>1
    <3> QED BY <2>1, <3>2
  <2> QED BY <1>0, <2>4, <2>5, <2>6
<1>2. CASE c.tag = "HbPong"
  <2>1. c.p = <<c.p[1]>>
    BY <1>2 DEF WellFormed, One
  <2>2. /\ Encode(c, "Legacy") = Prefixed(c, "/hb/pong", -1, <<TimeArg(c.p[1])>>)
        /\ "/hb/pong" \notin AdmVerbs \cup {"none"}
    BY <1>2, <2>1, EncodeFamily DEF EncodeHeartbeat, HeartbeatTags, AdmVerbs
  <2>3. TimeMeans("/hb/pong", c.p[1], Means(c.tag, c.p))
    <3> SUFFICES ASSUME NEW pkt, NEW a, HasTime(pkt, a, "/hb/pong", c.p[1])
                 PROVE  BuildCommand(pkt, a) = Means(c.tag, c.p)
      BY DEF TimeMeans
    <3>1. BuildCommand(pkt, a) = BuildHeartbeat("/hb/pong", a)
      BY BuildFamily DEF HeartbeatVerbs, HasTime
    <3> QED BY <1>2, <2>1, <3>1 DEF HasTime, BuildHeartbeat
  <2>4. Dispatched(c, "Legacy") = [tag |-> c.tag, seq |-> c.seq, id |-> c.id, p |-> c.p]
    BY <2>2, <2>3, OneTime
  <2> QED BY <1>0, <1>2, <2>4 DEF Carried, HasWord, LegacyLacks
<1> QED BY <1>1, <1>2 DEF HeartbeatTags

\* The scene library; names are cut where the controller cuts them.
LEMMA SceneCarried ==
    ASSUME NEW c, WellFormed(c), c.tag \in SceneTags
    PROVE  Dispatched(c, "Legacy") = Carried(c, "Legacy")
<1>0. c = [tag |-> c.tag, seq |-> c.seq, id |-> c.id, p |-> c.p]
  BY DEF WellFormed
<1>1. CASE c.tag = "SceneSave"
  <2>1. c.p = <<c.p[1]>> /\ CopySceneName(c.p[1]) = c.p[1]
    BY NamesFit, <1>1 DEF WellFormed, One
  <2>2. /\ Encode(c, "Legacy") = Prefixed(c, "/scene/save", -1, <<TextArg(c.p[1])>>)
        /\ "/scene/save" \notin AdmVerbs \cup {"none"}
    BY <1>1, <2>1, EncodeFamily DEF EncodeScene, SceneTags, AdmVerbs
  <2>3. TextsMean("/scene/save", -1, c.p[1], NoText, Means(c.tag, c.p))
    <3> SUFFICES ASSUME NEW pkt, NEW a, HasTexts(pkt, a, "/scene/save", -1, c.p[1], NoText)
                 PROVE  BuildCommand(pkt, a) = Means(c.tag, c.p)
      BY DEF TextsMean
    <3>1. BuildCommand(pkt, a) = BuildScene("/scene/save", a)
      BY BuildFamily DEF SceneVerbs, HasTexts
    <3> QED BY <1>1, <2>1, <3>1 DEF HasTexts, BuildScene
  <2>4. Dispatched(c, "Legacy") = [tag |-> c.tag, seq |-> c.seq, id |-> c.id, p |-> c.p]
    BY <2>2, <2>3, OneText
  <2> QED BY <1>0, <1>1, <2>4 DEF Carried, HasWord, LegacyLacks
<1>2. CASE c.tag = "SceneLoad"
  <2>1. c.p = <<c.p[1]>> /\ CopySceneName(c.p[1]) = c.p[1]
    BY NamesFit, <1>2 DEF WellFormed, One
  <2>2. /\ Encode(c, "Legacy") = Prefixed(c, "/scene/load", -1, <<TextArg(c.p[1])>>)
        /\ "/scene/load" \notin AdmVerbs \cup {"none"}
    BY <1>2, <2>1, EncodeFamily DEF EncodeScene, SceneTags, AdmVerbs
  <2>3. TextsMean("/scene/load", -1, c.p[1], NoText, Means(c.tag, c.p))
    <3> SUFFICES ASSUME NEW pkt, NEW a, HasTexts(pkt, a, "/scene/load", -1, c.p[1], NoText)
                 PROVE  BuildCommand(pkt, a) = Means(c.tag, c.p)
      BY DEF TextsMean
    <3>1. BuildCommand(pkt, a) = BuildScene("/scene/load", a)
      BY BuildFamily DEF SceneVerbs, HasTexts
    <3> QED BY <1>2, <2>1, <3>1 DEF HasTexts, BuildScene
  <2>4. Dispatched(c, "Legacy") = [tag |-> c.tag, seq |-> c.seq, id |-> c.id, p |-> c.p]
    BY <2>2, <2>3, OneText
  <2> QED BY <1>0, <1>2, <2>4 DEF Carried, HasWord, LegacyLacks
<1>3. CASE c.tag = "SceneDelete"
  <2>1. c.p = <<c.p[1]>> /\ CopySceneName(c.p[1]) = c.p[1]
    BY NamesFit, <1>3 DEF WellFormed, One
  <2>2. /\ Encode(c, "Legacy") = Prefixed(c, "/scene/delete", -1, <<TextArg(c.p[1])>>)
        /\ "/scene/delete" \notin AdmVerbs \cup {"none"}
    BY <1>3, <2>1, EncodeFamily DEF EncodeScene, SceneTags, AdmVerbs
  <2>3. TextsMean("/scene/delete", -1, c.p[1], NoText, Means(c.tag, c.p))
    <3> SUFFICES ASSUME NEW pkt, NEW a, HasTexts(pkt, a, "/scene/delete", -1, c.p[1], NoText)
                 PROVE  BuildCommand(pkt, a) = Means(c.tag, c.p)
      BY DEF TextsMean
    <3>1. BuildCommand(pkt, a) = BuildScene("/scene/delete", a)
      BY BuildFamily DEF SceneVerbs, HasTexts
    <3> QED BY <1>3, <2>1, <3>1 DEF HasTexts, BuildScene
  <2>4. Dispatched(c, "Legacy") = [tag |-> c.tag, seq |-> c.seq, id |-> c.id, p |-> c.p]
    BY <2>2, <2>3, OneText
  <2> QED BY <1>0, <1>3, <2>4 DEF Carried, HasWord, LegacyLacks
<1>4. CASE c.tag = "SceneRename"
  <2>1. c.p = <<c.p[1], c.p[2]>> /\ CopySceneName(c.p[1]) = c.p[1] /\ CopySceneName(c.p[2]) = c.p[2]
    BY NamesFit, <1>4 DEF WellFormed, One
  <2>2. /\ Encode(c, "Legacy") =
               Prefixed(c, "/scene/rename", -1, <<TextArg(c.p[1]), TextArg(c.p[2])>>)
        /\ "/scene/rename" \notin AdmVerbs \cup {"none"}
    BY <1>4, <2>1, EncodeFamily DEF EncodeScene, SceneTags, AdmVerbs
  <2>3. TextsMean("/scene/rename", -1, c.p[1], c.p[2], Means(c.tag, c.p))
    <3> SUFFICES ASSUME NEW pkt, NEW a, HasTexts(pkt, a, "/scene/rename", -1, c.p[1], c.p[2])
                 PROVE  BuildCommand(pkt, a) = Means(c.tag, c.p)
      BY DEF TextsMean
    <3>1. BuildCommand(pkt, a) = BuildScene("/scene/rename", a)
      BY BuildFamily DEF SceneVerbs, HasTexts
    <3> QED BY <1>4, <2>1, <3>1 DEF HasTexts, BuildScene
  <2>4. Dispatched(c, "Legacy") = [tag |-> c.tag, seq |-> c.seq, id |-> c.id, p |-> c.p]
    BY <2>2, <2>3, TwoTexts
  <2> QED BY <1>0, <1>4, <2>4 DEF Carried, HasWord, LegacyLacks
<1>5. CASE c.tag = "SceneDuplicate"
  <2>1. c.p = <<c.p[1], c.p[2]>> /\ CopySceneName(c.p[1]) = c.p[1] /\ CopySceneName(c.p[2]) = c.p[2]
    BY NamesFit, <1>5 DEF WellFormed, One
  <2>2. /\ Encode(c, "Legacy") =
               Prefixed(c, "/scene/duplicate", -1, <<TextArg(c.p[1]), TextArg(c.p[2])>>)
        /\ "/scene/duplicate" \notin AdmVerbs \cup {"none"}
    BY <1>5, <2>1, EncodeFamily DEF EncodeScene, SceneTags, AdmVerbs
  <2>3. TextsMean("/scene/duplicate", -1, c.p[1], c.p[2], Means(c.tag, c.p))
    <3> SUFFICES ASSUME NEW pkt, NEW a, HasTexts(pkt, a, "/scene/duplicate", -1, c.p[1], c.p[2])
                 PROVE  BuildCommand(pkt, a) = Means(c.tag, c.p)
      BY DEF TextsMean
    <3>1. BuildCommand(pkt, a) = BuildScene("/scene/duplicate", a)
      BY BuildFamily DEF SceneVerbs, HasTexts
    <3> QED BY <1>5, <2>1, <3>1 DEF HasTexts, BuildScene
  <2>4. Dispatched(c, "Legacy") = [tag |-> c.tag, seq |-> c.seq, id |-> c.id, p |-> c.p]
    BY <2>2, <2>3, TwoTexts
  <2> QED BY <1>0, <1>5, <2>4 DEF Carried, HasWord, LegacyLacks
<1>6. CASE c.tag = "SceneMeta"
  <2>1. c.p = <<c.p[1], c.p[2]>> /\ CopySceneName(c.p[1]) = c.p[1]
    BY NamesFit, <1>6 DEF WellFormed, One
  <2>2. /\ Encode(c, "Legacy") =
               Prefixed(c, "/scene/meta", -1, <<TextArg(c.p[1]), TextArg(c.p[2])>>)
        /\ "/scene/meta" \notin AdmVerbs \cup {"none"}
    BY <1>6, <2>1, EncodeFamily DEF EncodeScene, SceneTags, AdmVerbs
  <2>3. TextsMean("/scene/meta", -1, c.p[1], c.p[2], Means(c.tag, c.p))
    <3> SUFFICES ASSUME NEW pkt, NEW a, HasTexts(pkt, a, "/scene/meta", -1, c.p[1], c.p[2])
                 PROVE  BuildCommand(pkt, a) = Means(c.tag, c.p)
      BY DEF TextsMean
    <3>1. BuildCommand(pkt, a) = BuildScene("/scene/meta", a)
      BY BuildFamily DEF SceneVerbs, HasTexts
    <3> QED BY <1>6, <2>1, <3>1 DEF HasTexts, BuildScene
  <2>4. Dispatched(c, "Legacy") = [tag |-> c.tag, seq |-> c.seq, id |-> c.id, p |-> c.p]
    BY <2>2, <2>3, TwoTexts
  <2> QED BY <1>0, <1>6, <2>4 DEF Carried, HasWord, LegacyLacks
<1>7. CASE c.tag = "SceneList"
  <2>1. c.p = <<>> /\ [k \in DOMAIN c.p |-> TextArg(c.p[k])] = <<>>
    BY NoTexts, <1>7 DEF WellFormed, One, BareTags
  <2>2. /\ Encode(c, "Legacy") = Prefixed(c, "/scene/list", -1, <<>>)
        /\ "/scene/list" \notin AdmVerbs \cup {"none"}
    BY <1>7, <2>1, EncodeFamily DEF EncodeScene, SceneTags, AdmVerbs
  <2>3. IntsMean("/scene/list", 0, 0, Means(c.tag, c.p))
    <3> SUFFICES ASSUME NEW pkt, NEW a, HasInts(pkt, a, "/scene/list", 0, 0)
                 PROVE  BuildCommand(pkt, a) = Means(c.tag, c.p)
      BY DEF IntsMean
    <3>1. BuildCommand(pkt, a) = BuildScene("/scene/list", a)
      BY BuildFamily DEF SceneVerbs, HasInts
    <3> QED BY <1>7, <2>1, <3>1 DEF HasInts, BuildScene
  <2>4. Dispatched(c, "Legacy") = [tag |-> c.tag, seq |-> c.seq, id |-> c.id, p |-> c.p]
    BY <2>2, <2>3, Bare
  <2> QED BY <1>0, <1>7, <2>4 DEF Carried, HasWord, LegacyLacks
<1> QED BY <1>1, <1>2, <1>3, <1>4, <1>5, <1>6, <1>7 DEF SceneTags

\* Noise and outputs, whose number is in the address.
LEMMA ChannelCarried ==
    ASSUME NEW c, WellFormed(c), c.tag \in ChannelTags
    PROVE  Dispatched(c, "Legacy") = Carried(c, "Legacy")
<1>0. c = [tag |-> c.tag, seq |-> c.seq, id |-> c.id, p |-> c.p]
  BY DEF WellFormed
<1>1. CASE c.tag = "NoiseType"
  <2>1. c.p = <<c.p[1], c.p[2]>> /\ c.p[1] \in Nat /\ c.p[2] \in BOOLEAN
    BY <1>1 DEF WellFormed, One
  <2>2. /\ Encode(c, "Legacy") =
               Prefixed(c, "/noise/N/type", c.p[1],
                        <<TextArg(Word(IF c.p[2] THEN "pink" ELSE "white"))>>)
        /\ "/noise/N/type" \notin AdmVerbs \cup {"none"}
    BY <1>1, <2>1, EncodeFamily DEF EncodeChannel, ChannelTags, AdmVerbs
  <2>3. TextsMean("/noise/N/type", c.p[1], Word(IF c.p[2] THEN "pink" ELSE "white"),
                  NoText, Means(c.tag, c.p))
    <3> SUFFICES ASSUME NEW pkt, NEW a,
                        HasTexts(pkt, a, "/noise/N/type", c.p[1], Word(IF c.p[2] THEN "pink" ELSE "white"),
                                 NoText)
                 PROVE  BuildCommand(pkt, a) = Means(c.tag, c.p)
      BY DEF TextsMean
    <3>1. BuildCommand(pkt, a) = BuildChannel("/noise/N/type", c.p[1], a)
      BY BuildFamily DEF ChannelVerbs, HasTexts
    <3> QED BY <1>1, <2>1, <3>1 DEF HasTexts, BuildChannel, Word
  <2>4. Dispatched(c, "Legacy") = [tag |-> c.tag, seq |-> c.seq, id |-> c.id, p |-> c.p]
    BY <2>2, <2>3, OneText
  <2> QED BY <1>0, <1>1, <2>4 DEF Carried, HasWord, LegacyLacks
<1>2. CASE c.tag = "NoiseGain"
  <2>1. c.p = <<c.p[1], c.p[2]>> /\ c.p[1] \in Nat
    BY <1>2 DEF WellFormed, One
  <2>2. /\ Encode(c, "Legacy") = Prefixed(c, "/noise/N/gain", c.p[1], <<FloatArg(c.p[2])>>)
        /\ "/noise/N/gain" \notin AdmVerbs \cup {"none"}
    BY <1>2, <2>1, EncodeFamily DEF EncodeChannel, ChannelTags, AdmVerbs
  <2>3. FloatsMean("/noise/N/gain", c.p[1], 0, 0, c.p[2], 0, 0, Means(c.tag, c.p))
    <3> SUFFICES ASSUME NEW pkt, NEW a,
                        HasFloats(pkt, a, "/noise/N/gain", c.p[1], 0, 0, c.p[2], 0, 0)
                 PROVE  BuildCommand(pkt, a) = Means(c.tag, c.p)
      BY DEF FloatsMean
    <3>1. BuildCommand(pkt, a) = BuildChannel("/noise/N/gain", c.p[1], a)
      BY BuildFamily DEF ChannelVerbs, HasFloats
    <3> QED BY <1>2, <2>1, <3>1 DEF HasFloats, BuildChannel
  <2>4. Dispatched(c, "Legacy") = [tag |-> c.tag, seq |-> c.seq, id |-> c.id, p |-> c.p]
    BY <2>2, <2>3, OneFloat
  <2> QED BY <1>0, <1>2, <2>4 DEF Carried, HasWord, LegacyLacks
<1>3. CASE c.tag = "OutputGain"
  <2>1. c.p = <<c.p[1], c.p[2]>> /\ c.p[1] \in Nat
    BY <1>3 DEF WellFormed, One
  <2>2. /\ Encode(c, "Legacy") = Prefixed(c, "/output/N/gain", c.p[1], <<FloatArg(c.p[2])>>)
        /\ "/output/N/gain" \notin AdmVerbs \cup {"none"}
    BY <1>3, <2>1, EncodeFamily DEF EncodeChannel, ChannelTags, AdmVerbs
  <2>3. FloatsMean("/output/N/gain", c.p[1], 0, 0, c.p[2], 0, 0, Means(c.tag, c.p))
    <3> SUFFICES ASSUME NEW pkt, NEW a,
                        HasFloats(pkt, a, "/output/N/gain", c.p[1], 0, 0, c.p[2], 0, 0)
                 PROVE  BuildCommand(pkt, a) = Means(c.tag, c.p)
      BY DEF FloatsMean
    <3>1. BuildCommand(pkt, a) = BuildChannel("/output/N/gain", c.p[1], a)
      BY BuildFamily DEF ChannelVerbs, HasFloats
    <3> QED BY <1>3, <2>1, <3>1 DEF HasFloats, BuildChannel
  <2>4. Dispatched(c, "Legacy") = [tag |-> c.tag, seq |-> c.seq, id |-> c.id, p |-> c.p]
    BY <2>2, <2>3, OneFloat
  <2> QED BY <1>0, <1>3, <2>4 DEF Carried, HasWord, LegacyLacks
<1>4. CASE c.tag = "OutputLimit"
  <2>1. c.p = <<c.p[1], c.p[2]>> /\ c.p[1] \in Nat
    BY <1>4 DEF WellFormed, One
  <2>2. /\ Encode(c, "Legacy") = Prefixed(c, "/output/N/limit", c.p[1], <<FloatArg(c.p[2])>>)
        /\ "/output/N/limit" \notin AdmVerbs \cup {"none"}
    BY <1>4, <2>1, EncodeFamily DEF EncodeChannel, ChannelTags, AdmVerbs
  <2>3. FloatsMean("/output/N/limit", c.p[1], 0, 0, c.p[2], 0, 0, Means(c.tag, c.p))
    <3> SUFFICES ASSUME NEW pkt, NEW a,
                        HasFloats(pkt, a, "/output/N/limit", c.p[1], 0, 0, c.p[2], 0, 0)
                 PROVE  BuildCommand(pkt, a) = Means(c.tag, c.p)
      BY DEF FloatsMean
    <3>1. BuildCommand(pkt, a) = BuildChannel("/output/N/limit", c.p[1], a)
      BY BuildFamily DEF ChannelVerbs, HasFloats
    <3> QED BY <1>4, <2>1, <3>1 DEF HasFloats, BuildChannel
  <2>4. Dispatched(c, "Legacy") = [tag |-> c.tag, seq |-> c.seq, id |-> c.id, p |-> c.p]
    BY <2>2, <2>3, OneFloat
  <2> QED BY <1>0, <1>4, <2>4 DEF Carried, HasWord, LegacyLacks
<1> QED BY <1>1, <1>2, <1>3, <1>4 DEF ChannelTags

\* The engine's settings.
LEMMA SystemCarried ==
    ASSUME NEW c, WellFormed(c), c.tag \in SystemTags
    PROVE  Dispatched(c, "Legacy") = Carried(c, "Legacy")
<1>0. c = [tag |-> c.tag, seq |-> c.seq, id |-> c.id, p |-> c.p]
  BY DEF WellFormed
<1>1. CASE c.tag = "SysAlgoSwap"
  <2>1. c.p = <<c.p[1]>> /\ AlgoFromInt(AlgoNumber(c.p[1])) = c.p[1]
    BY <1>1, AlgorithmsNumbered DEF WellFormed, One
  <2>2. /\ Encode(c, "Legacy") = Prefixed(c, "/sys/algo_swap", -1, <<IntArg(AlgoNumber(c.p[1]))>>)
        /\ "/sys/algo_swap" \notin AdmVerbs \cup {"none"}
    BY <1>1, <2>1, EncodeFamily DEF EncodeSystem, SystemTags, AdmVerbs
  <2>3. IntsMean("/sys/algo_swap", AlgoNumber(c.p[1]), 0, Means(c.tag, c.p))
    <3> SUFFICES ASSUME NEW pkt, NEW a, HasInts(pkt, a, "/sys/algo_swap", AlgoNumber(c.p[1]), 0)
                 PROVE  BuildCommand(pkt, a) = Means(c.tag, c.p)
      BY DEF IntsMean
    <3>1. BuildCommand(pkt, a) = BuildSystem("/sys/algo_swap", a)
      BY BuildFamily DEF SystemVerbs, HasInts
    <3> QED BY <1>1, <2>1, <3>1 DEF HasInts, BuildSystem
  <2>4. Dispatched(c, "Legacy") = [tag |-> c.tag, seq |-> c.seq, id |-> c.id, p |-> c.p]
    BY <2>2, <2>3, OneInt
  <2> QED BY <1>0, <1>1, <2>4 DEF Carried, HasWord, LegacyLacks
<1>2. CASE c.tag = "SysReset"
  <2>1. c.p = <<>>
    BY <1>2 DEF WellFormed, One, BareTags
  <2>2. /\ Encode(c, "Legacy") = Prefixed(c, "/sys/reset", -1, <<>>)
        /\ "/sys/reset" \notin AdmVerbs \cup {"none"}
    BY <1>2, <2>1, EncodeFamily DEF EncodeSystem, SystemTags, AdmVerbs
  <2>3. IntsMean("/sys/reset", 0, 0, Means(c.tag, c.p))
    <3> SUFFICES ASSUME NEW pkt, NEW a, HasInts(pkt, a, "/sys/reset", 0, 0)
                 PROVE  BuildCommand(pkt, a) = Means(c.tag, c.p)
      BY DEF IntsMean
    <3>1. BuildCommand(pkt, a) = BuildSystem("/sys/reset", a)
      BY BuildFamily DEF SystemVerbs, HasInts
    <3> QED BY <1>2, <2>1, <3>1 DEF HasInts, BuildSystem
  <2>4. Dispatched(c, "Legacy") = [tag |-> c.tag, seq |-> c.seq, id |-> c.id, p |-> c.p]
    BY <2>2, <2>3, Bare
  <2> QED BY <1>0, <1>2, <2>4 DEF Carried, HasWord, LegacyLacks
<1>3. CASE c.tag = "SysAmbiOrder"
  <2>1. c.p = <<c.p[1]>> /\ c.p[1] \in 1 .. 3
    BY <1>3 DEF WellFormed, One
  <2>2. /\ Encode(c, "Legacy") = Prefixed(c, "/sys/ambi_order", -1, <<IntArg(c.p[1])>>)
        /\ "/sys/ambi_order" \notin AdmVerbs \cup {"none"}
    BY <1>3, <2>1, EncodeFamily DEF EncodeSystem, SystemTags, AdmVerbs
  <2>3. IntsMean("/sys/ambi_order", c.p[1], 0, Means(c.tag, c.p))
    <3> SUFFICES ASSUME NEW pkt, NEW a, HasInts(pkt, a, "/sys/ambi_order", c.p[1], 0)
                 PROVE  BuildCommand(pkt, a) = Means(c.tag, c.p)
      BY DEF IntsMean
    <3>1. BuildCommand(pkt, a) = BuildSystem("/sys/ambi_order", a)
      BY BuildFamily DEF SystemVerbs, HasInts
    <3> QED BY <1>3, <2>1, <3>1 DEF HasInts, BuildSystem, Least
  <2>4. Dispatched(c, "Legacy") = [tag |-> c.tag, seq |-> c.seq, id |-> c.id, p |-> c.p]
    BY <2>2, <2>3, OneInt
  <2> QED BY <1>0, <1>3, <2>4 DEF Carried, HasWord, LegacyLacks
<1>4. CASE c.tag = "SysAmbiDecoderType"
  <2>1. c.p = <<c.p[1]>> /\ c.p[1] \in 0 .. 4
    BY <1>4 DEF WellFormed, One
  <2>2. /\ Encode(c, "Legacy") = Prefixed(c, "/sys/ambi_decoder_type", -1, <<IntArg(c.p[1])>>)
        /\ "/sys/ambi_decoder_type" \notin AdmVerbs \cup {"none"}
    BY <1>4, <2>1, EncodeFamily DEF EncodeSystem, SystemTags, AdmVerbs
  <2>3. IntsMean("/sys/ambi_decoder_type", c.p[1], 0, Means(c.tag, c.p))
    <3> SUFFICES ASSUME NEW pkt, NEW a, HasInts(pkt, a, "/sys/ambi_decoder_type", c.p[1], 0)
                 PROVE  BuildCommand(pkt, a) = Means(c.tag, c.p)
      BY DEF IntsMean
    <3>1. BuildCommand(pkt, a) = BuildSystem("/sys/ambi_decoder_type", a)
      BY BuildFamily DEF SystemVerbs, HasInts
    <3> QED BY <1>4, <2>1, <3>1 DEF HasInts, BuildSystem
  <2>4. Dispatched(c, "Legacy") = [tag |-> c.tag, seq |-> c.seq, id |-> c.id, p |-> c.p]
    BY <2>2, <2>3, OneInt
  <2> QED BY <1>0, <1>4, <2>4 DEF Carried, HasWord, LegacyLacks
<1>5. CASE c.tag = "SysLtcChase"
  <2>1. c.p = <<c.p[1]>> /\ c.p[1] \in BOOLEAN
    BY <1>5 DEF WellFormed, One
  <2>2. /\ Encode(c, "Legacy") = Prefixed(c, "/sys/ltc_chase", -1, <<IntArg(Bit(c.p[1]))>>)
        /\ "/sys/ltc_chase" \notin AdmVerbs \cup {"none"}
    BY <1>5, <2>1, EncodeFamily DEF EncodeSystem, SystemTags, AdmVerbs
  <2>3. IntsMean("/sys/ltc_chase", Bit(c.p[1]), 0, Means(c.tag, c.p))
    <3> SUFFICES ASSUME NEW pkt, NEW a, HasInts(pkt, a, "/sys/ltc_chase", Bit(c.p[1]), 0)
                 PROVE  BuildCommand(pkt, a) = Means(c.tag, c.p)
      BY DEF IntsMean
    <3>1. BuildCommand(pkt, a) = BuildSystem("/sys/ltc_chase", a)
      BY BuildFamily DEF SystemVerbs, HasInts
    <3> QED BY <1>5, <2>1, <3>1 DEF HasInts, BuildSystem, Bit
  <2>4. Dispatched(c, "Legacy") = [tag |-> c.tag, seq |-> c.seq, id |-> c.id, p |-> c.p]
    BY <2>2, <2>3, OneInt
  <2> QED BY <1>0, <1>5, <2>4 DEF Carried, HasWord, LegacyLacks
<1>6. CASE c.tag = "ReverbSelect"
  <2>1. c.p = <<c.p[1]>> /\ c.p[1] \in {0, 1}
    BY <1>6 DEF WellFormed, One
  <2>2. /\ Encode(c, "Legacy") =
               Prefixed(c, "/reverb/select", -1,
                        <<TextArg(Word(IF c.p[1] = 1 THEN "ir" ELSE "fdn"))>>)
        /\ "/reverb/select" \notin AdmVerbs \cup {"none"}
    BY <1>6, <2>1, EncodeFamily DEF EncodeSystem, SystemTags, AdmVerbs
  <2>3. TextsMean("/reverb/select", -1, Word(IF c.p[1] = 1 THEN "ir" ELSE "fdn"),
                  NoText, Means(c.tag, c.p))
    <3> SUFFICES ASSUME NEW pkt, NEW a,
                        HasTexts(pkt, a, "/reverb/select", -1, Word(IF c.p[1] = 1 THEN "ir" ELSE "fdn"),
                                 NoText)
                 PROVE  BuildCommand(pkt, a) = Means(c.tag, c.p)
      BY DEF TextsMean
    <3>1. BuildCommand(pkt, a) = BuildSystem("/reverb/select", a)
      BY BuildFamily DEF SystemVerbs, HasTexts
    <3> QED BY <1>6, <2>1, <3>1 DEF HasTexts, BuildSystem, Word
  <2>4. Dispatched(c, "Legacy") = [tag |-> c.tag, seq |-> c.seq, id |-> c.id, p |-> c.p]
    BY <2>2, <2>3, OneText
  <2> QED BY <1>0, <1>6, <2>4 DEF Carried, HasWord, LegacyLacks
<1>7. CASE c.tag = "SysHandshake"
  <2>1. c.p = <<c.p[1], c.p[2], c.p[3]>> /\ c.p[1] \in Port /\ c.p[2] \in Port
    BY <1>7 DEF WellFormed
  <2>2. Encode(c, "Legacy") =
           Prefixed(c, "/sys/handshake", -1,
                    IF c.p[2] # 0 THEN <<IntArg(c.p[1]), IntArg(c.p[2])>> ELSE <<IntArg(c.p[1])>>)
    <3>1. Encode(c, "Legacy") =
             Prefixed(c, "/sys/handshake", -1,
                      <<IntArg(c.p[1])>> \o IF c.p[2] # 0 THEN <<IntArg(c.p[2])>> ELSE <<>>)
      BY <1>7, EncodeFamily DEF EncodeSystem, SystemTags
    <3>2. \A x, y : <<x>> \o <<y>> = <<x, y>> /\ <<x>> \o <<>> = <<x>>
      BY OneAndMore
    <3>3. CASE c.p[2] # 0
      BY <3>1, <3>2, <3>3
    <3>4. CASE c.p[2] = 0
      BY <3>1, <3>2, <3>4
    <3> QED BY <3>3, <3>4
  <2>3. IntsMean("/sys/handshake", c.p[1], c.p[2], Means(c.tag, <<c.p[1], c.p[2], NoText>>))
    BY <1>7, <2>1, HandshakeMeans
  <2>4. "/sys/handshake" \notin AdmVerbs \cup {"none"}
    BY DEF AdmVerbs
  <2>5. Dispatched(c, "Legacy") =
           [tag |-> c.tag, seq |-> c.seq, id |-> c.id, p |-> <<c.p[1], c.p[2], NoText>>]
    <3>1. CASE c.p[2] # 0
      <4>1. Encode(c, "Legacy") =
               Prefixed(c, "/sys/handshake", -1, <<IntArg(c.p[1]), IntArg(c.p[2])>>)
        BY <2>2, <3>1
      <4> QED BY <2>3, <2>4, <4>1, TwoInts
    <3>2. CASE c.p[2] = 0
      <4>1. /\ Encode(c, "Legacy") = Prefixed(c, "/sys/handshake", -1, <<IntArg(c.p[1])>>)
            /\ IntsMean("/sys/handshake", c.p[1], 0, Means(c.tag, <<c.p[1], c.p[2], NoText>>))
        BY <2>2, <2>3, <3>2
      <4> QED BY <2>4, <4>1, OneInt
    <3> QED BY <3>1, <3>2
  <2>6. Carried(c, "Legacy") = [c EXCEPT !.p[3] = NoText]
    BY <1>7 DEF Carried, HasWord, LegacyLacks
  <2>7. [c.p EXCEPT ![3] = NoText] = <<c.p[1], c.p[2], NoText>>
    BY <2>1
  <2> QED BY <1>0, <2>5, <2>6, <2>7
<1> QED BY <1>1, <1>2, <1>3, <1>4, <1>5, <1>6, <1>7 DEF SystemTags

-----------------------------------------------------------------------------
(* The ADM dialect                                                          *)

\* Nothing is shifted: a packet of floats, one int or one text is read as it
\* was written.
LEMMA AdmReads ==
    ASSUME NEW verb, verb \in AdmVerbs, NEW n, NEW args, NEW len, NEW m, NEW q,
           ArgumentsOf(args, len, m, q), len <= 3, m = 0 \/ len = 1,
           NEW pkt, pkt = Packet(verb, n, args), NEW a, a = OscArgs(pkt)
    PROVE  /\ pkt # NotEncodable
           /\ m = 1 => Nth(a.ints, 1, 0) = args[1][2]
           /\ q = "f" => \A k \in 1 .. 3 : m + k <= len => GetFloat(a, k) = args[m + k][2]
           /\ q = "s" /\ m < len => GetString(a, 1) = args[m + 1][2]
           /\ Decode(pkt) = [tag |-> DecodeAdm(verb, n, a).tag, seq |-> 0, id |-> 0,
                             p |-> DecodeAdm(verb, n, a).p]
<1>1. /\ len \in 0 .. 8 /\ m \in 0 .. len /\ q \in Kinds
      /\ \A k \in 1 .. len : args[k][1] = IF k <= m THEN "i" ELSE q
  BY DEF ArgumentsOf
<1>2. /\ pkt.verb = verb /\ pkt.n = n /\ Parses(pkt) /\ a.tags = pkt.tags
      /\ DOMAIN pkt.tags = 1 .. len /\ \A k \in 1 .. len : pkt.tags[k] = args[k][1]
      /\ Holds(a.ints, args, m, 0)
      /\ Holds(a.floats, args, IF q = "f" THEN len ELSE m, m)
      /\ Holds(a.strings, args, IF q = "s" THEN len ELSE m, m)
  BY ArgumentsTaken
<1>3. Prefix(a) = 0
  <2>1. CASE m = 0
    BY <1>1, <1>2, <2>1 DEF Prefix, Nth, Kinds
  <2>2. CASE len = 1
    BY <1>1, <1>2, <2>2 DEF Prefix, Nth
  <2> QED BY <2>1, <2>2
<1>4. m = 1 => Nth(a.ints, 1, 0) = args[1][2]
  BY <1>1, <1>2 DEF Holds, Nth
<1>5. q = "f" => \A k \in 1 .. 3 : m + k <= len => GetFloat(a, k) = args[m + k][2]
  BY <1>1, <1>2 DEF Holds, Nth, GetFloat
<1>6. q = "s" /\ m < len => GetString(a, 1) = args[m + 1][2]
  BY <1>1, <1>2 DEF Holds, Nth, GetString
<1>7. BuildCommand(pkt, a) = DecodeAdm(verb, n, a)
  BY <1>2, BuildFamily
<1>8. Decode(pkt) = [tag |-> BuildCommand(pkt, a).tag, seq |-> 0, id |-> 0,
                     p |-> BuildCommand(pkt, a).p]
  <2>1. Prefix(a) # 2
    BY <1>3
  <2> QED BY <1>2, <2>1 DEF Decode
<1>9. pkt # NotEncodable
  BY <1>2 DEF NotEncodable, AdmVerbs
<1> QED BY <1>4, <1>5, <1>6, <1>7, <1>8, <1>9

\* Angles and distances that the units can carry.
OnGrid(c) ==
    c.tag = "ObjMove" => /\ c.p[2] % RadUnit = 0 /\ c.p[3] % RadUnit = 0
                         /\ c.p[4] % MaxDist = 0

LEMMA Converted ==
    ASSUME NEW x \in Int
    PROVE  /\ x % RadUnit = 0 => (x \div RadUnit) * RadUnit = x
           /\ x % MaxDist = 0 => (x \div MaxDist) * MaxDist = x
BY DEF RadUnit, MaxDist

\* What the decoded packet means is what was written.
LEMMA AdmComesBack ==
    ASSUME NEW c, NEW verb, verb \in AdmVerbs, NEW args, NEW len, NEW m, NEW q,
           ArgumentsOf(args, len, m, q), len <= 3, m = 0 \/ len = 1,
           Encode(c, "AdmV1") = Packet(verb, c.p[1], args),
           DecodeAdm(verb, c.p[1], OscArgs(Packet(verb, c.p[1], args))) = Means(c.tag, c.p)
    PROVE  Dispatched(c, "AdmV1") = [tag |-> c.tag, seq |-> 0, id |-> 0, p |-> c.p]
<1> DEFINE pkt == Packet(verb, c.p[1], args)
           a == OscArgs(pkt)
<1>1. /\ pkt # NotEncodable
      /\ Decode(pkt) = [tag |-> DecodeAdm(verb, c.p[1], a).tag, seq |-> 0, id |-> 0,
                        p |-> DecodeAdm(verb, c.p[1], a).p]
  BY AdmReads
<1>2. Dispatched(c, "AdmV1") = Decode(pkt)
  BY <1>1 DEF Dispatched
<1> HIDE DEF pkt, a
<1>3. DecodeAdm(verb, c.p[1], a) = Means(c.tag, c.p)
  BY DEF pkt, a
<1> QED BY <1>1, <1>2, <1>3 DEF Means

LEMMA AdmCarried ==
    ASSUME NEW c, WellFormed(c), OnGrid(c), c.tag \in AdmTags
    PROVE  Dispatched(c, "AdmV1") = Carried(c, "AdmV1")
<1>1. /\ c = [tag |-> c.tag, seq |-> c.seq, id |-> c.id, p |-> c.p]
      /\ Carried(c, "AdmV1") = [c EXCEPT !.seq = 0, !.id = 0]
  BY DEF WellFormed, Carried, HasWord
<1>2. Encode(c, "AdmV1") = EncodeAdm(c)
  BY DEF Encode
<1>3. SUFFICES Dispatched(c, "AdmV1") = [tag |-> c.tag, seq |-> 0, id |-> 0, p |-> c.p]
  BY <1>1
<1>4. CASE c.tag = "ObjMove"
  <2> DEFINE args == <<FloatArg(c.p[2] \div RadUnit), FloatArg(c.p[3] \div RadUnit),
                       FloatArg(c.p[4] \div MaxDist)>>
             a == OscArgs(Packet("/adm/obj/N/aed", c.p[1], args))
  <2>1. /\ c.p = <<c.p[1], c.p[2], c.p[3], c.p[4]>> /\ c.p[1] \in Nat
        /\ c.p[2] \in Int /\ c.p[3] \in Int /\ c.p[4] \in Int
    BY <1>4 DEF WellFormed
  <2>2. Encode(c, "AdmV1") = Packet("/adm/obj/N/aed", c.p[1], args)
    BY <1>2, <1>4 DEF EncodeAdm
  <2>3. /\ ArgumentsOf(args, 3, 0, "f")
        /\ args[1][2] = c.p[2] \div RadUnit
        /\ args[2][2] = c.p[3] \div RadUnit /\ args[3][2] = c.p[4] \div MaxDist
    BY DEF ArgumentsOf, Kinds, FloatArg
  <2> HIDE DEF args
  <2>4. "/adm/obj/N/aed" \in AdmVerbs /\ 3 <= 3
    BY DEF AdmVerbs
  <2>5. GetFloat(a, 1) = args[1][2] /\ GetFloat(a, 2) = args[2][2] /\ GetFloat(a, 3) = args[3][2]
    BY <2>3, <2>4, AdmReads
  <2> HIDE DEF a
  <2>6. DecodeAdm("/adm/obj/N/aed", c.p[1], a) = Means(c.tag, c.p)
    <3>1. /\ GetFloat(a, 1) * RadUnit = c.p[2] /\ GetFloat(a, 2) * RadUnit = c.p[3]
          /\ GetFloat(a, 3) * MaxDist = c.p[4]
      BY <1>4, <2>1, <2>3, <2>5, Converted DEF OnGrid
    <3>2. ~(c.p[1] < 0) /\ c.p[1] >= 0
      BY <2>1
    <3> QED BY <1>4, <2>1, <3>1, <3>2 DEF DecodeAdm
  <2> QED BY <2>2, <2>3, <2>4, <2>6, AdmComesBack DEF a
<1>5. CASE c.tag = "ObjGain"
  <2> DEFINE args == <<FloatArg(c.p[2])>>
             a == OscArgs(Packet("/adm/obj/N/gain", c.p[1], args))
  <2>1. c.p = <<c.p[1], c.p[2]>> /\ c.p[1] \in Nat
    BY <1>5 DEF WellFormed
  <2>2. Encode(c, "AdmV1") = Packet("/adm/obj/N/gain", c.p[1], args)
    BY <1>2, <1>5 DEF EncodeAdm
  <2>3. ArgumentsOf(args, 1, 0, "f") /\ args[1][2] = c.p[2]
    BY DEF ArgumentsOf, Kinds, FloatArg
  <2> HIDE DEF args
  <2>4. "/adm/obj/N/gain" \in AdmVerbs /\ 1 <= 3
    BY DEF AdmVerbs
  <2>5. GetFloat(a, 1) = args[1][2]
    BY <2>3, <2>4, AdmReads
  <2> HIDE DEF a
  <2>6. DecodeAdm("/adm/obj/N/gain", c.p[1], a) = Means(c.tag, c.p)
    <3>2. ~(c.p[1] < 0) /\ c.p[1] >= 0
      BY <2>1
    <3> QED BY <1>5, <2>1, <2>3, <2>5, <3>2 DEF DecodeAdm
  <2> QED BY <2>2, <2>3, <2>4, <2>6, AdmComesBack DEF a
<1>6. CASE c.tag = "ObjMute"
  <2> DEFINE args == <<IntArg(Bit(c.p[2]))>>
             a == OscArgs(Packet("/adm/obj/N/mute", c.p[1], args))
  <2>1. c.p = <<c.p[1], c.p[2]>> /\ c.p[1] \in Nat /\ c.p[2] \in BOOLEAN
    BY <1>6 DEF WellFormed
  <2>2. Encode(c, "AdmV1") = Packet("/adm/obj/N/mute", c.p[1], args)
    BY <1>2, <1>6 DEF EncodeAdm
  <2>3. ArgumentsOf(args, 1, 1, "f") /\ args[1][2] = Bit(c.p[2])
    BY DEF ArgumentsOf, Kinds, IntArg
  <2> HIDE DEF args
  <2>4. "/adm/obj/N/mute" \in AdmVerbs /\ 1 <= 3
    BY DEF AdmVerbs
  <2>5. Nth(a.ints, 1, 0) = args[1][2]
    BY <2>3, <2>4, AdmReads
  <2> HIDE DEF a
  <2>6. DecodeAdm("/adm/obj/N/mute", c.p[1], a) = Means(c.tag, c.p)
    <3>2. ~(c.p[1] < 0) /\ c.p[1] >= 0
      BY <2>1
    <3> QED BY <1>6, <2>1, <2>3, <2>5, <3>2 DEF DecodeAdm, Bit
  <2> QED BY <2>2, <2>3, <2>4, <2>6, AdmComesBack DEF a
<1>7. CASE c.tag = "ObjXYZ"
  <2> DEFINE args == <<FloatArg(c.p[2]), FloatArg(c.p[3]), FloatArg(c.p[4])>>
             a == OscArgs(Packet("/adm/obj/N/xyz", c.p[1], args))
  <2>1. c.p = <<c.p[1], c.p[2], c.p[3], c.p[4]>> /\ c.p[1] \in Nat
    BY <1>7 DEF WellFormed
  <2>2. Encode(c, "AdmV1") = Packet("/adm/obj/N/xyz", c.p[1], args)
    BY <1>2, <1>7 DEF EncodeAdm
  <2>3. /\ ArgumentsOf(args, 3, 0, "f")
        /\ args[1][2] = c.p[2] /\ args[2][2] = c.p[3] /\ args[3][2] = c.p[4]
    BY DEF ArgumentsOf, Kinds, FloatArg
  <2> HIDE DEF args
  <2>4. "/adm/obj/N/xyz" \in AdmVerbs /\ 3 <= 3
    BY DEF AdmVerbs
  <2>5. GetFloat(a, 1) = args[1][2] /\ GetFloat(a, 2) = args[2][2] /\ GetFloat(a, 3) = args[3][2]
    BY <2>3, <2>4, AdmReads
  <2> HIDE DEF a
  <2>6. DecodeAdm("/adm/obj/N/xyz", c.p[1], a) = Means(c.tag, c.p)
    <3>2. ~(c.p[1] < 0) /\ c.p[1] >= 0
      BY <2>1
    <3> QED BY <1>7, <2>1, <2>3, <2>5, <3>2 DEF DecodeAdm
  <2> QED BY <2>2, <2>3, <2>4, <2>6, AdmComesBack DEF a
<1>8. CASE c.tag = "ObjActiveAdm"
  <2> DEFINE args == <<IntArg(Bit(c.p[2]))>>
             a == OscArgs(Packet("/adm/obj/N/active", c.p[1], args))
  <2>1. c.p = <<c.p[1], c.p[2]>> /\ c.p[1] \in Nat /\ c.p[2] \in BOOLEAN
    BY <1>8 DEF WellFormed
  <2>2. Encode(c, "AdmV1") = Packet("/adm/obj/N/active", c.p[1], args)
    BY <1>2, <1>8 DEF EncodeAdm
  <2>3. ArgumentsOf(args, 1, 1, "f") /\ args[1][2] = Bit(c.p[2])
    BY DEF ArgumentsOf, Kinds, IntArg
  <2> HIDE DEF args
  <2>4. "/adm/obj/N/active" \in AdmVerbs /\ 1 <= 3
    BY DEF AdmVerbs
  <2>5. Nth(a.ints, 1, 0) = args[1][2]
    BY <2>3, <2>4, AdmReads
  <2> HIDE DEF a
  <2>6. DecodeAdm("/adm/obj/N/active", c.p[1], a) = Means(c.tag, c.p)
    <3>2. ~(c.p[1] < 0) /\ c.p[1] >= 0
      BY <2>1
    <3> QED BY <1>8, <2>1, <2>3, <2>5, <3>2 DEF DecodeAdm, Bit
  <2> QED BY <2>2, <2>3, <2>4, <2>6, AdmComesBack DEF a
<1>9. CASE c.tag = "ObjWidth"
  <2> DEFINE args == <<FloatArg(c.p[2])>>
             a == OscArgs(Packet("/adm/obj/N/width", c.p[1], args))
  <2>1. c.p = <<c.p[1], c.p[2]>> /\ c.p[1] \in Nat
    BY <1>9 DEF WellFormed
  <2>2. Encode(c, "AdmV1") = Packet("/adm/obj/N/width", c.p[1], args)
    BY <1>2, <1>9 DEF EncodeAdm
  <2>3. ArgumentsOf(args, 1, 0, "f") /\ args[1][2] = c.p[2]
    BY DEF ArgumentsOf, Kinds, FloatArg
  <2> HIDE DEF args
  <2>4. "/adm/obj/N/width" \in AdmVerbs /\ 1 <= 3
    BY DEF AdmVerbs
  <2>5. GetFloat(a, 1) = args[1][2]
    BY <2>3, <2>4, AdmReads
  <2> HIDE DEF a
  <2>6. DecodeAdm("/adm/obj/N/width", c.p[1], a) = Means(c.tag, c.p)
    <3>2. ~(c.p[1] < 0) /\ c.p[1] >= 0
      BY <2>1
    <3> QED BY <1>9, <2>1, <2>3, <2>5, <3>2 DEF DecodeAdm
  <2> QED BY <2>2, <2>3, <2>4, <2>6, AdmComesBack DEF a
<1>10. CASE c.tag = "ObjName"
  <2> DEFINE args == <<TextArg(c.p[2])>>
             a == OscArgs(Packet("/adm/obj/N/name", c.p[1], args))
  <2>1. c.p = <<c.p[1], c.p[2]>> /\ c.p[1] \in Nat /\ Cut(c.p[2], 31) = c.p[2]
    BY <1>10, CutFits DEF WellFormed
  <2>2. Encode(c, "AdmV1") = Packet("/adm/obj/N/name", c.p[1], args)
    BY <1>2, <1>10 DEF EncodeAdm
  <2>3. ArgumentsOf(args, 1, 0, "s") /\ args[1][2] = c.p[2]
    BY DEF ArgumentsOf, Kinds, TextArg
  <2> HIDE DEF args
  <2>4. "/adm/obj/N/name" \in AdmVerbs /\ 1 <= 3
    BY DEF AdmVerbs
  <2>5. GetString(a, 1) = args[1][2]
    BY <2>3, <2>4, AdmReads
  <2> HIDE DEF a
  <2>6. DecodeAdm("/adm/obj/N/name", c.p[1], a) = Means(c.tag, c.p)
    <3>2. ~(c.p[1] < 0) /\ c.p[1] >= 0
      BY <2>1
    <3> QED BY <1>10, <2>1, <2>3, <2>5, <3>2 DEF DecodeAdm
  <2> QED BY <2>2, <2>3, <2>4, <2>6, AdmComesBack DEF a
<1> QED BY <1>4, <1>5, <1>6, <1>7, <1>8, <1>9, <1>10 DEF AdmTags

-----------------------------------------------------------------------------
(* All commands                                                             *)

\* A command that is in none of a dialect's families is left as it is.
LEMMA NoWord ==
    ASSUME NEW c
    PROVE  /\ c.tag \notin AdmTags =>
                 Dispatched(c, "AdmV1") = c /\ Carried(c, "AdmV1") = c
           /\ c.tag \notin UNION {ObjectTags, SystemTags, BinauralTags, HeartbeatTags, SceneTags,
                                  TransportTags, ChannelTags} =>
                 Dispatched(c, "Legacy") = c /\ Carried(c, "Legacy") = c
<1>1. ASSUME c.tag \notin AdmTags
      PROVE  Dispatched(c, "AdmV1") = c /\ Carried(c, "AdmV1") = c
  <2>1. Encode(c, "AdmV1") = NotEncodable
    BY <1>1 DEF Encode
  <2> QED BY <1>1, <2>1 DEF Dispatched, Carried, HasWord
<1>2. ASSUME c.tag \notin UNION {ObjectTags, SystemTags, BinauralTags, HeartbeatTags, SceneTags,
                                 TransportTags, ChannelTags}
      PROVE  Dispatched(c, "Legacy") = c /\ Carried(c, "Legacy") = c
  <2>1. /\ c.tag \notin ObjectTags /\ c.tag \notin SystemTags /\ c.tag \notin BinauralTags
        /\ c.tag \notin HeartbeatTags /\ c.tag \notin SceneTags /\ c.tag \notin TransportTags
        /\ c.tag \notin ChannelTags
    BY <1>2
  <2>2. Encode(c, "Legacy") = NotEncodable
    BY <2>1 DEF Encode
  <2>3. c.tag \notin {"SysHandshake", "TransportPlay", "HbPing"}
    BY <2>1 DEF SystemTags, TransportTags, HeartbeatTags
  <2> QED BY <2>2, <2>3 DEF Dispatched, Carried, HasWord
<1> QED BY <1>1, <1>2

\* CommandDecoder's encode and decode: whatever the fields of a command are (of
\* their types, and angles and distances that the units of the ADM dialect
\* carry), each dialect carries all that it has words for.
THEOREM WellFormedCarried ==
    ASSUME NEW c, WellFormed(c)
    PROVE  /\ Dispatched(c, "Legacy") = Carried(c, "Legacy")
           /\ OnGrid(c) => Dispatched(c, "AdmV1") = Carried(c, "AdmV1")
<1>1. Dispatched(c, "Legacy") = Carried(c, "Legacy")
  BY ObjectCarried, SystemCarried, BinauralCarried, HeartbeatCarried, SceneCarried,
     TransportCarried, ChannelCarried, NoWord
<1>2. OnGrid(c) => Dispatched(c, "AdmV1") = Carried(c, "AdmV1")
  BY AdmCarried, NoWord
<1> QED BY <1>1, <1>2

LEMMA TextsTyped ==
    /\ \A s \in Texts : IsName(s, 63) /\ IsText(s)
    /\ \A s \in Labels : IsName(s, 31)
    /\ \A s \in Paths : IsText(s) /\ (s # NoText => s.len > 0)
BY DEF Texts, Labels, Paths, IsName, IsText, NoText
LEMMA TagAndFields ==
    ASSUME NEW tag, NEW payloads, NEW c \in OfTag(tag, payloads)
    PROVE  /\ c = [tag |-> c.tag, seq |-> c.seq, id |-> c.id, p |-> c.p]
           /\ c.tag = tag /\ c.p \in payloads
BY DEF OfTag

LEMMA ObjectCommandsFit == \A c \in ObjectCommands : WellFormed(c) /\ OnGrid(c)
<1> SUFFICES ASSUME NEW c \in ObjectCommands PROVE WellFormed(c) /\ OnGrid(c)
  OBVIOUS
<1>1. CASE c \in OfTag("ObjMove", Ids \X Numbers \X Numbers \X Numbers)
  <2>1. /\ c = [tag |-> c.tag, seq |-> c.seq, id |-> c.id, p |-> c.p]
        /\ c.tag = "ObjMove" /\ c.p \in Ids \X Numbers \X Numbers \X Numbers
    BY <1>1, TagAndFields
  <2>2. c.p \in Nat \X Int \X Int \X Int
        /\ c.p[2] % RadUnit = 0 /\ c.p[3] % RadUnit = 0 /\ c.p[4] % MaxDist = 0
    BY <2>1 DEF Ids, Numbers, RadUnit, MaxDist
  <2> QED BY <2>1, <2>2 DEF WellFormed, OnGrid, BareTags
<1>2. CASE c \in OfTag("ObjGain", Ids \X Numbers)
  <2>1. /\ c = [tag |-> c.tag, seq |-> c.seq, id |-> c.id, p |-> c.p]
        /\ c.tag = "ObjGain" /\ c.p \in Ids \X Numbers
    BY <1>2, TagAndFields
  <2>2. c.p \in Nat \X Int
    BY <2>1 DEF Ids, Numbers
  <2> QED BY <2>1, <2>2 DEF WellFormed, OnGrid, BareTags
<1>3. CASE c \in OfTag("ObjActive", Ids \X BOOLEAN)
  <2>1. /\ c = [tag |-> c.tag, seq |-> c.seq, id |-> c.id, p |-> c.p]
        /\ c.tag = "ObjActive" /\ c.p \in Ids \X BOOLEAN
    BY <1>3, TagAndFields
  <2>2. c.p \in Nat \X BOOLEAN
    BY <2>1 DEF Ids
  <2> QED BY <2>1, <2>2 DEF WellFormed, OnGrid, BareTags
<1>4. CASE c \in OfTag("ObjAlgo", Ids \X {"VBAP", "WFS", "DBAP", "Ambisonic"})
  <2>1. /\ c = [tag |-> c.tag, seq |-> c.seq, id |-> c.id, p |-> c.p]
        /\ c.tag = "ObjAlgo" /\ c.p \in Ids \X {"VBAP", "WFS", "DBAP", "Ambisonic"}
    BY <1>4, TagAndFields
  <2>2. c.p \in Nat \X Algorithms
    BY <2>1 DEF Ids, Algorithms
  <2> QED BY <2>1, <2>2 DEF WellFormed, OnGrid, BareTags
<1>5. CASE c \in OfTag("ObjDsp", Ids \X (0 .. 7) \X Numbers)
  <2>1. /\ c = [tag |-> c.tag, seq |-> c.seq, id |-> c.id, p |-> c.p]
        /\ c.tag = "ObjDsp" /\ c.p \in Ids \X (0 .. 7) \X Numbers
    BY <1>5, TagAndFields
  <2>2. c.p \in Nat \X (0 .. 7) \X Int
    BY <2>1 DEF Ids, Numbers
  <2> QED BY <2>1, <2>2 DEF WellFormed, OnGrid, BareTags
<1>6. CASE c \in OfTag("ObjMute", Ids \X BOOLEAN)
  <2>1. /\ c = [tag |-> c.tag, seq |-> c.seq, id |-> c.id, p |-> c.p]
        /\ c.tag = "ObjMute" /\ c.p \in Ids \X BOOLEAN
    BY <1>6, TagAndFields
  <2>2. c.p \in Nat \X BOOLEAN
    BY <2>1 DEF Ids
  <2> QED BY <2>1, <2>2 DEF WellFormed, OnGrid, BareTags
<1>7. CASE c \in OfTag("ObjActiveAdm", Ids \X BOOLEAN)
  <2>1. /\ c = [tag |-> c.tag, seq |-> c.seq, id |-> c.id, p |-> c.p]
        /\ c.tag = "ObjActiveAdm" /\ c.p \in Ids \X BOOLEAN
    BY <1>7, TagAndFields
  <2>2. c.p \in Nat \X BOOLEAN
    BY <2>1 DEF Ids
  <2> QED BY <2>1, <2>2 DEF WellFormed, OnGrid, BareTags
<1>8. CASE c \in OfTag("ObjXYZ", Ids \X Numbers \X Numbers \X Numbers)
  <2>1. /\ c = [tag |-> c.tag, seq |-> c.seq, id |-> c.id, p |-> c.p]
        /\ c.tag = "ObjXYZ" /\ c.p \in Ids \X Numbers \X Numbers \X Numbers
    BY <1>8, TagAndFields
  <2>2. c.p \in Nat \X Int \X Int \X Int
    BY <2>1 DEF Ids, Numbers
  <2> QED BY <2>1, <2>2 DEF WellFormed, OnGrid, BareTags
<1>9. CASE c \in OfTag("ObjWidth", Ids \X Numbers)
  <2>1. /\ c = [tag |-> c.tag, seq |-> c.seq, id |-> c.id, p |-> c.p]
        /\ c.tag = "ObjWidth" /\ c.p \in Ids \X Numbers
    BY <1>9, TagAndFields
  <2>2. c.p \in Nat \X Int
    BY <2>1 DEF Ids, Numbers
  <2> QED BY <2>1, <2>2 DEF WellFormed, OnGrid, BareTags
<1>10. CASE c \in OfTag("ObjName", Ids \X Labels)
  <2>1. /\ c = [tag |-> c.tag, seq |-> c.seq, id |-> c.id, p |-> c.p]
        /\ c.tag = "ObjName" /\ c.p \in Ids \X Labels
    BY <1>10, TagAndFields
  <2>2. c.p = <<c.p[1], c.p[2]>> /\ c.p[1] \in Nat /\ IsName(c.p[2], 31)
    BY <2>1, TextsTyped DEF Ids
  <2> QED BY <2>1, <2>2 DEF WellFormed, OnGrid, BareTags
<1> QED BY <1>1, <1>2, <1>3, <1>4, <1>5, <1>6, <1>7, <1>8, <1>9, <1>10 DEF ObjectCommands

LEMMA SystemCommandsFit == \A c \in SystemCommands : WellFormed(c) /\ OnGrid(c)
<1> SUFFICES ASSUME NEW c \in SystemCommands PROVE WellFormed(c) /\ OnGrid(c)
  OBVIOUS
<1>1. CASE c \in OfTag("SysHandshake", {0, 1, 65535} \X {0, 1, 65535} \X Texts)
  <2>1. /\ c = [tag |-> c.tag, seq |-> c.seq, id |-> c.id, p |-> c.p]
        /\ c.tag = "SysHandshake" /\ c.p \in {0, 1, 65535} \X {0, 1, 65535} \X Texts
    BY <1>1, TagAndFields
  <2>2. c.p = <<c.p[1], c.p[2], c.p[3]>> /\ c.p[1] \in Port /\ c.p[2] \in Port
    BY <2>1 DEF Port
  <2> QED BY <2>1, <2>2 DEF WellFormed, OnGrid, BareTags
<1>2. CASE c \in OfTag("SysAlgoSwap", One({"VBAP", "WFS", "DBAP", "Ambisonic"}))
  <2>1. /\ c = [tag |-> c.tag, seq |-> c.seq, id |-> c.id, p |-> c.p]
        /\ c.tag = "SysAlgoSwap" /\ c.p \in One({"VBAP", "WFS", "DBAP", "Ambisonic"})
    BY <1>2, TagAndFields
  <2>2. c.p \in One(Algorithms)
    BY <2>1 DEF Algorithms
  <2> QED BY <2>1, <2>2 DEF WellFormed, OnGrid, BareTags
<1>3. CASE c \in OfTag("SysReset", {<<>>})
  <2>1. /\ c = [tag |-> c.tag, seq |-> c.seq, id |-> c.id, p |-> c.p]
        /\ c.tag = "SysReset" /\ c.p \in {<<>>}
    BY <1>3, TagAndFields
  <2> QED BY <2>1 DEF WellFormed, OnGrid, BareTags
<1>4. CASE c \in OfTag("SysAmbiOrder", One(1 .. 3))
  <2>1. /\ c = [tag |-> c.tag, seq |-> c.seq, id |-> c.id, p |-> c.p]
        /\ c.tag = "SysAmbiOrder" /\ c.p \in One(1 .. 3)
    BY <1>4, TagAndFields
  <2> QED BY <2>1 DEF WellFormed, OnGrid, BareTags
<1>5. CASE c \in OfTag("SysAmbiDecoderType", One(0 .. 4))
  <2>1. /\ c = [tag |-> c.tag, seq |-> c.seq, id |-> c.id, p |-> c.p]
        /\ c.tag = "SysAmbiDecoderType" /\ c.p \in One(0 .. 4)
    BY <1>5, TagAndFields
  <2> QED BY <2>1 DEF WellFormed, OnGrid, BareTags
<1>6. CASE c \in OfTag("SysLtcChase", One(BOOLEAN))
  <2>1. /\ c = [tag |-> c.tag, seq |-> c.seq, id |-> c.id, p |-> c.p]
        /\ c.tag = "SysLtcChase" /\ c.p \in One(BOOLEAN)
    BY <1>6, TagAndFields
  <2> QED BY <2>1 DEF WellFormed, OnGrid, BareTags
<1>7. CASE c \in OfTag("ReverbSelect", One({0, 1}))
  <2>1. /\ c = [tag |-> c.tag, seq |-> c.seq, id |-> c.id, p |-> c.p]
        /\ c.tag = "ReverbSelect" /\ c.p \in One({0, 1})
    BY <1>7, TagAndFields
  <2> QED BY <2>1 DEF WellFormed, OnGrid, BareTags
<1>8. CASE c \in OfTag("SysLoadLayout", One(Paths))
  <2>1. /\ c = [tag |-> c.tag, seq |-> c.seq, id |-> c.id, p |-> c.p]
        /\ c.tag = "SysLoadLayout" /\ c.p \in One(Paths)
    BY <1>8, TagAndFields
  <2>2. c.p = <<c.p[1]>> /\ IsText(c.p[1])
    BY <2>1, TextsTyped DEF One
  <2> QED BY <2>1, <2>2 DEF WellFormed, OnGrid, BareTags
<1>9. CASE c \in OfTag("SysBinauralSofa", One(Paths))
  <2>1. /\ c = [tag |-> c.tag, seq |-> c.seq, id |-> c.id, p |-> c.p]
        /\ c.tag = "SysBinauralSofa" /\ c.p \in One(Paths)
    BY <1>9, TagAndFields
  <2>2. c.p = <<c.p[1]>> /\ IsText(c.p[1])
    BY <2>1, TextsTyped DEF One
  <2> QED BY <2>1, <2>2 DEF WellFormed, OnGrid, BareTags
<1>10. CASE c \in OfTag("SysBinauralSofaSelect", One(Paths \ {NoText}))
  <2>1. /\ c = [tag |-> c.tag, seq |-> c.seq, id |-> c.id, p |-> c.p]
        /\ c.tag = "SysBinauralSofaSelect" /\ c.p \in One(Paths \ {NoText})
    BY <1>10, TagAndFields
  <2>2. c.p = <<c.p[1]>> /\ IsText(c.p[1]) /\ c.p[1].len > 0
    BY <2>1, TextsTyped DEF One
  <2> QED BY <2>1, <2>2 DEF WellFormed, OnGrid, BareTags
<1>11. CASE c \in OfTag("SysBinauralEnable", One(BOOLEAN))
  <2>1. /\ c = [tag |-> c.tag, seq |-> c.seq, id |-> c.id, p |-> c.p]
        /\ c.tag = "SysBinauralEnable" /\ c.p \in One(BOOLEAN)
    BY <1>11, TagAndFields
  <2> QED BY <2>1 DEF WellFormed, OnGrid, BareTags
<1>12. CASE c \in OfTag("SysBinauralMode", One({0, 1}))
  <2>1. /\ c = [tag |-> c.tag, seq |-> c.seq, id |-> c.id, p |-> c.p]
        /\ c.tag = "SysBinauralMode" /\ c.p \in One({0, 1})
    BY <1>12, TagAndFields
  <2> QED BY <2>1 DEF WellFormed, OnGrid, BareTags
<1>13. CASE c \in OfTag("SysBinauralResetDemote", One(BOOLEAN))
  <2>1. /\ c = [tag |-> c.tag, seq |-> c.seq, id |-> c.id, p |-> c.p]
        /\ c.tag = "SysBinauralResetDemote" /\ c.p \in One(BOOLEAN)
    BY <1>13, TagAndFields
  <2> QED BY <2>1 DEF WellFormed, OnGrid, BareTags
<1> QED BY <1>1, <1>2, <1>3, <1>4, <1>5, <1>6, <1>7, <1>8, <1>9, <1>10, <1>11, <1>12, <1>13
           DEF SystemCommands

LEMMA ShowCommandsFit == \A c \in ShowCommands : WellFormed(c) /\ OnGrid(c)
<1> SUFFICES ASSUME NEW c \in ShowCommands PROVE WellFormed(c) /\ OnGrid(c)
  OBVIOUS
<1>1. CASE c \in OfTag("HbPing", Times \X BOOLEAN)
  <2>1. /\ c = [tag |-> c.tag, seq |-> c.seq, id |-> c.id, p |-> c.p]
        /\ c.tag = "HbPing" /\ c.p \in Times \X BOOLEAN
    BY <1>1, TagAndFields
  <2>2. c.p \in Nat \X BOOLEAN
    BY <2>1 DEF Times
  <2> QED BY <2>1, <2>2 DEF WellFormed, OnGrid, BareTags
<1>2. CASE c \in OfTag("HbPong", One(Times))
  <2>1. /\ c = [tag |-> c.tag, seq |-> c.seq, id |-> c.id, p |-> c.p]
        /\ c.tag = "HbPong" /\ c.p \in One(Times)
    BY <1>2, TagAndFields
  <2>2. c.p \in One(Nat)
    BY <2>1 DEF One, Times
  <2> QED BY <2>1, <2>2 DEF WellFormed, OnGrid, BareTags
<1>3. CASE \E tag \in {"SceneSave", "SceneLoad", "SceneDelete"} : c \in OfTag(tag, One(Texts))
  <2>1. /\ c = [tag |-> c.tag, seq |-> c.seq, id |-> c.id, p |-> c.p]
        /\ c.tag \in {"SceneSave", "SceneLoad", "SceneDelete"} /\ c.p \in One(Texts)
    BY <1>3, TagAndFields
  <2>2. c.p = <<c.p[1]>> /\ IsName(c.p[1], 63)
    BY <2>1, TextsTyped DEF One
  <2> QED BY <2>1, <2>2 DEF WellFormed, OnGrid, BareTags
<1>4. CASE \E tag \in {"SceneRename", "SceneDuplicate"} : c \in OfTag(tag, Texts \X Texts)
  <2>1. /\ c = [tag |-> c.tag, seq |-> c.seq, id |-> c.id, p |-> c.p]
        /\ c.tag \in {"SceneRename", "SceneDuplicate"} /\ c.p \in Texts \X Texts
    BY <1>4, TagAndFields
  <2>2. c.p = <<c.p[1], c.p[2]>> /\ IsName(c.p[1], 63) /\ IsName(c.p[2], 63)
    BY <2>1, TextsTyped
  <2> QED BY <2>1, <2>2 DEF WellFormed, OnGrid, BareTags
<1>5. CASE c \in OfTag("SceneMeta", Texts \X Paths)
  <2>1. /\ c = [tag |-> c.tag, seq |-> c.seq, id |-> c.id, p |-> c.p]
        /\ c.tag = "SceneMeta" /\ c.p \in Texts \X Paths
    BY <1>5, TagAndFields
  <2>2. c.p = <<c.p[1], c.p[2]>> /\ IsName(c.p[1], 63) /\ IsText(c.p[2])
    BY <2>1, TextsTyped
  <2> QED BY <2>1, <2>2 DEF WellFormed, OnGrid, BareTags
<1>6. CASE c \in OfTag("CueGo", One({-1, 0, 7}))
  <2>1. /\ c = [tag |-> c.tag, seq |-> c.seq, id |-> c.id, p |-> c.p]
        /\ c.tag = "CueGo" /\ c.p \in One({-1, 0, 7})
    BY <1>6, TagAndFields
  <2>2. c.p \in One(Int)
    BY <2>1 DEF One
  <2> QED BY <2>1, <2>2 DEF WellFormed, OnGrid, BareTags
<1>7. CASE \E tag \in {"SceneList", "CueNext", "CuePrev", "CueStop", "TransportStop"} :
             c \in OfTag(tag, {<<>>})
  <2>1. /\ c = [tag |-> c.tag, seq |-> c.seq, id |-> c.id, p |-> c.p]
        /\ c.tag \in {"SceneList", "CueNext", "CuePrev", "CueStop", "TransportStop"}
        /\ c.p \in {<<>>}
    BY <1>7, TagAndFields
  <2> QED BY <2>1 DEF WellFormed, OnGrid, BareTags
<1>8. CASE c \in OfTag("TransportPlay", One(Times))
  <2>1. /\ c = [tag |-> c.tag, seq |-> c.seq, id |-> c.id, p |-> c.p]
        /\ c.tag = "TransportPlay" /\ c.p \in One(Times)
    BY <1>8, TagAndFields
  <2>2. c.p \in One(Int)
    BY <2>1 DEF One, Times
  <2> QED BY <2>1, <2>2 DEF WellFormed, OnGrid, BareTags
<1>9. CASE c \in OfTag("NoiseType", Ids \X BOOLEAN)
  <2>1. /\ c = [tag |-> c.tag, seq |-> c.seq, id |-> c.id, p |-> c.p]
        /\ c.tag = "NoiseType" /\ c.p \in Ids \X BOOLEAN
    BY <1>9, TagAndFields
  <2>2. c.p \in Nat \X BOOLEAN
    BY <2>1 DEF Ids
  <2> QED BY <2>1, <2>2 DEF WellFormed, OnGrid, BareTags
<1>10. CASE \E tag \in {"NoiseGain", "OutputGain", "OutputLimit"} : c \in OfTag(tag, Ids \X Numbers)
  <2>1. /\ c = [tag |-> c.tag, seq |-> c.seq, id |-> c.id, p |-> c.p]
        /\ c.tag \in {"NoiseGain", "OutputGain", "OutputLimit"} /\ c.p \in Ids \X Numbers
    BY <1>10, TagAndFields
  <2>2. c.p \in Nat \X Int
    BY <2>1 DEF Ids, Numbers
  <2> QED BY <2>1, <2>2 DEF WellFormed, OnGrid, BareTags
<1> QED BY <1>1, <1>2, <1>3, <1>4, <1>5, <1>6, <1>7, <1>8, <1>9, <1>10 DEF ShowCommands

\* Of what the run writes and reads, all is carried.
LEMMA AllCommandsCarried == EveryCommandCarried
<1> SUFFICES ASSUME NEW dialect \in {"Legacy", "AdmV1"}, NEW c \in AllCommands
             PROVE  Dispatched(c, dialect) = Carried(c, dialect)
  BY DEF EveryCommandCarried
<1>1. WellFormed(c) /\ OnGrid(c)
  BY ObjectCommandsFit, SystemCommandsFit, ShowCommandsFit DEF AllCommands
<1>2. /\ Dispatched(c, "Legacy") = Carried(c, "Legacy")
      /\ Dispatched(c, "AdmV1") = Carried(c, "AdmV1")
  BY <1>1, WellFormedCarried
<1> QED BY <1>2

\* WireFaithful: what the program hands to OSCBackend::dispatch of a running
\* backend reaches the sink as it was, but for what the dialect has no word for.
THEOREM WireAlwaysFaithful == PathSpec => []WireFaithful
<1>1. WireFaithful
  BY AllCommandsCarried DEF WireFaithful
<1> QED BY <1>1, PTL

===============================================================================
