--------------------------- MODULE ReplyRingProofs ---------------------------
(***************************************************************************)
(* Proofs about ReplyRing: every call of sendReply is accounted for once,  *)
(* and the ring implements the queue with reservations of ReplyQueue, for  *)
(* any number of senders, any capacity, and any number of calls and stops. *)
(*                                                                         *)
(* Both assume ~MayLap: the head is compared by its position in the ring   *)
(* and not by a count, so a sender that sleeps between loading it and      *)
(* swinging it while the ring goes once around would be granted a slot on  *)
(* the strength of a check for room that is a lap old.                     *)
(*                                                                         *)
(* The invariant: the age a sender has counted for its copy of the head is *)
(* the distance to the head (ClaimsTrue); the slots from tail to head are  *)
(* ready or held by exactly one sender, the others neither (SlotsTrue);    *)
(* the drain thread works on a ready slot (DrainTrue), and there is none   *)
(* after a join (Joined).                                                  *)
(***************************************************************************)
EXTENDS Integers, ReplyRing, FiniteSetTheorems, SequenceTheorems, TLAPS

(* Places of the ring *)

After(i) == IF i = Cap - 1 THEN 0 ELSE i + 1
Apart(a, b) == IF a <= b THEN b - a ELSE b - a + Cap

LEMMA QuotientIs ==
    ASSUME NEW a \in Int, NEW c \in Nat \ {0}
    PROVE  /\ a = c * (a \div c) + (a % c)
           /\ a \div c \in Int /\ a % c \in 0 .. c - 1
OBVIOUS

LEMMA ModIs ==
    ASSUME NEW a \in Nat, NEW c \in Nat \ {0}, a < 2 * c
    PROVE  a % c = IF a < c THEN a ELSE a - c
<1>1. PICK q, r : q = a \div c /\ r = a % c
  OBVIOUS
<1>2. a = c * q + r /\ q \in Int /\ r \in 0 .. c - 1
  BY <1>1, QuotientIs
<1>3. q \in {0, 1}
  <2>1. CASE q <= -1
    <3>1. c * q <= 0 - c
      BY <1>2, <2>1
    <3> QED BY <1>2, <3>1
  <2>2. CASE q >= 2
    <3>1. c * q >= 2 * c
      BY <1>2, <2>2
    <3> QED BY <1>2, <3>1
  <2> QED BY <1>2, <2>1, <2>2
<1> QED BY <1>1, <1>2, <1>3

LEMMA NextSlotIs ==
    ASSUME NEW i \in Slots
    PROVE  NextSlot(i) = After(i) /\ After(i) \in Slots /\ After(i) # i
<1>1. PICK a \in Nat : a = i + 1
  BY DEF Slots
<1>2. Cap \in Nat \ {0} /\ a < 2 * Cap
  BY <1>1, CapAssumption DEF Slots
<1>3. a % Cap = IF a < Cap THEN a ELSE a - Cap
  BY <1>2, ModIs
<1> QED BY <1>1, <1>3, CapAssumption DEF NextSlot, After, Slots

LEMMA ApartIs ==
    ASSUME NEW a \in Slots, NEW b \in Slots
    PROVE  /\ Apart(a, b) \in Slots /\ Apart(a, b) \in Nat /\ Apart(a, a) = 0
           /\ a # b => Apart(a, b) # 0
           /\ IF a = After(b) THEN Apart(a, b) = Cap - 1
              ELSE Apart(a, After(b)) = Apart(a, b) + 1
BY CapAssumption DEF Apart, After, Slots

LEMMA ApartGrows ==
    ASSUME NEW t \in Slots, NEW e \in Slots, After(e) # t, NEW i \in Slots
    PROVE  Apart(t, i) < Apart(t, After(e)) <=> Apart(t, i) < Apart(t, e) \/ i = e
BY CapAssumption DEF Apart, After, Slots

LEMMA ApartShrinks ==
    ASSUME NEW t \in Slots, NEW e \in Slots, t # e, NEW i \in Slots
    PROVE  Apart(After(t), i) < Apart(After(t), e) <=> Apart(t, i) < Apart(t, e) /\ i # t
BY CapAssumption DEF Apart, After, Slots

-------------------------------------------------------------------------------
(* The ring *)

Bodies == Senders \cup {Empty}

RingTyped ==
    /\ head \in Slots /\ tail \in Slots
    /\ slot \in [Slots -> [ready : BOOLEAN, body : Bodies]]
    /\ pc \in [Senders -> {"idle", "check", "cas", "fill", "raise", "notify"}]
    /\ h \in [Senders -> Slots] /\ moved \in [Senders -> Nat]
    /\ calls \in Nat /\ sent \in Nat /\ drops \in Nat /\ doubled \in Nat

InQueue(i) == Apart(tail, i) < Apart(tail, head)

\* The slot at the tail whose flag is down already.
Gone(i) == drain = "step" /\ i = tail

Looking(p) == pc[p] \in {"check", "cas"}

\* What a sender has loaded is as old as it has counted, and one that has
\* found room still has it if the head has not moved.
ClaimsTrue ==
    \A p \in Senders :
        /\ Looking(p) => moved[p] = Apart(h[p], head)
        /\ ~Looking(p) => moved[p] = 0
        /\ pc[p] = "cas" /\ h[p] = head => After(head) # tail

\* A slot of the queue is ready or held, by one sender, and none else is.
SlotsTrue ==
    /\ \A p \in Senders : Filling(p) => InQueue(h[p]) /\ ~slot[h[p]].ready /\ ~Gone(h[p])
    /\ \A p, q \in Senders : Filling(p) /\ Filling(q) /\ h[p] = h[q] => p = q
    /\ \A i \in Slots : slot[i].ready => InQueue(i)
    /\ \A i \in Slots : InQueue(i) /\ ~slot[i].ready /\ ~Gone(i) =>
          \E p \in Senders : Filling(p) /\ h[p] = i

DrainTrue ==
    /\ drain \in {"send", "clear"} => tail # head /\ slot[tail].ready
    /\ drain = "step" => tail # head /\ ~slot[tail].ready

RingInv == RingTyped /\ ClaimsTrue /\ SlotsTrue /\ DrainTrue

LEMMA RingInit == Init => RingInv
<1> SUFFICES ASSUME Init PROVE RingInv
  OBVIOUS
<1>1. RingTyped
  BY CapAssumption DEF Init, RingTyped, Slots, Blank, Bodies
<1>2. \A i \in Slots : ~InQueue(i) /\ ~slot[i].ready
  <2>1. \A i \in Slots : Apart(tail, i) \in Nat
    BY ApartIs, <1>1 DEF RingTyped
  <2>2. Apart(tail, head) = 0
    BY DEF Init, Apart
  <2> QED BY <2>1, <2>2 DEF InQueue, Init, Blank
<1>3. ClaimsTrue /\ SlotsTrue /\ DrainTrue
  BY <1>2 DEF Init, ClaimsTrue, SlotsTrue, DrainTrue, Looking, Filling
<1> QED BY <1>1, <1>3 DEF RingInv

\* Steps of the drain thread, of start() and stop() and of the listener that
\* leave the ring and the senders alone.
LEMMA RestKeeps ==
    ASSUME RingInv, UNCHANGED <<head, tail, slot, senderVars>>,
           sent' \in Nat, drops' \in Nat, doubled' \in Nat, drain' = "step" <=> drain = "step",
           drain' \in {"send", "clear"} => tail # head /\ slot[tail].ready
    PROVE  RingInv'
<1>1. RingTyped' /\ DrainTrue'
  BY DEF RingInv, RingTyped, DrainTrue, senderVars
<1>2. ClaimsTrue'
  BY DEF RingInv, ClaimsTrue, Looking, Apart, After, senderVars
<1>3. SlotsTrue'
  BY DEF RingInv, SlotsTrue, InQueue, Gone, Filling, Apart, senderVars
<1> QED BY <1>1, <1>2, <1>3 DEF RingInv

\* A sender moves on outside its slot.
LEMMA LookKeeps ==
    ASSUME RingInv, NEW p \in Senders, UNCHANGED <<head, tail, slot, drain, sent, doubled>>,
           drops' \in Nat, calls' \in Nat, ~Filling(p),
           pc' \in [Senders -> {"idle", "check", "cas", "fill", "raise", "notify"}],
           h' \in [Senders -> Slots], moved' \in [Senders -> Nat],
           \A q \in Senders \ {p} : pc'[q] = pc[q] /\ h'[q] = h[q] /\ moved'[q] = moved[q],
           ~(pc'[p] \in {"fill", "raise"}),
           pc'[p] \in {"check", "cas"} => moved'[p] = Apart(h'[p], head),
           ~(pc'[p] \in {"check", "cas"}) => moved'[p] = 0,
           pc'[p] = "cas" /\ h'[p] = head => After(head) # tail
    PROVE  RingInv'
<1>1. RingTyped' /\ DrainTrue'
  BY DEF RingInv, RingTyped, DrainTrue
<1>2. ClaimsTrue'
  BY DEF RingInv, ClaimsTrue, Looking, Apart, After
<1>3. \A q \in Senders : (Filling(q)' <=> Filling(q)) /\ (Filling(q) => h'[q] = h[q])
  BY DEF Filling
<1>4. \A i : (InQueue(i)' <=> InQueue(i)) /\ (Gone(i)' <=> Gone(i))
  BY DEF InQueue, Gone, Apart
<1>5. SlotsTrue'
  BY <1>3, <1>4 DEF RingInv, SlotsTrue
<1> QED BY <1>1, <1>2, <1>5 DEF RingInv

LEMMA CallKeeps ==
    ASSUME RingInv, NEW p \in Senders, Call(p)
    PROVE  RingInv'
<1>1. /\ pc[p] = "idle" /\ moved[p] = 0 /\ ~Filling(p)
      /\ head \in Slots /\ calls \in Nat /\ drops \in Nat /\ moved' = moved
      /\ pc \in [Senders -> {"idle", "check", "cas", "fill", "raise", "notify"}]
      /\ h \in [Senders -> Slots] /\ moved \in [Senders -> Nat]
      /\ UNCHANGED <<head, tail, slot, drain, sent, doubled>>
  BY DEF Call, RingInv, RingTyped, ClaimsTrue, Looking, Filling
<1>2. calls' = calls + 1
  BY DEF Call
<1>3. CASE known
  <2>1. pc' = [pc EXCEPT ![p] = "check"] /\ h' = [h EXCEPT ![p] = head] /\ drops' = drops
    BY <1>3 DEF Call
  <2>2. pc'[p] = "check" /\ h'[p] = head /\ Apart(head, head) = 0
    BY <1>1, <2>1, ApartIs
  <2> QED BY <1>1, <1>2, <2>1, <2>2, LookKeeps
<1>4. CASE ~known
  <2>1. pc' = pc /\ h' = h /\ drops' = drops + 1
    BY <1>4 DEF Call
  <2> QED BY <1>1, <1>2, <2>1, LookKeeps
<1> QED BY <1>3, <1>4

LEMMA CheckFullKeeps ==
    ASSUME RingInv, NEW p \in Senders, CheckFull(p)
    PROVE  RingInv'
<1>1. /\ pc[p] = "check" /\ moved[p] = Apart(h[p], head) /\ ~Filling(p)
      /\ head \in Slots /\ calls \in Nat /\ drops \in Nat /\ 0 \in Slots
      /\ pc \in [Senders -> {"idle", "check", "cas", "fill", "raise", "notify"}]
      /\ h \in [Senders -> Slots] /\ moved \in [Senders -> Nat]
      /\ UNCHANGED <<head, tail, slot, drain, sent, doubled, calls>>
  BY CapAssumption DEF CheckFull, RingInv, RingTyped, ClaimsTrue, Looking, Filling, Slots
<1>2. CASE RingFull(p)
  <2>1. /\ pc' = [pc EXCEPT ![p] = "idle"] /\ h' = [h EXCEPT ![p] = 0]
        /\ moved' = [moved EXCEPT ![p] = 0] /\ drops' = drops + 1
    BY <1>2 DEF CheckFull, Return
  <2> QED BY <1>1, <2>1, LookKeeps
<1>3. CASE ~RingFull(p)
  <2>1. pc' = [pc EXCEPT ![p] = "cas"] /\ h' = h /\ moved' = moved /\ drops' = drops
    BY <1>3 DEF CheckFull
  <2>2. h[p] = head => After(head) # tail
    BY <1>1, <1>3, NextSlotIs DEF RingFull
  <2> QED BY <1>1, <2>1, <2>2, LookKeeps
<1> QED BY <1>2, <1>3

LEMMA NotifyKeeps ==
    ASSUME RingInv, NEW p \in Senders, Notify(p)
    PROVE  RingInv'
<1>1. /\ pc[p] = "notify" /\ 0 \in Slots
      /\ pc \in [Senders -> {"idle", "check", "cas", "fill", "raise", "notify"}]
      /\ h \in [Senders -> Slots] /\ moved \in [Senders -> Nat]
      /\ pc' = [pc EXCEPT ![p] = "idle"] /\ h' = [h EXCEPT ![p] = 0]
      /\ moved' = [moved EXCEPT ![p] = 0]
      /\ UNCHANGED <<head, tail, slot, sent, doubled, drops, calls>>
  BY CapAssumption DEF Notify, Return, RingInv, RingTyped, Slots
<1>2. drain' = "step" <=> drain = "step"
  BY DEF Notify
<1>3. drain' \in {"send", "clear"} => drain \in {"send", "clear"}
  BY DEF Notify
<1>4. RingTyped' /\ DrainTrue'
  BY <1>1, <1>2, <1>3 DEF RingInv, RingTyped, DrainTrue
<1>5. ClaimsTrue'
  BY <1>1 DEF RingInv, ClaimsTrue, Looking, Apart, After
<1>6. \A q \in Senders : (Filling(q)' <=> Filling(q)) /\ (Filling(q) => h'[q] = h[q])
  BY <1>1 DEF Filling
<1>7. \A i : (InQueue(i)' <=> InQueue(i)) /\ (Gone(i)' <=> Gone(i))
  BY <1>1, <1>2 DEF InQueue, Gone, Apart
<1>8. SlotsTrue'
  BY <1>1, <1>6, <1>7 DEF RingInv, SlotsTrue
<1> QED BY <1>4, <1>5, <1>8 DEF RingInv

\* The head is swung: the slot it stood at is in the queue, held by p.
LEMMA ClaimKeeps ==
    ASSUME RingInv, NEW p \in Senders, Claim(p), ~MayLap
    PROVE  RingInv'
<1>1. /\ pc[p] = "cas" /\ ~Filling(p) /\ Looking(p)
      /\ head \in Slots /\ tail \in Slots /\ calls \in Nat /\ drops \in Nat
      /\ pc \in [Senders -> {"idle", "check", "cas", "fill", "raise", "notify"}]
      /\ h \in [Senders -> Slots] /\ moved \in [Senders -> Nat]
      /\ UNCHANGED <<tail, slot, drain, sent, doubled, drops, calls>>
  BY DEF Claim, RingInv, RingTyped, Filling, Looking
<1>2. CASE head # h[p]
  <2>1. /\ pc' = [pc EXCEPT ![p] = "check"] /\ h' = [h EXCEPT ![p] = head]
        /\ moved' = [moved EXCEPT ![p] = 0] /\ head' = head
    BY <1>2 DEF Claim
  <2>2. Apart(head, head) = 0
    BY <1>1, ApartIs
  <2> QED BY <1>1, <2>1, <2>2, LookKeeps
<1>3. CASE head = h[p]
  <2>1. /\ head' = After(head) /\ head' \in Slots /\ h' = h
        /\ pc' = [pc EXCEPT ![p] = "fill"] /\ NoLapBy(p)
        /\ moved' = [q \in Senders |-> IF q # p /\ Looking(q) THEN moved[q] + 1 ELSE 0]
    BY <1>1, <1>3, NextSlotIs DEF Claim, Looking
  <2>2. After(head) # tail
    BY <1>1, <1>3 DEF RingInv, ClaimsTrue
  <2>3. RingTyped'
    BY <1>1, <2>1 DEF RingInv, RingTyped
  <2>4. \A i \in Slots : InQueue(i)' <=> InQueue(i) \/ i = head
    BY <1>1, <2>1, <2>2, ApartGrows DEF InQueue, Apart
  <2>5. ~InQueue(head)
    BY <1>1, ApartIs DEF InQueue
  <2>6. \A i : Gone(i)' <=> Gone(i)
    BY <1>1 DEF Gone
  <2>7. ClaimsTrue'
    <3>1. ASSUME NEW q \in Senders, Looking(q)'
          PROVE  q # p /\ Looking(q) /\ moved'[q] = moved[q] + 1
      BY <1>1, <2>1, <3>1 DEF Looking
    <3>2. ASSUME NEW q \in Senders, Looking(q)'
          PROVE  moved'[q] = Apart(h[q], head') /\ h[q] # head'
      <4>1. q # p /\ Looking(q) /\ moved'[q] = moved[q] + 1
        BY <3>1, <3>2
      <4>2. moved[q] < Cap - 1
        BY <2>1, <4>1 DEF NoLapBy, Looking
      <4>3. moved[q] = Apart(h[q], head) /\ h[q] \in Slots /\ moved[q] \in Nat
        BY <1>1, <4>1 DEF RingInv, ClaimsTrue
      <4>4. h[q] # After(head)
        BY <1>1, <4>2, <4>3, ApartIs, CapAssumption
      <4> QED BY <1>1, <2>1, <4>1, <4>3, <4>4, ApartIs
    <3>3. ASSUME NEW q \in Senders, ~Looking(q)' PROVE moved'[q] = 0
      BY <1>1, <2>1, <3>3 DEF Looking
    <3>4. \A q \in Senders : Apart(h[q], head)' = Apart(h[q], head')
      BY <2>1 DEF Apart
    <3> QED BY <2>1, <3>2, <3>3, <3>4 DEF ClaimsTrue, Looking
  <2>8. \A q \in Senders : Filling(q)' <=> Filling(q) \/ q = p
    BY <1>1, <2>1 DEF Filling
  <2>9. ~slot[head].ready /\ ~Gone(head)
    BY <1>1, <2>5 DEF RingInv, SlotsTrue, DrainTrue, Gone
  <2>10. \A q \in Senders : Filling(q) => InQueue(h[q]) /\ h[q] # head
    BY <2>5 DEF RingInv, SlotsTrue
  <2>11. SlotsTrue'
    <3>1. ASSUME NEW q \in Senders, Filling(q)'
          PROVE  InQueue(h[q])' /\ ~slot[h[q]].ready /\ ~Gone(h[q])
      BY <1>1, <1>3, <2>1, <2>4, <2>8, <2>9, <3>1 DEF RingInv, SlotsTrue, InQueue, Apart
    <3>2. ASSUME NEW q \in Senders, NEW r \in Senders, Filling(q)', Filling(r)', h[q] = h[r]
          PROVE  q = r
      BY <1>3, <2>8, <2>10, <3>2 DEF RingInv, SlotsTrue
    <3>3. \A i \in Slots : slot[i].ready => InQueue(i)'
      BY <2>4 DEF RingInv, SlotsTrue
    <3>4. ASSUME NEW i \in Slots, InQueue(i)', ~slot[i].ready, ~Gone(i)
          PROVE  \E q \in Senders : Filling(q)' /\ h[q] = i
      BY <1>3, <2>4, <2>8, <3>4 DEF RingInv, SlotsTrue
    <3> QED BY <1>1, <2>1, <2>6, <3>1, <3>2, <3>3, <3>4 DEF SlotsTrue
  <2>12. DrainTrue'
    BY <1>1, <2>1, <2>2 DEF RingInv, DrainTrue
  <2> QED BY <2>3, <2>7, <2>11, <2>12 DEF RingInv
<1> QED BY <1>2, <1>3

\* What is encoded goes into the slot that is held.
LEMMA EncodeIs ==
    ASSUME RingInv, NEW p \in Senders, Encode(p)
    PROVE  /\ pc[p] = "fill" /\ pc' = [pc EXCEPT ![p] = "raise"]
           /\ h[p] \in Slots
           /\ UNCHANGED <<head, tail, h, moved, calls, known, drain, lifeVars, sent, doubled>>
           /\ \/ slot' = [slot EXCEPT ![h[p]].body = p] /\ drops' = drops
              \/ slot' = [slot EXCEPT ![h[p]].body = Empty] /\ drops' = drops + 1
BY DEF Encode, EncodeText, EncodeNumbers, EncodeTwoTexts, Filled, LeftEmpty, RingInv, RingTyped

LEMMA EncodeKeeps ==
    ASSUME RingInv, NEW p \in Senders, Encode(p)
    PROVE  RingInv'
<1>1. /\ pc[p] = "fill" /\ pc' = [pc EXCEPT ![p] = "raise"] /\ h[p] \in Slots
      /\ UNCHANGED <<head, tail, h, moved, calls, drain, sent, doubled>>
      /\ drops' \in Nat
      /\ \E b \in Bodies : slot' = [slot EXCEPT ![h[p]].body = b]
  <2>1. p \in Bodies /\ Empty \in Bodies
    BY DEF Bodies
  <2>2. drops \in Nat
    BY DEF RingInv, RingTyped
  <2>3. \/ slot' = [slot EXCEPT ![h[p]].body = p] /\ drops' = drops
        \/ slot' = [slot EXCEPT ![h[p]].body = Empty] /\ drops' = drops + 1
    BY EncodeIs
  <2>4. drops' \in Nat
    BY <2>2, <2>3
  <2>5. \E b \in Bodies : slot' = [slot EXCEPT ![h[p]].body = b]
    BY <2>1, <2>3
  <2>6. /\ pc[p] = "fill" /\ pc' = [pc EXCEPT ![p] = "raise"] /\ h[p] \in Slots
        /\ UNCHANGED <<head, tail, h, moved, calls, known, drain, lifeVars, sent, doubled>>
    BY EncodeIs
  <2> QED BY <2>4, <2>5, <2>6
<1>2. RingTyped'
  BY <1>1 DEF RingInv, RingTyped
<1>3. \A i \in Slots : slot'[i].ready = slot[i].ready
  BY <1>1 DEF RingInv, RingTyped
<1>4. \A q \in Senders : (Filling(q)' <=> Filling(q)) /\ (Looking(q)' <=> Looking(q))
                         /\ (pc'[q] = "cas" <=> pc[q] = "cas")
  BY <1>1 DEF Filling, Looking, RingInv, RingTyped
<1>5. \A i : (InQueue(i)' <=> InQueue(i)) /\ (Gone(i)' <=> Gone(i))
  BY <1>1 DEF InQueue, Gone, Apart
<1>6. ClaimsTrue'
  BY <1>1, <1>4 DEF RingInv, ClaimsTrue, Apart, After
<1>7. SlotsTrue'
  BY <1>1, <1>3, <1>4, <1>5 DEF RingInv, SlotsTrue, RingTyped
<1>8. DrainTrue'
  BY <1>1, <1>3 DEF RingInv, DrainTrue, RingTyped
<1> QED BY <1>2, <1>6, <1>7, <1>8 DEF RingInv

\* The flag is raised and the slot let go.
LEMMA RaiseKeeps ==
    ASSUME RingInv, NEW p \in Senders, Raise(p)
    PROVE  RingInv'
<1>1. /\ pc[p] = "raise" /\ pc' = [pc EXCEPT ![p] = "notify"] /\ h[p] \in Slots
      /\ UNCHANGED <<head, tail, h, moved, calls, drain, sent, doubled, drops>>
      /\ slot' = [slot EXCEPT ![h[p]].ready = TRUE]
  BY DEF Raise, RingInv, RingTyped
<1>2. RingTyped'
  BY <1>1 DEF RingInv, RingTyped
<1>3. \A i \in Slots : slot'[i].ready <=> slot[i].ready \/ i = h[p]
  BY <1>1 DEF RingInv, RingTyped
<1>4. \A q \in Senders : (Filling(q)' <=> Filling(q) /\ q # p) /\ (Looking(q)' <=> Looking(q))
                         /\ (pc'[q] = "cas" <=> pc[q] = "cas")
  BY <1>1 DEF Filling, Looking, RingInv, RingTyped
<1>5. \A i : (InQueue(i)' <=> InQueue(i)) /\ (Gone(i)' <=> Gone(i))
  BY <1>1 DEF InQueue, Gone, Apart
<1>6. Filling(p) /\ InQueue(h[p]) /\ ~Gone(h[p])
  BY <1>1 DEF Filling, RingInv, SlotsTrue
<1>7. ClaimsTrue'
  BY <1>1, <1>4 DEF RingInv, ClaimsTrue, Apart, After
<1>8. SlotsTrue'
  BY <1>1, <1>3, <1>4, <1>5, <1>6 DEF RingInv, SlotsTrue, RingTyped
<1>9. DrainTrue'
  BY <1>1, <1>3, <1>6 DEF RingInv, DrainTrue, RingTyped, Gone
<1> QED BY <1>2, <1>7, <1>8, <1>9 DEF RingInv

\* The flag of the slot that has been sent goes down.
LEMMA ClearKeeps ==
    ASSUME RingInv, ClearReady
    PROVE  RingInv'
<1>1. /\ drain = "clear" /\ drain' = "step" /\ tail \in Slots /\ slot[tail].ready /\ tail # head
      /\ UNCHANGED <<head, tail, pc, h, moved, calls, sent, doubled, drops>>
      /\ slot' = [slot EXCEPT ![tail].ready = FALSE]
  BY DEF ClearReady, RingInv, RingTyped, DrainTrue, senderVars
<1>2. RingTyped'
  BY <1>1 DEF RingInv, RingTyped
<1>3. \A i \in Slots : slot'[i].ready <=> slot[i].ready /\ i # tail
  BY <1>1 DEF RingInv, RingTyped
<1>4. \A i : (InQueue(i)' <=> InQueue(i)) /\ ~Gone(i) /\ (Gone(i)' <=> i = tail)
  BY <1>1 DEF InQueue, Gone, Apart
<1>5. \A q \in Senders : Filling(q)' <=> Filling(q)
  BY <1>1 DEF Filling
<1>6. ClaimsTrue'
  BY <1>1 DEF RingInv, ClaimsTrue, Looking, Apart, After
<1>7. SlotsTrue'
  BY <1>1, <1>3, <1>4, <1>5 DEF RingInv, SlotsTrue, RingTyped
<1>8. DrainTrue'
  BY <1>1, <1>3 DEF DrainTrue
<1> QED BY <1>2, <1>6, <1>7, <1>8 DEF RingInv

\* The slot leaves the queue.
LEMMA StepKeeps ==
    ASSUME RingInv, StepTail
    PROVE  RingInv'
<1>1. /\ drain = "step" /\ drain' = "scan" /\ tail \in Slots /\ head \in Slots
      /\ ~slot[tail].ready /\ tail # head /\ tail' = After(tail) /\ tail' \in Slots
      /\ UNCHANGED <<head, slot, pc, h, moved, calls, sent, doubled, drops>>
  BY NextSlotIs DEF StepTail, RingInv, RingTyped, DrainTrue, senderVars
<1>2. RingTyped'
  BY <1>1 DEF RingInv, RingTyped
<1>3. \A i \in Slots : InQueue(i)' <=> InQueue(i) /\ i # tail
  BY <1>1, ApartShrinks DEF InQueue, Apart
<1>4. \A i : ~Gone(i)' /\ (Gone(i) <=> i = tail)
  BY <1>1 DEF Gone
<1>5. After(head) # tail'
  BY <1>1, CapAssumption DEF After, Slots
<1>6. ClaimsTrue'
  BY <1>1, <1>5 DEF RingInv, ClaimsTrue, Looking, Apart, After
<1>7. \A q \in Senders : Filling(q)' <=> Filling(q)
  BY <1>1 DEF Filling
<1>8. SlotsTrue'
  <2>1. \A q \in Senders : Filling(q) => h[q] \in Slots /\ InQueue(h[q]) /\ h[q] # tail
    BY <1>4 DEF RingInv, RingTyped, SlotsTrue
  <2>2. \A q \in Senders : Filling(q)' => InQueue(h[q])'
    BY <1>1, <1>3, <1>7, <2>1 DEF InQueue, Apart
  <2> QED BY <1>1, <1>3, <1>4, <1>7, <2>2 DEF RingInv, SlotsTrue
<1>9. DrainTrue'
  BY <1>1 DEF DrainTrue
<1> QED BY <1>2, <1>6, <1>8, <1>9 DEF RingInv

\* A backend that is down has no drain thread.
Joined == stopper = "down" => drain = "off"

LEMMA JoinedStep == Joined /\ [Next]_vars => Joined'
<1> SUFFICES ASSUME Joined, [Next]_vars PROVE Joined'
  OBVIOUS
<1>1. CASE UNCHANGED vars
  BY <1>1 DEF Joined, vars, lifeVars
<1>2. ASSUME NEW p \in Senders, Call(p) \/ SenderStep(p) PROVE Joined'
  BY <1>2 DEF Joined, lifeVars, SenderStep, Call, CheckFull, Claim, Encode, Raise, Notify
<1>3. CASE DrainStep \/ Timeout \/ Capture
  BY <1>3 DEF Joined, lifeVars, DrainStep, Peek, FallAsleep, Scan, Send, ClearReady,
     StepTail, Timeout, Capture
<1>4. CASE Lifecycle
  BY <1>4 DEF Joined, Lifecycle, StopFlag, StopNotify, StopJoin, Start
<1> QED BY <1>1, <1>2, <1>3, <1>4 DEF Next

LEMMA RingStep == ~MayLap /\ Joined /\ RingInv /\ [Next]_vars => RingInv'
<1> SUFFICES ASSUME ~MayLap, Joined, RingInv, [Next]_vars PROVE RingInv'
  OBVIOUS
<1>1. sent \in Nat /\ drops \in Nat /\ doubled \in Nat
  BY DEF RingInv, RingTyped
<1>2. CASE UNCHANGED vars
  BY <1>1, <1>2, RestKeeps DEF vars, RingInv, DrainTrue
<1>3. ASSUME NEW p \in Senders, Call(p) \/ SenderStep(p) PROVE RingInv'
  BY <1>3, CallKeeps, CheckFullKeeps, ClaimKeeps, EncodeKeeps, RaiseKeeps, NotifyKeeps
     DEF SenderStep
<1>4. CASE Capture \/ Peek \/ FallAsleep \/ Timeout \/ Lifecycle
  <2>1. /\ UNCHANGED <<head, tail, slot, senderVars, sent, doubled, drops>>
        /\ drain' = drain \/ drain' \in {"off", "scan", "dozing", "asleep", "peek"}
    BY <1>4 DEF Capture, Peek, FallAsleep, Timeout, Lifecycle, StopFlag,
       StopNotify, StopJoin, Start
  <2>2. drain # "step" \/ drain' = drain
    BY <1>4 DEF Joined, Capture, Peek, FallAsleep, Timeout, Lifecycle, StopFlag,
       StopNotify, StopJoin, Start
  <2> QED BY <1>1, <2>1, <2>2, RestKeeps DEF RingInv, DrainTrue
<1>5. CASE Scan
  BY <1>1, <1>5, RestKeeps DEF Scan
<1>6. CASE Send
  BY <1>1, <1>6, RestKeeps DEF Send, HandOver, NoSocket, RingInv, DrainTrue
<1> QED BY <1>2, <1>3, <1>4, <1>5, <1>6, ClearKeeps, StepKeeps DEF Next, DrainStep

-------------------------------------------------------------------------------
(* Every call, once *)

\* Slots with a reply that has not been tried.
Waits(i)   == slot[i].ready /\ slot[i].body # Empty /\ ~(i = tail /\ drain = "clear")
Waiting    == {i \in Slots : Waits(i)}
Counted    == calls + doubled = Cardinality(InCall) + Cardinality(Waiting) + sent + drops

LEMMA SetsFinite ==
    /\ IsFiniteSet(InCall) /\ Cardinality(InCall) \in Nat
    /\ IsFiniteSet(Waiting) /\ Cardinality(Waiting) \in Nat
<1>1. IsFiniteSet(Slots)
  BY FS_Interval, CapAssumption DEF Slots
<1>2. InCall \in SUBSET Senders /\ Waiting \in SUBSET Slots
  BY DEF InCall, Waiting
<1> QED BY <1>1, <1>2, SendersAssumption, FS_Subset, FS_CardinalityType

\* A sender of whom nothing but its call is heard.
Inside(p) == \/ pc[p] \in {"check", "cas", "fill"}
             \/ pc[p] = "raise" /\ slot[h[p]].body # Empty

LEMMA InsideIs == InCall = {p \in Senders : Inside(p)}
BY DEF InCall, Inside

CountShape == InCall = {p \in Senders : Inside(p)} /\ Waiting = {i \in Slots : Waits(i)}

LEMMA ShapeIs == CountShape
BY InsideIs DEF Waiting, CountShape

LEMMA ShapeIsNext == CountShape'
BY ShapeIs, PTL

LEMMA SameSets ==
    ASSUME RingInv, Counted,
           \A p \in Senders : Inside(p)' <=> Inside(p),
           \A i \in Slots : Waits(i)' <=> Waits(i),
           UNCHANGED <<calls, sent, doubled, drops>>
    PROVE  Counted'
<1>1. InCall' = InCall /\ Waiting' = Waiting
  BY ShapeIs, ShapeIsNext DEF CountShape
<1> QED BY <1>1 DEF Counted

\* The call ends with a drop.
LEMMA Dropped ==
    ASSUME RingInv, Counted, NEW p \in Senders, Inside(p),
           \A q \in Senders : Inside(q)' <=> Inside(q) /\ q # p,
           \A i \in Slots : Waits(i)' <=> Waits(i),
           UNCHANGED <<calls, sent, doubled>>, drops' = drops + 1
    PROVE  Counted'
<1>1. InCall' = InCall \ {p} /\ p \in InCall /\ Waiting' = Waiting
  BY ShapeIs, ShapeIsNext DEF CountShape
<1>2. Cardinality(InCall') = Cardinality(InCall) - 1
  BY <1>1, SetsFinite, FS_RemoveElement
<1>3. calls \in Nat /\ sent \in Nat /\ drops \in Nat /\ doubled \in Nat
  BY DEF RingInv, RingTyped
<1> QED BY <1>1, <1>2, <1>3, SetsFinite DEF Counted

LEMMA CallCounts ==
    ASSUME RingInv, Counted, NEW p \in Senders, Call(p)
    PROVE  Counted'
<1>1. /\ pc[p] = "idle" /\ calls' = calls + 1 /\ slot' = slot /\ tail' = tail /\ drain' = drain
      /\ sent' = sent /\ doubled' = doubled
      /\ sent \in Nat /\ drops \in Nat /\ doubled \in Nat /\ calls \in Nat
      /\ pc \in [Senders -> {"idle", "check", "cas", "fill", "raise", "notify"}]
      /\ h \in [Senders -> Slots]
  BY DEF Call, RingInv, RingTyped
<1>2. Waiting' = Waiting
  BY <1>1, ShapeIs, ShapeIsNext DEF CountShape, Waits
<1>3. CASE known
  <2>1. pc' = [pc EXCEPT ![p] = "check"] /\ h' = [h EXCEPT ![p] = head] /\ drops' = drops
    BY <1>3 DEF Call
  <2>2. ~Inside(p) /\ Inside(p)' /\ \A q \in Senders \ {p} : Inside(q)' <=> Inside(q)
    BY <1>1, <2>1 DEF Inside
  <2>3. InCall' = InCall \cup {p} /\ p \notin InCall
    BY <2>2, ShapeIs, ShapeIsNext DEF CountShape
  <2>4. Cardinality(InCall') = Cardinality(InCall) + 1
    BY <2>3, SetsFinite, FS_AddElement
  <2> QED BY <1>1, <1>2, <2>1, <2>4, SetsFinite DEF Counted
<1>4. CASE ~known
  <2>1. pc' = pc /\ h' = h /\ drops' = drops + 1
    BY <1>4 DEF Call
  <2>2. InCall' = InCall
    BY <1>1, <2>1, ShapeIs, ShapeIsNext DEF CountShape, Inside
  <2>3. PICK m, n \in Nat : m = Cardinality(InCall) /\ n = Cardinality(Waiting)
    BY SetsFinite
  <2> QED BY <1>1, <1>2, <2>1, <2>2, <2>3 DEF Counted
<1> QED BY <1>3, <1>4

LEMMA CheckFullCounts ==
    ASSUME RingInv, Counted, NEW p \in Senders, CheckFull(p)
    PROVE  Counted'
<1>1. /\ pc[p] = "check" /\ Inside(p) /\ slot' = slot
      /\ UNCHANGED <<calls, sent, doubled>> /\ \A i \in Slots : Waits(i)' <=> Waits(i)
      /\ pc \in [Senders -> {"idle", "check", "cas", "fill", "raise", "notify"}]
      /\ h \in [Senders -> Slots]
  BY DEF CheckFull, Inside, Waits, RingInv, RingTyped
<1>2. CASE RingFull(p)
  <2>1. pc' = [pc EXCEPT ![p] = "idle"] /\ h' = [h EXCEPT ![p] = 0] /\ drops' = drops + 1
    BY <1>2 DEF CheckFull, Return
  <2>2. \A q \in Senders : Inside(q)' <=> Inside(q) /\ q # p
    BY <1>1, <2>1 DEF Inside
  <2> QED BY <1>1, <2>1, <2>2, Dropped
<1>3. CASE ~RingFull(p)
  <2>1. pc' = [pc EXCEPT ![p] = "cas"] /\ h' = h /\ drops' = drops
    BY <1>3 DEF CheckFull
  <2>2. \A q \in Senders : Inside(q)' <=> Inside(q)
    BY <1>1, <2>1 DEF Inside
  <2> QED BY <1>1, <2>1, <2>2, SameSets
<1> QED BY <1>2, <1>3

LEMMA ClaimCounts ==
    ASSUME RingInv, Counted, NEW p \in Senders, Claim(p)
    PROVE  Counted'
<1>1. /\ pc[p] = "cas" /\ slot' = slot
      /\ UNCHANGED <<calls, sent, doubled, drops>> /\ \A i \in Slots : Waits(i)' <=> Waits(i)
      /\ pc \in [Senders -> {"idle", "check", "cas", "fill", "raise", "notify"}]
      /\ h \in [Senders -> Slots]
  BY DEF Claim, Waits, RingInv, RingTyped
<1>2. \/ pc' = [pc EXCEPT ![p] = "fill"] /\ h' = h
      \/ pc' = [pc EXCEPT ![p] = "check"] /\ h' = [h EXCEPT ![p] = head]
  BY DEF Claim
<1>3. \A q \in Senders : Inside(q)' <=> Inside(q)
  BY <1>1, <1>2 DEF Inside
<1> QED BY <1>1, <1>3, SameSets

LEMMA EncodeCounts ==
    ASSUME RingInv, Counted, NEW p \in Senders, Encode(p)
    PROVE  Counted'
<1>1. /\ pc[p] = "fill" /\ pc' = [pc EXCEPT ![p] = "raise"] /\ h[p] \in Slots
      /\ UNCHANGED <<head, tail, h, moved, calls, known, drain, lifeVars, sent, doubled>>
      /\ \/ slot' = [slot EXCEPT ![h[p]].body = p] /\ drops' = drops
         \/ slot' = [slot EXCEPT ![h[p]].body = Empty] /\ drops' = drops + 1
  BY EncodeIs
<1>2. /\ slot \in [Slots -> [ready : BOOLEAN, body : Bodies]]
      /\ pc \in [Senders -> {"idle", "check", "cas", "fill", "raise", "notify"}]
      /\ h \in [Senders -> Slots] /\ p # Empty
  BY SendersAssumption DEF RingInv, RingTyped
<1>3. ~slot[h[p]].ready /\ \A q \in Senders \ {p} : pc[q] = "raise" => h[q] # h[p]
  BY <1>1 DEF RingInv, SlotsTrue, Filling
<1>4. \A i \in Slots : slot'[i].ready = slot[i].ready /\ (i # h[p] => slot'[i] = slot[i])
  BY <1>1, <1>2
<1>5. \A i \in Slots : Waits(i)' <=> Waits(i)
  BY <1>1, <1>3, <1>4 DEF Waits
<1>6. Inside(p) /\ \A q \in Senders \ {p} : Inside(q)' <=> Inside(q)
  BY <1>1, <1>2, <1>3, <1>4 DEF Inside
<1>7. CASE slot' = [slot EXCEPT ![h[p]].body = p] /\ drops' = drops
  <2>1. Inside(p)'
    BY <1>1, <1>2, <1>7 DEF Inside
  <2> QED BY <1>1, <1>5, <1>6, <1>7, <2>1, SameSets
<1>8. CASE slot' = [slot EXCEPT ![h[p]].body = Empty] /\ drops' = drops + 1
  <2>1. ~Inside(p)'
    BY <1>1, <1>2, <1>8 DEF Inside
  <2> QED BY <1>1, <1>5, <1>6, <1>8, <2>1, Dropped
<1> QED BY <1>1, <1>7, <1>8

LEMMA RaiseCounts ==
    ASSUME RingInv, Counted, NEW p \in Senders, Raise(p)
    PROVE  Counted'
<1>1. /\ pc[p] = "raise" /\ pc' = [pc EXCEPT ![p] = "notify"] /\ h[p] \in Slots
      /\ UNCHANGED <<head, tail, h, calls, drain, sent, doubled, drops>>
      /\ slot' = [slot EXCEPT ![h[p]].ready = TRUE]
  BY DEF Raise, RingInv, RingTyped
<1>2. /\ slot \in [Slots -> [ready : BOOLEAN, body : Bodies]]
      /\ pc \in [Senders -> {"idle", "check", "cas", "fill", "raise", "notify"}]
      /\ h \in [Senders -> Slots] /\ sent \in Nat /\ drops \in Nat /\ doubled \in Nat
  BY DEF RingInv, RingTyped
<1>3. ~slot[h[p]].ready /\ ~(h[p] = tail /\ drain = "clear")
  BY <1>1 DEF RingInv, SlotsTrue, DrainTrue, Filling
<1>4. \A i \in Slots : slot'[i].body = slot[i].body /\ (i # h[p] => slot'[i] = slot[i])
  BY <1>1, <1>2
<1>5. slot'[h[p]].ready
  BY <1>1, <1>2
<1>6. \A q \in Senders : Inside(q)' <=> Inside(q) /\ q # p
  BY <1>1, <1>2, <1>4 DEF Inside
<1>7. \A i \in Slots : Waits(i)' <=> Waits(i) \/ (i = h[p] /\ slot[h[p]].body # Empty)
  BY <1>1, <1>3, <1>4, <1>5 DEF Waits
<1>8. CASE slot[h[p]].body = Empty
  <2>1. ~Inside(p)
    BY <1>1, <1>8 DEF Inside
  <2>2. (\A q \in Senders : Inside(q)' <=> Inside(q)) /\ \A i \in Slots : Waits(i)' <=> Waits(i)
    BY <1>6, <1>7, <1>8, <2>1
  <2> QED BY <1>1, <2>2, SameSets
<1>9. CASE slot[h[p]].body # Empty
  <2>1. Inside(p) /\ ~Waits(h[p])
    BY <1>1, <1>3, <1>9 DEF Inside, Waits
  <2>2. /\ InCall' = InCall \ {p} /\ p \in InCall
        /\ Waiting' = Waiting \cup {h[p]} /\ h[p] \notin Waiting
    BY <1>1, <1>6, <1>7, <1>9, <2>1, ShapeIs, ShapeIsNext DEF CountShape
  <2>3. Cardinality(InCall') = Cardinality(InCall) - 1
    BY <2>2, SetsFinite, FS_RemoveElement
  <2>4. Cardinality(Waiting') = Cardinality(Waiting) + 1
    BY <2>2, SetsFinite, FS_AddElement
  <2> QED BY <1>1, <1>2, <2>3, <2>4, SetsFinite DEF Counted
<1> QED BY <1>8, <1>9

LEMMA SendCounts ==
    ASSUME RingInv, Counted, Send
    PROVE  Counted'
<1>1. /\ drain = "send" /\ drain' = "clear" /\ tail \in Slots /\ slot[tail].ready
      /\ UNCHANGED <<tail, slot, pc, h, calls>>
      /\ sent \in Nat /\ drops \in Nat /\ doubled \in Nat /\ calls \in Nat
  BY DEF Send, RingInv, RingTyped, DrainTrue, senderVars
<1>2. \/ /\ slot[tail].body = Empty /\ sent' = sent
         /\ \/ drops' = drops /\ doubled' = doubled
            \/ drops' = drops + 1 /\ doubled' = doubled + 1
      \/ /\ slot[tail].body # Empty /\ doubled' = doubled
         /\ \/ sent' = sent + 1 /\ drops' = drops
            \/ sent' = sent /\ drops' = drops + 1
  BY DEF Send, HandOver, NoSocket
<1>3. \A q \in Senders : Inside(q)' <=> Inside(q)
  BY <1>1 DEF Inside
<1>4. \A i \in Slots : Waits(i)' <=> Waits(i) /\ i # tail
  BY <1>1 DEF Waits
<1>5. CASE slot[tail].body = Empty
  <2>1. InCall' = InCall /\ Waiting' = Waiting
    BY <1>3, <1>4, <1>5, ShapeIs, ShapeIsNext DEF CountShape, Waits
  <2> QED BY <1>1, <1>2, <1>5, <2>1, SetsFinite DEF Counted
<1>6. CASE slot[tail].body # Empty
  <2>1. Waits(tail)
    BY <1>1, <1>6 DEF Waits
  <2>2. InCall' = InCall /\ Waiting' = Waiting \ {tail} /\ tail \in Waiting
    BY <1>1, <1>3, <1>4, <2>1, ShapeIs, ShapeIsNext DEF CountShape
  <2>3. Cardinality(Waiting') = Cardinality(Waiting) - 1
    BY <2>2, SetsFinite, FS_RemoveElement
  <2> QED BY <1>1, <1>2, <1>6, <2>2, <2>3, SetsFinite DEF Counted
<1> QED BY <1>2, <1>5, <1>6

LEMMA CountStep == Joined /\ RingInv /\ Counted /\ [Next]_vars => Counted'
<1> SUFFICES ASSUME Joined, RingInv, Counted, [Next]_vars PROVE Counted'
  OBVIOUS
<1>1. ASSUME UNCHANGED <<tail, slot, pc, h, calls, sent, doubled, drops>>,
             drain' = "clear" <=> drain = "clear"
      PROVE  Counted'
  BY <1>1, SameSets DEF Inside, Waits
<1>2. CASE UNCHANGED vars
  BY <1>1, <1>2 DEF vars, senderVars
<1>3. ASSUME NEW p \in Senders, Notify(p) PROVE Counted'
  <2>1. /\ pc[p] = "notify" /\ pc' = [pc EXCEPT ![p] = "idle"] /\ h' = [h EXCEPT ![p] = 0]
        /\ UNCHANGED <<tail, slot, calls, sent, doubled, drops>>
        /\ (drain' = "clear" <=> drain = "clear")
    BY <1>3 DEF Notify, Return
  <2>2. pc \in [Senders -> {"idle", "check", "cas", "fill", "raise", "notify"}]
        /\ h \in [Senders -> Slots]
    BY DEF RingInv, RingTyped
  <2>3. \A q \in Senders : Inside(q)' <=> Inside(q)
    BY <2>1, <2>2 DEF Inside
  <2>4. \A i \in Slots : Waits(i)' <=> Waits(i)
    BY <2>1 DEF Waits
  <2> QED BY <2>1, <2>3, <2>4, SameSets
<1>4. ASSUME NEW p \in Senders, Call(p) \/ SenderStep(p) PROVE Counted'
  BY <1>3, <1>4, CallCounts, CheckFullCounts, ClaimCounts, EncodeCounts, RaiseCounts
     DEF SenderStep
<1>5. CASE Capture \/ Peek \/ FallAsleep \/ Timeout \/ Scan \/ Lifecycle
  <2>1. UNCHANGED <<tail, slot, pc, h, calls, sent, doubled, drops>>
    BY <1>5 DEF Capture, Peek, FallAsleep, Timeout, Scan, Lifecycle, StopFlag, StopNotify,
       StopJoin, Start, senderVars
  <2>2. drain' = "clear" <=> drain = "clear"
    BY <1>5 DEF Joined, Capture, Peek, FallAsleep, Timeout, Scan, Lifecycle, StopFlag,
       StopNotify, StopJoin, Start
  <2> QED BY <1>1, <2>1, <2>2
<1>6. CASE ClearReady
  <2>1. /\ drain = "clear" /\ drain' = "step" /\ tail \in Slots
        /\ UNCHANGED <<tail, pc, h, calls, sent, doubled, drops>>
        /\ slot' = [slot EXCEPT ![tail].ready = FALSE]
        /\ slot \in [Slots -> [ready : BOOLEAN, body : Bodies]]
        /\ h \in [Senders -> Slots]
    BY <1>6 DEF ClearReady, senderVars, RingInv, RingTyped
  <2>2. \A i \in Slots : slot'[i].body = slot[i].body /\ (slot'[i].ready <=> slot[i].ready /\ i # tail)
    BY <2>1
  <2>3. \A q \in Senders : Inside(q)' <=> Inside(q)
    BY <2>1, <2>2 DEF Inside
  <2>4. \A i \in Slots : Waits(i)' <=> Waits(i)
    BY <2>1, <2>2 DEF Waits
  <2> QED BY <2>1, <2>3, <2>4, SameSets
<1>7. CASE StepTail
  <2>1. /\ drain = "step" /\ drain' = "scan"
        /\ UNCHANGED <<slot, pc, h, calls, sent, doubled, drops>>
    BY <1>7 DEF StepTail, senderVars
  <2>2. \A q \in Senders : Inside(q)' <=> Inside(q)
    BY <2>1 DEF Inside
  <2>3. \A i \in Slots : Waits(i)' <=> Waits(i)
    BY <2>1 DEF Waits
  <2> QED BY <2>1, <2>2, <2>3, SameSets
<1> QED BY <1>2, <1>4, <1>5, <1>6, <1>7, SendCounts DEF Next, DrainStep

-------------------------------------------------------------------------------
(* The places of the queue *)

Off == IF drain = "step" THEN 1 ELSE 0

LEMMA ApartSame ==
    ASSUME NEW a \in Slots, NEW i \in Slots, NEW j \in Slots, Apart(a, i) = Apart(a, j)
    PROVE  i = j
BY CapAssumption DEF Apart, Slots

LEMMA DistanceIs ==
    ASSUME NEW a \in Slots, NEW b \in Slots
    PROVE  (b + Cap - a) % Cap = Apart(a, b)
<1>1. PICK n \in Nat : n = b + Cap - a
  BY CapAssumption DEF Slots
<1>2. Cap \in Nat \ {0} /\ n < 2 * Cap
  BY <1>1, CapAssumption DEF Slots
<1>3. n % Cap = IF n < Cap THEN n ELSE n - Cap
  BY <1>2, ModIs
<1> QED BY <1>1, <1>3, CapAssumption DEF Apart, Slots

LEMMA StrideIs ==
    ASSUME NEW a \in Slots, NEW d \in Slots
    PROVE  (a + d) % Cap \in Slots /\ Apart(a, (a + d) % Cap) = d
<1>1. PICK n \in Nat : n = a + d
  BY DEF Slots
<1>2. Cap \in Nat \ {0} /\ n < 2 * Cap
  BY <1>1, CapAssumption DEF Slots
<1>3. n % Cap = IF n < Cap THEN n ELSE n - Cap
  BY <1>2, ModIs
<1> QED BY <1>1, <1>3, CapAssumption DEF Apart, Slots

\* Place k of the queue is the slot at that distance from the tail.
Laid ==
    /\ Pending = Apart(tail, head) - Off /\ Pending \in 0 .. Cap - 1
    /\ \A k \in 1 .. Pending : Index(k) \in Slots /\ Apart(tail, Index(k)) = k - 1 + Off

LEMMA LaidIs == RingTyped /\ DrainTrue => Laid
<1> SUFFICES ASSUME RingTyped, DrainTrue PROVE Laid
  OBVIOUS
<1>1. head \in Slots /\ tail \in Slots /\ Apart(tail, head) \in Slots
      /\ Apart(tail, head) \in Nat /\ (tail # head => Apart(tail, head) # 0)
  BY ApartIs DEF RingTyped
<1>2. Pending = Apart(tail, head) - Off
  BY <1>1, DistanceIs DEF Pending, Off
<1>3. Off \in {0, 1} /\ (Off = 1 => Apart(tail, head) # 0)
  BY <1>1 DEF Off, DrainTrue
<1>4. Pending \in 0 .. Cap - 1
  BY <1>1, <1>2, <1>3, CapAssumption DEF Slots
<1>5. ASSUME NEW k \in 1 .. Pending
      PROVE  Index(k) \in Slots /\ Apart(tail, Index(k)) = k - 1 + Off
  <2>1. PICK d \in Int : d = k - 1
    BY <1>4
  <2>2. d \in Slots /\ d + Off \in Slots
    BY <1>1, <1>2, <1>3, <1>4, <1>5, <2>1, CapAssumption DEF Slots
  <2>3. First \in Slots /\ First = IF Off = 1 THEN After(tail) ELSE tail
    BY <1>1, NextSlotIs DEF First, Off
  <2>4. Index(k) = (First + d) % Cap
    <3>1. First + k - 1 = First + d
      BY <2>1, <2>3, CapAssumption DEF Slots
    <3> QED BY <3>1 DEF Index
  <2>5. Index(k) \in Slots /\ Apart(First, Index(k)) = d
    BY <2>2, <2>3, <2>4, StrideIs
  <2>6. Apart(tail, Index(k)) = d + Off
    BY <1>1, <1>3, <2>2, <2>3, <2>5, CapAssumption DEF Apart, After, Slots
  <2> QED BY <2>1, <2>5, <2>6
<1> QED BY <1>2, <1>4, <1>5 DEF Laid

Spot(i) == Apart(tail, i) + 1 - Off

LEMMA SpotIs ==
    ASSUME RingTyped, DrainTrue, NEW i \in Slots, InQueue(i), ~Gone(i)
    PROVE  Spot(i) \in 1 .. Pending /\ Index(Spot(i)) = i
<1>1. head \in Slots /\ tail \in Slots /\ Apart(tail, i) \in Nat
      /\ Apart(tail, head) \in Nat /\ (tail # i => Apart(tail, i) # 0)
  BY ApartIs DEF RingTyped
<1>2. Off \in {0, 1} /\ (Off = 1 => Apart(tail, i) # 0)
  BY <1>1 DEF Off, Gone
<1>3. Pending = Apart(tail, head) - Off /\ Pending \in 0 .. Cap - 1 /\ Laid
  BY LaidIs DEF Laid
<1>4. Spot(i) \in 1 .. Pending
  BY <1>1, <1>2, <1>3 DEF Spot, InQueue
<1>5. Index(Spot(i)) \in Slots /\ Apart(tail, Index(Spot(i))) = Spot(i) - 1 + Off
  BY <1>3, <1>4 DEF Laid
<1>6. Apart(tail, Index(Spot(i))) = Apart(tail, i)
  BY <1>1, <1>2, <1>5 DEF Spot
<1> QED BY <1>1, <1>4, <1>5, <1>6, ApartSame

LEMMA QueueCounts ==
    ASSUME RingInv
    PROVE  Cardinality(InRing) = Cardinality(Waiting)
<1> DEFINE F == [k \in InRing |-> Index(k)]
<1>1. /\ Laid /\ Pending \in Nat /\ tail \in Slots /\ Off \in {0, 1}
      /\ (drain = "clear" => Off = 0) /\ InRing \subseteq 1 .. Pending
  BY LaidIs DEF RingInv, RingTyped, Laid, Off, InRing
<1>2. ASSUME NEW k \in 1 .. Pending
      PROVE  Index(k) \in Slots /\ (k \in InRing <=> Waits(Index(k)))
  <2>1. Index(k) \in Slots /\ Apart(tail, Index(k)) = k - 1 + Off
    BY <1>1 DEF Laid
  <2>2. drain = "clear" => (k = 1 <=> Index(k) = tail)
    BY <1>1, <2>1, ApartIs
  <2> QED BY <2>1, <2>2 DEF InRing, Waits
<1>3. F \in [InRing -> Waiting]
  <2>1. ASSUME NEW k \in InRing PROVE Index(k) \in Waiting
    BY <1>1, <1>2 DEF Waiting
  <2> QED BY <2>1
<1>4. ASSUME NEW j \in InRing, NEW k \in InRing, F[j] = F[k] PROVE j = k
  <2>1. Index(j) = Index(k) /\ j \in 1 .. Pending /\ k \in 1 .. Pending
    BY <1>1, <1>4
  <2>2. j - 1 + Off = k - 1 + Off
    BY <1>1, <2>1 DEF Laid
  <2> QED BY <1>1, <2>1, <2>2
<1>5. ASSUME NEW i \in Waiting PROVE \E k \in InRing : F[k] = i
  <2>1. i \in Slots /\ Waits(i) /\ slot[i].ready
    BY DEF Waiting, Waits
  <2>2. InQueue(i) /\ ~Gone(i)
    BY <2>1 DEF RingInv, SlotsTrue, DrainTrue, Gone
  <2>3. Spot(i) \in 1 .. Pending /\ Index(Spot(i)) = i
    BY <2>1, <2>2, SpotIs DEF RingInv
  <2>4. Spot(i) \in InRing
    BY <1>2, <2>1, <2>3
  <2> QED BY <2>3, <2>4
<1>6. F \in Bijection(InRing, Waiting)
  <2> HIDE DEF F
  <2> QED BY <1>3, <1>4, <1>5 DEF Bijection, Injection, Surjection, IsInjective
<1>7. IsFiniteSet(InRing)
  <2>1. IsFiniteSet(1 .. Pending)
    BY <1>1, FS_Interval
  <2> QED BY <1>1, <2>1, FS_Subset
<1> QED
  <2> HIDE DEF F
  <2> QED BY <1>6, <1>7, FS_Bijection DEF ExistsBijection

ReplyInv == Joined /\ RingInv /\ Counted

LEMMA ReplyInit == Init => ReplyInv
<1> SUFFICES ASSUME Init PROVE ReplyInv
  OBVIOUS
<1>1. InCall = {} /\ Waiting = {}
  <2>1. \A p \in Senders : ~Inside(p)
    BY DEF Init, Inside
  <2>2. \A i \in Slots : ~Waits(i)
    BY DEF Init, Waits, Blank
  <2> QED BY <2>1, <2>2, ShapeIs DEF CountShape
<1>2. Counted
  BY <1>1, FS_EmptySet DEF Counted, Init
<1> QED BY <1>2, RingInit DEF ReplyInv, Joined, Init

LEMMA ReplyStep == ~MayLap /\ ReplyInv /\ [Next]_vars => ReplyInv'
BY JoinedStep, RingStep, CountStep DEF ReplyInv

LEMMA InvCounts == ReplyInv => CountedOnce
BY QueueCounts DEF ReplyInv, Counted, CountedOnce

\* Every call of sendReply is accounted for, once: it is being made, waits in
\* the ring, went out or was counted as a drop; only an empty reply that found
\* no socket after stop() is counted by its sender and by the drain thread.
THEOREM AlwaysCountedOnce ==
    ASSUME ~MayLap
    PROVE  Spec => []CountedOnce
<1>1. ReplyInv /\ [Next]_vars => ReplyInv'
  BY ReplyStep
<1> QED BY <1>1, ReplyInit, InvCounts, PTL DEF Spec

-------------------------------------------------------------------------------
(* The queue it implements *)

Mapped == [k \in 1 .. Pending |-> Place(Index(k))]

\* A slot is held by one sender, which is who the mapping says.
HoldersTrue == \A p \in Senders : Filling(p) => Holder(h[p]) = p

LEMMA HolderIs == SlotsTrue => HoldersTrue
<1> SUFFICES ASSUME SlotsTrue, NEW p \in Senders, Filling(p) PROVE Holder(h[p]) = p
  BY DEF HoldersTrue
<1>1. \A q \in Senders : Filling(q) /\ h[q] = h[p] => q = p
  BY DEF SlotsTrue
<1> QED BY <1>1 DEF Holder

\* Where the places are, and which slots they are.
Placed ==
    /\ Laid /\ HoldersTrue
    /\ \A i \in Slots : InQueue(i) /\ ~Gone(i) => Spot(i) \in 1 .. Pending /\ Index(Spot(i)) = i
    /\ \A k \in 1 .. Pending : InQueue(Index(k)) /\ ~Gone(Index(k)) /\ Spot(Index(k)) = k

LEMMA PlacedIs == RingInv => Placed
<1> SUFFICES ASSUME RingInv PROVE Placed
  OBVIOUS
<1>1. Laid /\ HoldersTrue /\ RingTyped /\ DrainTrue
  BY LaidIs, HolderIs DEF RingInv
<1>2. \A i \in Slots : InQueue(i) /\ ~Gone(i) => Spot(i) \in 1 .. Pending /\ Index(Spot(i)) = i
  BY <1>1, SpotIs
<1>3. ASSUME NEW k \in 1 .. Pending
      PROVE  InQueue(Index(k)) /\ ~Gone(Index(k)) /\ Spot(Index(k)) = k
  <2>1. /\ Index(k) \in Slots /\ Apart(tail, Index(k)) = k - 1 + Off
        /\ Pending = Apart(tail, head) - Off /\ tail \in Slots /\ Off \in {0, 1}
        /\ Apart(tail, head) \in Nat /\ Apart(tail, tail) = 0 /\ Pending \in Nat
    BY <1>1, ApartIs DEF Laid, Off, RingTyped
  <2>2. InQueue(Index(k)) /\ Spot(Index(k)) = k
    BY <2>1 DEF InQueue, Spot
  <2>3. Off = 1 => Index(k) # tail
    BY <2>1
  <2> QED BY <2>2, <2>3 DEF Gone, Off
<1> QED BY <1>1, <1>2, <1>3 DEF Placed

LEMMA PlacedIsNext == RingInv' => Placed'
BY PlacedIs, PTL

\* A place is what its slot holds, or who holds it.
LEMMA PlaceIs ==
    ASSUME RingInv, NEW i \in Slots, InQueue(i), ~Gone(i)
    PROVE  /\ slot[i].ready => Place(i) = <<"filled", slot[i].body>>
           /\ ~slot[i].ready => \E p \in Senders : /\ Filling(p) /\ h[p] = i
                                                   /\ Place(i) = <<"held", p>>
<1>1. slot[i].ready => Place(i) = <<"filled", slot[i].body>>
  BY DEF Place
<1>2. ASSUME ~slot[i].ready
      PROVE  \E p \in Senders : Filling(p) /\ h[p] = i /\ Place(i) = <<"held", p>>
  <2>1. PICK p \in Senders : Filling(p) /\ h[p] = i
    BY <1>2 DEF RingInv, SlotsTrue
  <2>2. Holder(i) = p
    BY <2>1, HolderIs DEF RingInv, HoldersTrue
  <2> QED BY <1>2, <2>1, <2>2 DEF Place
<1> QED BY <1>1, <1>2

PlaceShape ==
    \A i \in Slots : InQueue(i) /\ ~Gone(i) =>
        /\ slot[i].ready => Place(i) = <<"filled", slot[i].body>>
        /\ \A p \in Senders : ~slot[i].ready /\ Filling(p) /\ h[p] = i => Place(i) = <<"held", p>>

LEMMA PlaceShapeIs == RingInv => PlaceShape
BY HolderIs DEF RingInv, HoldersTrue, PlaceShape, Place

LEMMA PlaceShapeIsNext == RingInv' => PlaceShape'
BY PlaceShapeIs, PTL

\* A slot that stays as it is stays the same place.
LEMMA PlaceKept ==
    ASSUME RingInv, RingInv', NEW i \in Slots, InQueue(i), ~Gone(i), InQueue(i)', ~Gone(i)',
           slot'[i].ready <=> slot[i].ready, slot[i].ready => slot'[i].body = slot[i].body,
           \A p \in Senders : Filling(p) /\ h[p] = i => Filling(p)' /\ h'[p] = i
    PROVE  Place(i)' = Place(i)
<1>1. CASE slot[i].ready
  BY <1>1, PlaceShapeIs, PlaceShapeIsNext DEF PlaceShape
<1>2. CASE ~slot[i].ready
  <2>1. PICK p \in Senders : Filling(p) /\ h[p] = i /\ Place(i) = <<"held", p>>
    BY <1>2, PlaceIs
  <2>2. Place(i)' = <<"held", p>>
    BY <1>2, <2>1, PlaceShapeIsNext DEF PlaceShape
  <2> QED BY <2>1, <2>2
<1> QED BY <1>1, <1>2

\* The same slots, the same places.
LEMMA SameQueue ==
    ASSUME RingInv, RingInv', Pending' = Pending,
           \A k \in 1 .. Pending : Index(k)' = Index(k),
           \A i \in Slots : slot'[i].ready <=> slot[i].ready,
           \A i \in Slots : slot[i].ready => slot'[i].body = slot[i].body,
           \A p \in Senders : Filling(p) => Filling(p)' /\ h'[p] = h[p]
    PROVE  Mapped' = Mapped
<1>1. ASSUME NEW k \in 1 .. Pending PROVE Place(Index(k))' = Place(Index(k))
  <2>1. PICK i \in Slots : i = Index(k)
    BY PlacedIs DEF Placed, Laid
  <2>2. Index(k)' = i
    BY <2>1
  <2>3. InQueue(i) /\ ~Gone(i)
    BY <2>1, PlacedIs DEF Placed
  <2>4. InQueue(i)' /\ ~Gone(i)'
    BY <2>2, PlacedIsNext DEF Placed
  <2>5. Place(i)' = Place(i)
    BY <2>3, <2>4, PlaceKept
  <2> QED BY <2>1, <2>2, <2>5
<1> QED BY <1>1 DEF Mapped

LEMMA SameLayout ==
    ASSUME UNCHANGED <<head, tail>>, drain' = "step" <=> drain = "step"
    PROVE  Pending' = Pending /\ First' = First /\ \A k : Index(k)' = Index(k)
BY DEF Pending, First, Index

LEMMA RestStutters ==
    ASSUME RingInv, RingInv', UNCHANGED <<head, tail, slot>>, drain' = "step" <=> drain = "step",
           \A p \in Senders : Filling(p) => Filling(p)' /\ h'[p] = h[p]
    PROVE  Mapped' = Mapped
BY SameLayout, SameQueue

LEMMA EncodeStutters ==
    ASSUME RingInv, RingInv', NEW p \in Senders, Encode(p)
    PROVE  Mapped' = Mapped
<1>1. /\ pc[p] = "fill" /\ pc' = [pc EXCEPT ![p] = "raise"] /\ h[p] \in Slots
      /\ UNCHANGED <<head, tail, h, moved, calls, known, drain, lifeVars, sent, doubled>>
      /\ \/ slot' = [slot EXCEPT ![h[p]].body = p] /\ drops' = drops
         \/ slot' = [slot EXCEPT ![h[p]].body = Empty] /\ drops' = drops + 1
  BY EncodeIs
<1>2. slot \in [Slots -> [ready : BOOLEAN, body : Bodies]]
      /\ pc \in [Senders -> {"idle", "check", "cas", "fill", "raise", "notify"}]
  BY DEF RingInv, RingTyped
<1>3. ~slot[h[p]].ready
  BY <1>1 DEF RingInv, SlotsTrue, Filling
<1>4. /\ \A i \in Slots : slot'[i].ready <=> slot[i].ready
      /\ \A i \in Slots : slot[i].ready => slot'[i].body = slot[i].body
  BY <1>1, <1>2, <1>3
<1>5. \A q \in Senders : Filling(q) => Filling(q)' /\ h'[q] = h[q]
  BY <1>1, <1>2 DEF Filling
<1> QED BY <1>1, <1>4, <1>5, SameLayout, SameQueue

LEMMA StepStutters ==
    ASSUME RingInv, RingInv', StepTail
    PROVE  Mapped' = Mapped
<1>1. /\ drain = "step" /\ drain' = "scan" /\ tail \in Slots /\ head \in Slots
      /\ tail' = NextSlot(tail) /\ NextSlot(tail) = After(tail) /\ tail # head
      /\ UNCHANGED <<head, slot, pc, h>>
  BY NextSlotIs DEF StepTail, RingInv, RingTyped, DrainTrue, senderVars
<1>2. First' = First
  BY <1>1 DEF First
<1>3. Pending = Apart(tail, head) - 1 /\ Pending' = Apart(After(tail), head)
  <2>1. Laid /\ Laid'
    BY PlacedIs, PlacedIsNext DEF Placed
  <2>2. Pending = Apart(tail, head) - Off /\ Pending' = Apart(tail, head)' - Off'
    BY <2>1 DEF Laid
  <2>3. Off = 1 /\ Off' = 0 /\ Apart(tail, head)' = Apart(After(tail), head)
    BY <1>1 DEF Off, Apart
  <2>4. Apart(After(tail), head) \in Nat
    BY <1>1, NextSlotIs, ApartIs
  <2> QED BY <2>2, <2>3, <2>4
<1>4. Pending' = Pending
  BY <1>1, <1>3, CapAssumption DEF Apart, After, Slots
<1>5. \A k \in 1 .. Pending : Index(k)' = Index(k)
  BY <1>2 DEF Index
<1>6. \A q \in Senders : Filling(q) => Filling(q)' /\ h'[q] = h[q]
  BY <1>1 DEF Filling
<1> QED BY <1>1, <1>4, <1>5, <1>6, SameQueue

LEMMA MappedIs ==
    ASSUME RingInv
    PROVE  /\ Pending \in Nat /\ Len(Mapped) = Pending /\ DOMAIN Mapped = 1 .. Pending
           /\ \A k \in 1 .. Pending : Mapped[k] = Place(Index(k))
<1>1. Pending \in Nat
  BY PlacedIs DEF Placed, Laid
<1> QED BY <1>1 DEF Mapped

\* The queue is a sequence.
MappedSeq == Pending \in Nat /\ Mapped \in Seq({Place(Index(k)) : k \in 1 .. Pending})

LEMMA MappedIsSeq == RingInv => MappedSeq
<1> SUFFICES ASSUME RingInv PROVE MappedSeq
  OBVIOUS
<1> DEFINE S == {Place(Index(k)) : k \in 1 .. Pending}
<1>1. Pending \in Nat
  BY PlacedIs DEF Placed, Laid
<1>2. Mapped \in [1 .. Pending -> S]
  BY DEF Mapped
<1>3. Mapped \in Seq(S)
  <2> HIDE DEF S
  <2> QED BY <1>1, <1>2
<1> QED BY <1>1, <1>3 DEF MappedSeq

\* Swinging the head reserves the last place.
LEMMA ClaimReserves ==
    ASSUME RingInv, RingInv', NEW p \in Senders, Claim(p), head = h[p]
    PROVE  Pending < Cap - 1 /\ Mapped' = Append(Mapped, <<"held", p>>)
<1>1. /\ pc[p] = "cas" /\ head \in Slots /\ tail \in Slots
      /\ pc \in [Senders -> {"idle", "check", "cas", "fill", "raise", "notify"}]
      /\ UNCHANGED <<tail, slot, drain, h>> /\ head' = After(head)
      /\ pc' = [pc EXCEPT ![p] = "fill"]
  BY NextSlotIs DEF Claim, RingInv, RingTyped
<1>2. After(head) # tail
  BY <1>1 DEF RingInv, ClaimsTrue
<1>3. Laid /\ Laid' /\ Placed /\ Placed'
  BY PlacedIs, PlacedIsNext DEF Placed
<1>4. /\ Apart(tail, head) \in Nat /\ Apart(tail, head) < Cap - 1
      /\ Apart(tail, After(head)) = Apart(tail, head) + 1
  BY <1>1, <1>2, CapAssumption DEF Apart, After, Slots
<1>5. Off' = Off /\ Off \in {0, 1} /\ Apart(tail, head)' = Apart(tail, head')
  BY <1>1 DEF Off, Apart
<1>6. Pending < Cap - 1 /\ Pending' = Pending + 1 /\ Pending \in Nat
  BY <1>1, <1>3, <1>4, <1>5, CapAssumption DEF Laid
<1>7. \A k \in 1 .. Pending + 1 : Index(k)' = Index(k)
  BY <1>1 DEF Index, First
<1>8. \A q \in Senders : Filling(q)' <=> Filling(q) \/ q = p
  BY <1>1 DEF Filling
<1>9. ASSUME NEW k \in 1 .. Pending PROVE Place(Index(k))' = Place(Index(k))
  <2>1. PICK i \in Slots : i = Index(k)
    BY <1>3 DEF Laid
  <2>2. Index(k)' = i /\ k \in 1 .. Pending'
    BY <1>6, <1>7, <2>1
  <2>3. InQueue(i) /\ ~Gone(i) /\ InQueue(i)' /\ ~Gone(i)'
    BY <1>3, <2>1, <2>2 DEF Placed
  <2>4. Place(i)' = Place(i)
    BY <1>1, <1>8, <2>3, PlaceKept
  <2> QED BY <2>1, <2>2, <2>4
<1>10. PICK n \in Nat, e \in Slots : n = Pending /\ e = head
  BY <1>1, <1>6
<1>11. Index(n + 1)' = e
  <2>1. PICK i \in Slots, k \in 1 .. Pending' : k = n + 1 /\ i = Index(k)'
    BY <1>3, <1>6, <1>10 DEF Laid
  <2>2. Apart(tail, i) = k - 1 + Off
    <3>1. Apart(tail, Index(k))' = k - 1 + Off'
      BY <1>3 DEF Laid
    <3> QED BY <1>1, <1>5, <2>1, <3>1 DEF Apart
  <2>3. Apart(tail, i) = Apart(tail, head)
    BY <1>3, <1>4, <1>5, <1>6, <1>10, <2>1, <2>2 DEF Laid
  <2>4. i = e
    BY <1>1, <1>10, <2>3, ApartSame
  <2> QED BY <2>1, <2>4
<1>12. Place(e)' = <<"held", p>>
  <2>1. Filling(p)' /\ h'[p] = e
    BY <1>1, <1>8, <1>10
  <2>2. InQueue(e)' /\ ~slot'[e].ready /\ ~Gone(e)'
    <3>1. InQueue(h[p])' /\ ~slot'[h'[p]].ready /\ ~Gone(h[p])'
      BY <2>1 DEF RingInv, SlotsTrue
    <3> QED BY <2>1, <3>1 DEF InQueue, Gone
  <2> QED BY <2>1, <2>2, PlaceShapeIsNext DEF PlaceShape
<1>13. Mapped' = Append(Mapped, <<"held", p>>)
  <2>1. Mapped' = [k \in 1 .. n + 1 |-> Place(Index(k))']
    BY <1>6, <1>10 DEF Mapped
  <2>2. Place(Index(n + 1))' = <<"held", p>>
    BY <1>11, <1>12
  <2>3. \A k \in 1 .. n : Place(Index(k))' = Place(Index(k))
    BY <1>9, <1>10
  <2>4. Mapped' = [k \in 1 .. n + 1 |-> IF k <= n THEN Place(Index(k)) ELSE <<"held", p>>]
    <3>1. ASSUME NEW k \in 1 .. n + 1
          PROVE  Place(Index(k))' = IF k <= n THEN Place(Index(k)) ELSE <<"held", p>>
      <4>1. CASE k <= n
        <5>1. k \in 1 .. n
          BY <4>1
        <5> QED BY <2>3, <4>1, <5>1
      <4>2. CASE ~(k <= n)
        <5>1. k = n + 1
          BY <4>2
        <5> QED BY <2>2, <4>2, <5>1
      <4> QED BY <4>1, <4>2
    <3> QED BY <2>1, <3>1
  <2>5. Mapped = [k \in 1 .. n |-> Place(Index(k))]
    BY <1>10 DEF Mapped
  <2> QED BY <2>4, <2>5
<1> QED BY <1>6, <1>13

\* Raising the flag fills the place.
LEMMA RaiseFills ==
    ASSUME RingInv, RingInv', NEW p \in Senders, Raise(p)
    PROVE  \E k \in 1 .. Pending, b \in Bodies :
              /\ Mapped[k] = <<"held", p>>
              /\ Mapped' = [Mapped EXCEPT ![k] = <<"filled", b>>]
<1>1. PICK e \in Slots : e = h[p]
  BY DEF RingInv, RingTyped
<1>2. /\ pc[p] = "raise" /\ pc' = [pc EXCEPT ![p] = "notify"]
      /\ UNCHANGED <<head, tail, h, drain>>
      /\ slot' = [slot EXCEPT ![e].ready = TRUE]
  BY <1>1 DEF Raise
<1>3. /\ slot \in [Slots -> [ready : BOOLEAN, body : Bodies]]
      /\ pc \in [Senders -> {"idle", "check", "cas", "fill", "raise", "notify"}]
  BY DEF RingInv, RingTyped
<1>4. PICK b \in Bodies : b = slot[e].body
  BY <1>3
<1>5. Filling(p) /\ InQueue(e) /\ ~slot[e].ready /\ ~Gone(e)
  BY <1>1, <1>2 DEF Filling, RingInv, SlotsTrue
<1>6. Place(e) = <<"held", p>>
  BY <1>1, <1>5, PlaceShapeIs DEF PlaceShape
<1>7. Placed /\ Placed' /\ Pending' = Pending /\ \A k : Index(k)' = Index(k)
  BY <1>2, PlacedIs, PlacedIsNext, SameLayout
<1>8. PICK m \in 1 .. Pending : m = Spot(e) /\ Index(m) = e
  BY <1>5, <1>7 DEF Placed
<1>9. Place(e)' = <<"filled", b>>
  <2>1. slot'[e].ready /\ slot'[e].body = b
    BY <1>2, <1>3, <1>4
  <2>2. Index(m)' = e
    BY <1>7, <1>8
  <2>3. InQueue(e)' /\ ~Gone(e)'
    BY <1>7, <1>8, <2>2 DEF Placed
  <2> QED BY <2>1, <2>3, PlaceShapeIsNext DEF PlaceShape
<1>10. ASSUME NEW k \in 1 .. Pending, k # m PROVE Place(Index(k))' = Place(Index(k))
  <2>1. PICK i \in Slots : i = Index(k)
    BY <1>7 DEF Placed, Laid
  <2>2. Index(k)' = i /\ k \in 1 .. Pending'
    BY <1>7, <2>1
  <2>3. InQueue(i) /\ ~Gone(i) /\ InQueue(i)' /\ ~Gone(i)'
    BY <1>7, <2>1, <2>2 DEF Placed
  <2>4. i # e
    BY <1>7, <1>8, <1>10, <2>1 DEF Placed
  <2>5. slot'[i] = slot[i]
    BY <1>2, <1>3, <2>4
  <2>6. \A q \in Senders : Filling(q) /\ h[q] = i => Filling(q)' /\ h'[q] = i
    BY <1>1, <1>2, <1>3, <2>4 DEF Filling
  <2>7. Place(i)' = Place(i)
    BY <2>3, <2>5, <2>6, PlaceKept
  <2> QED BY <2>1, <2>2, <2>7
<1>11. Mapped[m] = <<"held", p>>
  BY <1>6, <1>8 DEF Mapped
<1>12. Mapped' = [Mapped EXCEPT ![m] = <<"filled", b>>]
  <2>1. Place(Index(m))' = <<"filled", b>>
    <3>1. Index(m)' = e
      BY <1>7, <1>8
    <3> QED BY <1>9, <3>1
  <2>2. Mapped' = [k \in 1 .. Pending |-> Place(Index(k))']
    BY <1>7 DEF Mapped
  <2>3. Mapped' = [k \in 1 .. Pending |-> IF k = m THEN <<"filled", b>> ELSE Place(Index(k))]
    BY <1>10, <2>1, <2>2
  <2> QED BY <2>3 DEF Mapped
<1> QED BY <1>11, <1>12

\* Clearing the flag at the tail lets the first place go.
LEMMA ClearLeaves ==
    ASSUME RingInv, RingInv', ClearReady
    PROVE  /\ Mapped # <<>> /\ \E b \in Bodies : Head(Mapped) = <<"filled", b>>
           /\ Mapped' = Tail(Mapped)
<1>1. /\ drain = "clear" /\ drain' = "step" /\ tail \in Slots /\ head \in Slots
      /\ tail # head /\ slot[tail].ready
      /\ UNCHANGED <<head, tail, pc, h>>
      /\ slot' = [slot EXCEPT ![tail].ready = FALSE]
      /\ slot \in [Slots -> [ready : BOOLEAN, body : Bodies]]
  BY DEF ClearReady, RingInv, RingTyped, DrainTrue, senderVars
<1>2. Placed /\ Placed' /\ Laid /\ Laid' /\ Off = 0 /\ Off' = 1
  BY <1>1, PlacedIs, PlacedIsNext DEF Placed, Off
<1>3. Apart(tail, tail) = 0 /\ Apart(tail, head) \in Nat /\ Apart(tail, head) # 0
      /\ Apart(tail, head)' = Apart(tail, head)
  BY <1>1, ApartIs DEF Apart
<1>4. Pending = Apart(tail, head) /\ Pending' = Apart(tail, head) - 1
  BY <1>2, <1>3 DEF Laid
<1>5. PICK n \in Nat : Pending = n + 1 /\ Pending' = n
  <2>1. Apart(tail, head) - 1 \in Nat
    BY <1>3
  <2> QED BY <1>3, <1>4, <2>1
<1>6. Mapped[1] = <<"filled", slot[tail].body>> /\ slot[tail].body \in Bodies
  <2>1. InQueue(tail) /\ ~Gone(tail) /\ Spot(tail) = 1
    BY <1>1, <1>2, <1>3 DEF InQueue, Gone, Spot
  <2>2. 1 \in 1 .. Pending /\ Index(1) = tail
    BY <1>1, <1>2, <2>1 DEF Placed
  <2>3. Place(tail) = <<"filled", slot[tail].body>>
    BY <1>1 DEF Place
  <2> QED BY <1>1, <2>2, <2>3 DEF Mapped
<1>7. ASSUME NEW k \in 1 .. n PROVE Place(Index(k))' = Place(Index(k + 1))
  <2>1. PICK j \in 1 .. Pending : j = k + 1
    BY <1>5
  <2>2. PICK i \in Slots : i = Index(j)
    BY <1>2 DEF Laid
  <2>3. Apart(tail, i) = k
    BY <1>2, <2>1, <2>2 DEF Laid
  <2>4. PICK x \in Slots : x = Index(k)'
    BY <1>2, <1>5 DEF Laid
  <2>5. Apart(tail, x) = k
    <3>1. Apart(tail, Index(k))' = k - 1 + Off'
      BY <1>2, <1>5 DEF Laid
    <3> QED BY <1>1, <1>2, <2>4, <3>1 DEF Apart
  <2>6. x = i
    BY <1>1, <2>3, <2>5, ApartSame
  <2>7. InQueue(i) /\ ~Gone(i)
    BY <1>2, <2>2 DEF Placed
  <2>8. InQueue(i)' /\ ~Gone(i)'
    BY <1>2, <1>5, <2>4, <2>6 DEF Placed
  <2>9. i # tail
    BY <1>3, <2>3
  <2>10. slot'[i] = slot[i]
    BY <1>1, <2>9
  <2>11. \A q \in Senders : Filling(q) /\ h[q] = i => Filling(q)' /\ h'[q] = i
    BY <1>1 DEF Filling
  <2>12. Place(i)' = Place(i)
    BY <2>7, <2>8, <2>10, <2>11, PlaceKept
  <2> QED BY <2>1, <2>2, <2>4, <2>6, <2>12
<1>8. Mapped' = [k \in 1 .. n |-> Place(Index(k + 1))]
  <2>1. Mapped' = [k \in 1 .. n |-> Place(Index(k))']
    BY <1>5 DEF Mapped
  <2> QED BY <1>7, <2>1
<1>9. /\ Mapped # <<>> /\ Head(Mapped) = Mapped[1]
      /\ Tail(Mapped) = [k \in 1 .. n |-> Place(Index(k + 1))]
  <2> DEFINE S == {Place(Index(k)) : k \in 1 .. Pending}
  <2>1. Mapped = [k \in 1 .. n + 1 |-> Place(Index(k))]
    BY <1>5 DEF Mapped
  <2>2. Mapped \in Seq(S)
    BY MappedIsSeq DEF MappedSeq
  <2>3. Len(Mapped) = n + 1
    BY <2>1
  <2> HIDE DEF S
  <2>4. Mapped # <<>> /\ Head(Mapped) = Mapped[1]
    BY <2>2, <2>3
  <2>5. Len(Tail(Mapped)) = n /\ \A k \in 1 .. n : Tail(Mapped)[k] = Mapped[k + 1]
    BY <2>2, <2>3, <2>4, HeadTailProperties
  <2>6. Tail(Mapped) = [k \in 1 .. n |-> Mapped[k + 1]]
    <3>1. Tail(Mapped) \in Seq(S)
      BY <2>2, <2>4, HeadTailProperties
    <3>2. PICK t \in Seq(S) : t = Tail(Mapped)
      BY <3>1
    <3>3. t \in [1 .. n -> S]
      <4>1. Len(t) = n
        BY <2>5, <3>2
      <4>2. t \in [1 .. Len(t) -> S]
        OBVIOUS
      <4> QED BY <4>1, <4>2
    <3>4. t = [k \in 1 .. n |-> t[k]]
      BY <3>3
    <3> QED BY <2>5, <3>2, <3>4
  <2>7. \A k \in 1 .. n : Mapped[k + 1] = Place(Index(k + 1))
    BY <2>1
  <2> QED BY <2>4, <2>6, <2>7
<1> QED BY <1>6, <1>8, <1>9

MapInit == Init => Queue!QInit
LEMMA InitMaps == MapInit
<1> SUFFICES ASSUME Init PROVE Queue!QInit
  BY DEF MapInit
<1>1. Laid
  BY RingInit, LaidIs DEF RingInv
<1>2. Pending = 0
  BY <1>1 DEF Laid, Init, Apart, Off
<1> QED BY <1>2 DEF Queue!QInit

\* Every step of the ring is a step of the queue, or none.
LEMMA StepMaps ==
    ASSUME ~MayLap, ReplyInv, [Next]_vars
    PROVE  (\E p \in {<<"held", q>> : q \in Senders} : Queue!QReserve(p) \/ Queue!QFill(p))
              \/ Queue!QLeave \/ Mapped' = Mapped
<1>1. RingInv /\ RingInv' /\ Joined
  BY ReplyStep DEF ReplyInv
<1>2. CASE UNCHANGED vars
  <2>1. /\ UNCHANGED <<head, tail, slot>> /\ (drain' = "step" <=> drain = "step")
        /\ \A p \in Senders : Filling(p) => Filling(p)' /\ h'[p] = h[p]
    BY <1>2 DEF vars, senderVars, Filling
  <2> QED BY <1>1, <2>1, RestStutters
<1>3. ASSUME NEW p \in Senders, Claim(p), head = h[p] PROVE Queue!QReserve(<<"held", p>>)
  <2>1. Pending < Cap - 1 /\ Mapped' = Append(Mapped, <<"held", p>>)
    BY <1>1, <1>3, ClaimReserves
  <2>2. Len(Mapped) = Pending
    BY <1>1, MappedIs
  <2> QED BY <2>1, <2>2 DEF Queue!QReserve, Mapped
<1>4. ASSUME NEW p \in Senders, Raise(p) PROVE Queue!QFill(<<"held", p>>)
  <2>1. PICK k \in 1 .. Pending, b \in Bodies :
           Mapped[k] = <<"held", p>> /\ Mapped' = [Mapped EXCEPT ![k] = <<"filled", b>>]
    BY <1>1, <1>4, RaiseFills
  <2>2. k \in DOMAIN Mapped /\ <<"filled", b>> \in {<<"filled", c>> : c \in Senders \cup {Empty}}
    BY DEF Mapped, Bodies
  <2> QED BY <2>1, <2>2 DEF Queue!QFill, Mapped
<1>5. ASSUME NEW p \in Senders, Encode(p) PROVE Mapped' = Mapped
  BY <1>1, <1>5, EncodeStutters
<1>6. ASSUME NEW p \in Senders, \/ Call(p) \/ CheckFull(p) \/ Notify(p)
                                \/ Claim(p) /\ head # h[p]
      PROVE  Mapped' = Mapped
  <2>1. /\ UNCHANGED <<head, tail, slot>> /\ (drain' = "step" <=> drain = "step")
        /\ ~Filling(p)
        /\ \A q \in Senders \ {p} : pc'[q] = pc[q] /\ h'[q] = h[q]
    <3>1. pc \in [Senders -> {"idle", "check", "cas", "fill", "raise", "notify"}]
          /\ h \in [Senders -> Slots]
      BY <1>1 DEF RingInv, RingTyped
    <3> QED BY <1>6, <3>1 DEF Call, CheckFull, Notify, Claim, Return, Filling
  <2>2. \A q \in Senders : Filling(q) => Filling(q)' /\ h'[q] = h[q]
    BY <2>1 DEF Filling
  <2> QED BY <1>1, <2>1, <2>2, RestStutters
<1>7. CASE Capture \/ Peek \/ FallAsleep \/ Timeout \/ Scan \/ Send \/ Lifecycle
  <2>1. UNCHANGED <<head, tail, slot, pc, h>>
    BY <1>7 DEF Capture, Peek, FallAsleep, Timeout, Scan, Send, Lifecycle, StopFlag, StopNotify,
       StopJoin, Start, senderVars
  <2>2. drain' = "step" <=> drain = "step"
    BY <1>1, <1>7 DEF Joined, Capture, Peek, FallAsleep, Timeout, Scan, Send, Lifecycle,
       StopFlag, StopNotify, StopJoin, Start
  <2>3. \A q \in Senders : Filling(q) => Filling(q)' /\ h'[q] = h[q]
    BY <2>1 DEF Filling
  <2> QED BY <1>1, <2>1, <2>2, <2>3, RestStutters
<1>8. CASE ClearReady
  <2>1. /\ Mapped # <<>> /\ \E b \in Bodies : Head(Mapped) = <<"filled", b>>
        /\ Mapped' = Tail(Mapped)
    BY <1>1, <1>8, ClearLeaves
  <2>2. Head(Mapped) \in {<<"filled", c>> : c \in Senders \cup {Empty}}
    BY <2>1 DEF Bodies
  <2> QED BY <2>1, <2>2 DEF Queue!QLeave, Mapped
<1>9. CASE StepTail
  BY <1>1, <1>9, StepStutters
<1>10. ASSUME NEW p \in Senders, Call(p) \/ SenderStep(p)
       PROVE  (\E q \in Senders : Queue!QReserve(<<"held", q>>) \/ Queue!QFill(<<"held", q>>))
                 \/ Mapped' = Mapped
  BY <1>3, <1>4, <1>5, <1>6, <1>10 DEF SenderStep
<1> QED BY <1>2, <1>7, <1>8, <1>9, <1>10 DEF Next, DrainStep

\* A reply goes out in the order in which its place was reserved, once, and not
\* before it was written; no more than Cap - 1 wait.
THEOREM ImplementsReplies ==
    ASSUME ~MayLap
    PROVE  Spec => ImplementsReplyQueue
<1>1. ReplyInv /\ [Next]_vars => ReplyInv'
  BY ReplyStep
<1>2. ReplyInv /\ [Next]_vars => [Queue!QNext]_Mapped
  BY StepMaps DEF Queue!QNext
<1> QED BY <1>1, <1>2, ReplyInit, InitMaps, PTL
        DEF Spec, ImplementsReplyQueue, Queue!QSpec, Mapped, MapInit
===============================================================================
