--------------------------- MODULE AudioThreadProofs ---------------------------
(***************************************************************************)
(* Proofs about four structures the audio thread owns or shares: the       *)
(* three-buffer hand-over, for every set of objects, every number of       *)
(* drains and every depth of the store buffer; the object state kept by    *)
(* sequence number, for any number of objects and any stream of commands;  *)
(* the LTC chase, for any size of ring, frame and block; and the gain      *)
(* cache, for any number of slots, bins and objects.                       *)
(*                                                                         *)
(* TypeOK holds whatever the delay of the reader's claims.  The absence of *)
(* a data race and the consistency of a snapshot hold when a claim is seen *)
(* within one publish (Lag = 0).                                           *)
(***************************************************************************)
EXTENDS SnapshotBuffer, GainCache, LtcChase, StateModel, SequenceTheorems, FiniteSetTheorems, TLAPS

(* The object table *)

Entry == [val : Buffers \cup {None}, age : Nat]

\* Two of three buffers are forbidden at most, so the writer's search ends
\* inside the array.
LEMMA FreeBufferExists ==
    ASSUME NEW pub, NEW claimed
    PROVE  /\ FirstFree(pub, claimed) \in Buffers
           /\ FirstFree(pub, claimed) \notin {pub, claimed}
<1> DEFINE P(b) == /\ b \notin {pub, claimed}
                   /\ \A c \in Buffers : c < b => c \in {pub, claimed}
<1>1. \E b \in Buffers : P(b)
  <2>1. CASE 0 \notin {pub, claimed}
    BY <2>1 DEF Buffers
  <2>2. CASE 0 \in {pub, claimed} /\ 1 \notin {pub, claimed}
    BY <2>2 DEF Buffers
  <2>3. CASE 0 \in {pub, claimed} /\ 1 \in {pub, claimed}
    BY <2>3 DEF Buffers
  <2> QED BY <2>1, <2>2, <2>3
<1> HIDE DEF P
<1>2. FirstFree(pub, claimed) = CHOOSE b \in Buffers : P(b)
  BY DEF FirstFree, P
<1>3. /\ FirstFree(pub, claimed) \in Buffers
      /\ P(FirstFree(pub, claimed))
  BY <1>1, <1>2
<1> QED BY <1>3 DEF P

\* A publish makes every claim on its way one publish older and keeps it.
LEMMA AgedClaims ==
    ASSUME NEW d \in Seq(Entry)
    PROVE  /\ Aged(d) \in Seq(Entry)
           /\ Len(Aged(d)) = Len(d)
           /\ \A i \in 1 .. Len(d) :
                 /\ Aged(d)[i].val = d[i].val
                 /\ Aged(d)[i].age = d[i].age + 1
<1>1. /\ Len(d) \in Nat
      /\ DOMAIN d = 1 .. Len(d)
      /\ \A i \in 1 .. Len(d) : d[i] \in Entry
  BY LenProperties, ElementOfSeq
<1>2. Aged(d) = [i \in 1 .. Len(d) |->
                    [val |-> d[i].val, age |-> d[i].age + 1]]
  BY <1>1 DEF Aged
<1>3. \A i \in 1 .. Len(d) : [val |-> d[i].val, age |-> d[i].age + 1] \in Entry
  BY <1>1 DEF Entry
<1>4. Aged(d) \in Seq(Entry) /\ Len(Aged(d)) = Len(d)
  BY <1>1, <1>2, <1>3, LenProperties
<1> QED BY <1>2, <1>4

\* The newest claim on its way, if there is one.
LEMMA NewestClaim ==
    ASSUME NEW d \in Seq(Entry), d # <<>>
    PROVE  /\ Len(d) \in Nat \ {0}
           /\ Len(d) \in DOMAIN d
           /\ d[Len(d)] \in Entry
           /\ d[Len(d)].age \in Nat
<1>1. Len(d) \in Nat /\ Len(d) # 0 /\ DOMAIN d = 1 .. Len(d)
  BY LenProperties, EmptySeq
<1>2. Len(d) \in 1 .. Len(d)
  BY <1>1
<1>3. d[Len(d)] \in Entry
  BY <1>2, ElementOfSeq
<1> QED BY <1>1, <1>2, <1>3 DEF Entry

\* A store of the reader joins the claims on their way.
LEMMA StoredClaim ==
    ASSUME NEW d \in Seq(Entry), NEW b \in Buffers \cup {None}
    PROVE  LET e == Append(d, [val |-> b, age |-> 0])
           IN  /\ e \in Seq(Entry)
               /\ e # <<>>
               /\ e[Len(e)].val = b
<1> DEFINE new == [val |-> b, age |-> 0]
<1>1. new \in Entry /\ new.val = b
  BY DEF Entry
<1> HIDE DEF new
<1>2. /\ Append(d, new) \in Seq(Entry)
      /\ Len(Append(d, new)) = Len(d) + 1
      /\ Append(d, new)[Len(d) + 1] = new
      /\ Len(d) \in Nat
  BY <1>1, AppendProperties, LenProperties
<1>3. Append(d, new) # <<>>
  BY <1>2, EmptySeq, LenProperties
<1> QED BY <1>1, <1>2, <1>3 DEF new

\* When the oldest claim becomes visible, the newest stays the newest.
LEMMA VisibleClaim ==
    ASSUME NEW d \in Seq(Entry), d # <<>>
    PROVE  /\ Tail(d) = <<>> => Head(d) = d[Len(d)]
           /\ Tail(d) # <<>> => Tail(d)[Len(Tail(d))] = d[Len(d)]
<1>1. /\ Tail(d) \in Seq(Entry)
      /\ Len(Tail(d)) = Len(d) - 1
      /\ \A i \in 1 .. Len(Tail(d)) : Tail(d)[i] = d[i + 1]
      /\ Len(d) \in Nat \ {0}
  BY HeadTailProperties, NewestClaim
<1>2. ASSUME Tail(d) = <<>> PROVE Head(d) = d[Len(d)]
  <2>1. Len(d) = 1
    BY <1>1, <1>2, EmptySeq
  <2> QED BY <2>1
<1>3. ASSUME Tail(d) # <<>> PROVE Tail(d)[Len(Tail(d))] = d[Len(d)]
  <2>1. Len(Tail(d)) \in 1 .. Len(Tail(d))
    BY <1>1, <1>3, EmptySeq, LenProperties
  <2> QED BY <1>1, <2>1
<1> QED BY <1>2, <1>3

-----------------------------------------------------------------------------
\* Every variable keeps its type: no index outside the three buffers is ever
\* published, claimed or written.
THEOREM TypeCorrect == Spec => []TypeOK
<1>1. Init => TypeOK
  BY ConstantsAssumption DEF Init, TypeOK, Buffers, None
<1>2. TypeOK /\ [Next]_vars => TypeOK'
  <2> SUFFICES ASSUME TypeOK, [Next]_vars PROVE TypeOK'
    OBVIOUS
  <2> USE ConstantsAssumption DEF TypeOK, writerVars, readerVars
  <2>1. CASE Drain
    BY <2>1 DEF Drain
  <2>2. CASE LoadPublished
    BY <2>2 DEF LoadPublished
  <2>3. CASE LoadBusy
    BY <2>3, FreeBufferExists DEF LoadBusy
  <2>4. ASSUME NEW o \in Objects, CopyObject(o) PROVE TypeOK'
    BY <2>4 DEF CopyObject
  <2>5. CASE Publish
    <3>1. delayed' \in Seq([val : Buffers \cup {None}, age : Nat])
      BY <2>5, AgedClaims DEF Publish, Entry
    <3> QED BY <2>5, <3>1 DEF Publish
  <2>6. CASE CallEmpty
    BY <2>6, StoredClaim DEF CallEmpty, StoreBusy, Entry
  <2>7. CASE Call
    BY <2>7 DEF Call, PublishedVersion, Buffers, None
  <2>8. CASE Claim
    BY <2>8, StoredClaim DEF Claim, StoreBusy, Entry
  <2>9. CASE ConfirmAgain
    BY <2>9 DEF ConfirmAgain
  <2>10. CASE Confirm
    BY <2>10 DEF Confirm
  <2>11. ASSUME NEW o \in Objects, ReadObject(o) PROVE TypeOK'
    BY <2>11 DEF ReadObject
  <2>12. CASE Release
    BY <2>12, StoredClaim DEF Release, StoreBusy, Entry
  <2>13. CASE BecomeVisible
    <3>1. delayed \in Seq(Entry) /\ delayed # <<>>
      BY <2>13 DEF BecomeVisible, Entry
    <3>2. Head(delayed) \in Entry /\ Tail(delayed) \in Seq(Entry)
      BY <3>1, HeadTailProperties
    <3>3. Head(delayed).val \in Buffers \cup {None}
      BY <3>2 DEF Entry
    <3> QED BY <2>13, <3>2, <3>3 DEF BecomeVisible, Entry
  <2>14. CASE UNCHANGED vars
    BY <2>14 DEF vars
  <2> QED
    BY <2>1, <2>2, <2>3, <2>4, <2>5, <2>6, <2>7, <2>8, <2>9, <2>10, <2>11,
       <2>12, <2>13, <2>14 DEF Next, WriterStep, ReaderStep
<1> QED BY <1>1, <1>2, PTL DEF Spec

-----------------------------------------------------------------------------
LEMMA HandOverInit == Init => HandOver
<1> SUFFICES ASSUME Init PROVE HandOver
  OBVIOUS
<1>1. TypeOK
  BY ConstantsAssumption DEF Init, TypeOK, Buffers, None
<1> QED
  BY <1>1 DEF Init, HandOver, PublishedTable, WriterAway, ClaimStands, ReadTable,
              NoDataRace, PublishedVersion

\* No step of the audio thread disturbs the hand-over.
LEMMA WriterKeepsHandOver ==
    ASSUME Lag = 0, HandOver, TypeOK', Drain \/ WriterStep
    PROVE  HandOver'
<1> USE DEF HandOver, TypeOK
<1>1. CASE Drain
  <2>1. PublishedVersion' = PublishedVersion /\ cache' >= 1
    BY <1>1, ConstantsAssumption DEF Drain, PublishedVersion
  <2> QED
    BY <1>1, <2>1 DEF Drain, PublishedTable, WriterAway, ClaimStands, ReadTable,
       NoDataRace, LastClaim, readerVars
<1>2. CASE LoadPublished
  BY <1>2 DEF LoadPublished, PublishedTable, WriterAway, ClaimStands, ReadTable,
              NoDataRace, PublishedVersion, LastClaim, readerVars
<1>3. CASE LoadBusy
  <2>1. /\ w' \notin {published, busy}
        /\ wleft' = Objects
    BY <1>3, FreeBufferExists DEF LoadBusy, WriterAway
  <2>2. rpc = "copy" => w' # idx
    <3> SUFFICES ASSUME rpc = "copy" PROVE w' # idx
      OBVIOUS
    <3>1. CASE delayed = <<>>
      BY <2>1, <3>1 DEF ClaimStands, LastClaim
    <3>2. CASE delayed # <<>>
      <4>0. delayed \in Seq(Entry)
        BY DEF Entry
      <4>1. Len(delayed) \in DOMAIN delayed /\ delayed[Len(delayed)].age \in Nat
        BY <4>0, <3>2, NewestClaim
      <4>2. delayed[Len(delayed)].age = 0
        BY <1>3, <4>1 DEF LoadBusy, ClaimsVisible, Entry
      <4> QED BY <2>1, <3>2, <4>2 DEF ClaimStands
    <3> QED BY <3>1, <3>2
  <2> QED
    BY <1>3, <2>1, <2>2 DEF LoadBusy, PublishedTable, WriterAway, ClaimStands,
       ReadTable, NoDataRace, PublishedVersion, LastClaim, readerVars
<1>4. ASSUME NEW o \in Objects, CopyObject(o) PROVE HandOver'
  <2>1. /\ \A b \in Buffers \ {w} : buf'[b] = buf[b]
        /\ \A p \in Objects \ {o} : buf'[w][p] = buf[w][p]
        /\ buf'[w][o] = cache
    BY <1>4 DEF CopyObject
  <2>2. WriterAway'
    BY <1>4, <2>1 DEF CopyObject, WriterAway
  <2>3. PublishedTable'
    BY <1>4, <2>1 DEF CopyObject, WriterAway, PublishedTable, PublishedVersion
  <2>4. ReadTable'
    <3>1. PublishedVersion' = PublishedVersion
      BY <1>4 DEF CopyObject, PublishedVersion
    <3>2. rpc = "copy" => buf'[idx] = buf[idx]
      BY <1>4, <2>1 DEF CopyObject, NoDataRace
    <3>3. CASE rpc = "copy"
      <4>1. PICK v \in since .. PublishedVersion :
                /\ \A p \in Objects : buf[idx][p] = v
                /\ \A p \in Objects \ rleft : out[p] = v
        BY <3>3 DEF ReadTable
      <4>2. /\ since' <= PublishedVersion'
            /\ v \in since' .. PublishedVersion'
            /\ \A p \in Objects : buf'[idx'][p] = v
            /\ \A p \in Objects \ rleft' : out'[p] = v
        BY <1>4, <3>1, <3>2, <3>3, <4>1 DEF CopyObject, ReadTable, readerVars
      <4> QED BY <4>2 DEF ReadTable
    <3>4. CASE rpc # "copy"
      BY <1>4, <3>1, <3>4 DEF CopyObject, ReadTable, readerVars
    <3> QED BY <3>3, <3>4
  <2> QED
    BY <1>4, <2>2, <2>3, <2>4 DEF CopyObject, ClaimStands, NoDataRace, LastClaim,
       readerVars
<1>5. CASE Publish
  <2>1. PublishedTable' /\ WriterAway' /\ NoDataRace'
    BY <1>5 DEF Publish, PublishedTable, WriterAway, NoDataRace, PublishedVersion, None,
       Buffers
  <2>2. ReadTable'
    <3>1. PublishedVersion' = PublishedVersion + 1 /\ PublishedVersion \in Nat
      BY <1>5, ConstantsAssumption DEF Publish, WriterAway, PublishedVersion
    <3>2. CASE rpc = "copy"
      <4>1. PICK v \in since .. PublishedVersion :
                /\ \A p \in Objects : buf[idx][p] = v
                /\ \A p \in Objects \ rleft : out[p] = v
        BY <3>2 DEF ReadTable
      <4>2. /\ since' <= PublishedVersion'
            /\ v \in since' .. PublishedVersion'
            /\ \A p \in Objects : buf'[idx'][p] = v
            /\ \A p \in Objects \ rleft' : out'[p] = v
        BY <1>5, <3>1, <3>2, <4>1 DEF Publish, readerVars
      <4> QED BY <4>2 DEF ReadTable
    <3>3. CASE rpc # "copy"
      BY <1>5, <3>1, <3>3 DEF Publish, ReadTable, readerVars
    <3> QED BY <3>2, <3>3
  <2>3. ClaimStands'
    <3>1. delayed \in Seq(Entry)
      BY DEF Entry
    <3>2. /\ Len(delayed') = Len(delayed)
          /\ delayed' = <<>> <=> delayed = <<>>
          /\ delayed # <<>> =>
               /\ delayed'[Len(delayed)].val = delayed[Len(delayed)].val
               /\ delayed'[Len(delayed)].age = delayed[Len(delayed)].age + 1
               /\ delayed[Len(delayed)].age \in Nat
      <4>1. delayed' = Aged(delayed)
        BY <1>5 DEF Publish
      <4>2. /\ Len(delayed') = Len(delayed)
            /\ delayed' = <<>> <=> delayed = <<>>
        BY <3>1, <4>1, AgedClaims, EmptySeq, LenProperties
      <4>3. ASSUME delayed # <<>>
            PROVE  /\ Len(delayed) \in 1 .. Len(delayed)
                   /\ delayed[Len(delayed)].age \in Nat
        BY <3>1, <4>3, NewestClaim
      <4>4. ASSUME delayed # <<>>
            PROVE  /\ delayed'[Len(delayed)].val = delayed[Len(delayed)].val
                   /\ delayed'[Len(delayed)].age = delayed[Len(delayed)].age + 1
        BY <3>1, <4>1, <4>3, <4>4, AgedClaims
      <4> QED BY <4>2, <4>3, <4>4
    <3>3. LastClaim' = LastClaim
      BY <1>5, <3>2 DEF Publish, LastClaim
    <3> QED
      BY <1>5, <3>2, <3>3 DEF Publish, ClaimStands, readerVars
  <2> QED BY <2>1, <2>2, <2>3
<1> QED BY <1>1, <1>2, <1>3, <1>4, <1>5 DEF WriterStep

\* No step of the control thread, and no store becoming visible, disturbs it.
LEMMA ReaderKeepsHandOver ==
    ASSUME HandOver, TypeOK', ReaderStep \/ BecomeVisible
    PROVE  HandOver'
<1> USE DEF HandOver, TypeOK
<1>0. delayed \in Seq(Entry)
  BY DEF Entry
<1>1. ASSUME NEW b \in Buffers \cup {None}, StoreBusy(b),
             UNCHANGED <<published, busy>>,
             (rpc' = "confirm" /\ idx' = b) \/ rpc' = "idle"
      PROVE  ClaimStands'
  <2>1. /\ delayed' # <<>>
        /\ delayed'[Len(delayed')].val = b
    BY <1>0, <1>1, StoredClaim DEF StoreBusy
  <2> QED BY <1>1, <2>1 DEF ClaimStands, LastClaim
<1>2. CASE CallEmpty
  BY <1>1, <1>2 DEF CallEmpty, PublishedTable, WriterAway, ReadTable, NoDataRace,
     PublishedVersion, ClaimStands, writerVars, readerVars
<1>3. CASE Call
  <2>1. PublishedVersion \in Int
    BY ConstantsAssumption DEF PublishedVersion
  <2> QED
    BY <1>3, <2>1 DEF Call, PublishedTable, WriterAway, ReadTable, NoDataRace,
       PublishedVersion, ClaimStands, LastClaim, writerVars
<1>4. CASE Claim
  BY <1>1, <1>4 DEF Claim, PublishedTable, WriterAway, ReadTable, NoDataRace,
     PublishedVersion, ClaimStands, writerVars
<1>5. CASE ConfirmAgain
  BY <1>5 DEF ConfirmAgain, PublishedTable, WriterAway, ReadTable, NoDataRace,
     PublishedVersion, ClaimStands, LastClaim, writerVars
<1>6. CASE Confirm
  <2>1. ReadTable'
    <3>1. /\ PublishedVersion \in Int
          /\ PublishedVersion' = PublishedVersion
      BY <1>6, ConstantsAssumption DEF Confirm, PublishedVersion, writerVars
    <3>2. PublishedVersion \in since .. PublishedVersion
      BY <1>6, <3>1 DEF Confirm, ReadTable
    <3>3. \A o \in Objects : buf[idx][o] = PublishedVersion
      BY <1>6, None \notin Buffers DEF Confirm, PublishedTable, None, Buffers
    <3> QED BY <1>6, <3>1, <3>2, <3>3 DEF Confirm, ReadTable
  <2>2. NoDataRace' /\ ClaimStands'
    BY <1>6 DEF Confirm, NoDataRace, ClaimStands, LastClaim, WriterAway, writerVars
  <2> QED
    BY <1>6, <2>1, <2>2 DEF Confirm, PublishedTable, WriterAway, PublishedVersion,
       writerVars
<1>7. ASSUME NEW o \in Objects, ReadObject(o) PROVE HandOver'
  <2>1. ReadTable'
    <3>1. PICK v \in since .. PublishedVersion :
              /\ \A p \in Objects : buf[idx][p] = v
              /\ \A p \in Objects \ rleft : out[p] = v
      BY <1>7 DEF ReadObject, ReadTable
    <3>2. /\ since' <= PublishedVersion'
          /\ v \in since' .. PublishedVersion'
          /\ \A p \in Objects : buf'[idx'][p] = v
          /\ \A p \in Objects \ rleft' : out'[p] = v
      BY <1>7, <3>1 DEF ReadObject, ReadTable, PublishedVersion, writerVars
    <3> QED BY <3>2 DEF ReadTable
  <2> QED
    BY <1>7, <2>1 DEF ReadObject, PublishedTable, WriterAway, NoDataRace, ClaimStands,
       LastClaim, PublishedVersion, writerVars
<1>8. CASE Release
  <2>1. ClaimStands'
    BY <1>1, <1>8 DEF Release
  <2> QED
    BY <1>8, <2>1 DEF Release, PublishedTable, WriterAway, ReadTable, NoDataRace,
       PublishedVersion, writerVars
<1>9. CASE BecomeVisible
  <2>1. ClaimStands'
    <3>1. /\ delayed # <<>>
          /\ busy' = Head(delayed).val
          /\ delayed' = Tail(delayed)
          /\ UNCHANGED <<published, rpc, idx>>
      BY <1>9 DEF BecomeVisible, readerVars
    <3>2. LastClaim' = LastClaim
      BY <1>0, <3>1, VisibleClaim DEF LastClaim
    <3>3. delayed' # <<>> =>
            delayed'[Len(delayed')] = delayed[Len(delayed)]
      BY <1>0, <3>1, VisibleClaim
    <3> QED BY <3>1, <3>2, <3>3 DEF ClaimStands
  <2> QED
    BY <1>9, <2>1 DEF BecomeVisible, PublishedTable, WriterAway, ReadTable, NoDataRace,
       PublishedVersion, writerVars, readerVars
<1> QED
  BY <1>2, <1>3, <1>4, <1>5, <1>6, <1>7, <1>8, <1>9 DEF ReaderStep

\* The inductive invariant of the hand-over, for claims seen within a publish.
THEOREM HandOverInvariant ==
    ASSUME Lag = 0
    PROVE  Spec => []HandOver
<1>1. HandOver /\ TypeOK' /\ [Next]_vars => HandOver'
  <2> SUFFICES ASSUME HandOver, TypeOK', [Next]_vars PROVE HandOver'
    OBVIOUS
  <2>1. CASE Drain \/ WriterStep
    BY <2>1, WriterKeepsHandOver
  <2>2. CASE ReaderStep \/ BecomeVisible
    BY <2>2, ReaderKeepsHandOver
  <2>3. CASE UNCHANGED vars
    BY <2>3 DEF vars, writerVars, readerVars, HandOver, PublishedTable, WriterAway,
       ClaimStands, ReadTable, NoDataRace, PublishedVersion, LastClaim
  <2> QED BY <2>1, <2>2, <2>3 DEF Next
<1> QED BY <1>1, HandOverInit, TypeCorrect, PTL DEF Spec

\* A scene save reads a buffer nobody writes, and sees one drain, never older
\* than its request.
THEOREM SnapshotsConsistent ==
    ASSUME Lag = 0
    PROVE  Spec => []ConsistentSnapshot
<1>1. HandOver => ConsistentSnapshot
  <2> SUFFICES ASSUME HandOver, rpc = "copy"
               PROVE  \E v \in since .. cache : \A o \in Objects \ rleft : out[o] = v
    BY DEF ConsistentSnapshot, HandOver
  <2>1. PICK v \in since .. PublishedVersion : \A o \in Objects \ rleft : out[o] = v
    BY DEF HandOver, ReadTable
  <2>2. v \in since .. cache
    BY <2>1, ConstantsAssumption DEF HandOver, TypeOK, PublishedVersion
  <2> QED BY <2>1, <2>2
<1> QED BY <1>1, HandOverInvariant, PTL

-----------------------------------------------------------------------------
(* Refinement.                                                             *)

\* A publish replaces the table by the next version of every slot.
LEMMA PublishReplacesTable ==
    ASSUME HandOver, Publish
    PROVE  LatestTable' = [o \in Objects |-> LatestTable[o] + 1]
<1> USE DEF HandOver, TypeOK
<1>1. LatestTable' = buf[w]
  BY None \notin Buffers DEF Publish, LatestTable, None, Buffers
<1>2. /\ PublishedVersion = cache - 1
      /\ \A o \in Objects : buf[w][o] = cache
  BY DEF Publish, PublishedVersion, WriterAway
<1>3. \A o \in Objects : LatestTable[o] = PublishedVersion
  BY DEF LatestTable, PublishedTable
<1>4. ASSUME NEW o \in Objects PROVE buf[w][o] = LatestTable[o] + 1
  <2>1. cache \in Int /\ cache = (cache - 1) + 1
    BY ConstantsAssumption
  <2>2. buf[w][o] = cache /\ LatestTable[o] = cache - 1
    BY <1>2, <1>3
  <2> QED BY <2>1, <2>2
<1>5. buf[w] \in [Objects -> Nat]
  OBVIOUS
<1> QED BY <1>1, <1>4, <1>5

\* The three-buffer hand-over implements the atomic object table.
THEOREM Refinement ==
    ASSUME Lag = 0
    PROVE  Spec => ImplementsAtomicSnapshot
<1> USE DEF LatestTable, CallState, TakenTable
<1>1. Init => Atomic!AInit
  BY DEF Init, Atomic!AInit, Atomic!Version
<1>2. HandOver /\ [Next]_vars => [Atomic!ANext]_(Atomic!aVars)
  <2> SUFFICES ASSUME HandOver, [Next]_vars
               PROVE  \/ Atomic!ANext
                      \/ UNCHANGED <<LatestTable, CallState, TakenTable>>
    BY DEF Atomic!aVars
  <2> USE DEF HandOver, TypeOK
  <2>1. ASSUME UNCHANGED <<buf, published, readerVars>>
        PROVE  UNCHANGED <<LatestTable, CallState, TakenTable>>
    BY <2>1 DEF readerVars
  <2>2. CASE Drain \/ LoadPublished \/ LoadBusy
    BY <2>1, <2>2 DEF Drain, LoadPublished, LoadBusy
  <2>3. ASSUME NEW o \in Objects, CopyObject(o)
        PROVE  UNCHANGED <<LatestTable, CallState, TakenTable>>
    <3>1. \A b \in Buffers \ {w} : buf'[b] = buf[b]
      BY <2>3 DEF CopyObject
    <3> QED BY <2>3, <3>1 DEF CopyObject, WriterAway, NoDataRace, readerVars
  <2>4. CASE Publish
    <3>1. UNCHANGED <<CallState, TakenTable>>
      BY <2>4 DEF Publish, readerVars
    <3> QED BY <2>4, <3>1, PublishReplacesTable DEF Atomic!ANext, Atomic!APublish
  <2>5. CASE CallEmpty \/ BecomeVisible
    BY <2>1, <2>5 DEF CallEmpty, BecomeVisible
  <2>6. CASE Call
    BY <2>6 DEF Call, Atomic!ANext, Atomic!AOpen
  <2>7. CASE Claim \/ ConfirmAgain
    BY <2>7 DEF Claim, ConfirmAgain
  <2>8. CASE Confirm
    <3>1. published # None
      BY <2>8, None \notin Buffers DEF Confirm, None, Buffers
    <3> QED BY <2>8, <3>1 DEF Confirm, Atomic!ANext, Atomic!ATake
  <2>9. ASSUME NEW o \in Objects, ReadObject(o)
        PROVE  UNCHANGED <<LatestTable, CallState, TakenTable>>
    BY <2>9 DEF ReadObject
  <2>10. CASE Release
    <3>1. out = buf[idx]
      <4>1. \A o \in Objects : out[o] = buf[idx][o]
        BY <2>10 DEF Release, ReadTable
      <4>2. out \in [Objects -> Nat] /\ buf[idx] \in [Objects -> Nat]
        BY <2>10 DEF Release
      <4> QED BY <4>1, <4>2
    <3> QED BY <2>10, <3>1 DEF Release, Atomic!ANext, Atomic!AClose
  <2>11. CASE UNCHANGED vars
    BY <2>1, <2>11 DEF vars
  <2> QED
    BY <2>2, <2>3, <2>4, <2>5, <2>6, <2>7, <2>8, <2>9, <2>10, <2>11
       DEF Next, WriterStep, ReaderStep
<1> QED
  BY <1>1, <1>2, HandOverInvariant, PTL DEF Spec, ImplementsAtomicSnapshot, Atomic!ASpec

-------------------------------------------------------------------------------
(* The object state *)

\* A command that is about an object sets one of its fields.
LEMMA KnownCommand ==
    ASSUME NEW s \in DOMAIN Stream, ObjectKnown(s)
    PROVE  /\ s \in Nat
           /\ Stream[s].obj \in 0 .. STATE_MAX_OBJECTS - 1
           /\ FieldOf[Stream[s].tag] \in Fields
  BY StreamAssumption, StateAssumption DEF ObjectKnown, Fields

\* No entry is valid at first.
LEMMA BlankEntry ==
    /\ ObjectEntry \in [last_applied_seq : Nat, valid : BOOLEAN, set : [Fields -> Nat]]
    /\ ~ObjectEntry.valid
    /\ \A f \in Fields : ObjectEntry.set[f] = 0
  BY DEF ObjectEntry

LEMMA WatermarkInit == StateInit => Watermark
<1> SUFFICES ASSUME StateInit PROVE Watermark
  OBVIOUS
<1>1. heard = {} /\ objects = NoObjects /\ \A o : HeardOf(o) = {}
  BY DEF StateInit, HeardOf
<1> QED BY <1>1, BlankEntry DEF Watermark, NoObjects

\* An arrival for another object changes nothing that is heard of this one.
LEMMA HeardMore ==
    ASSUME NEW seq \in DOMAIN Stream, Remember(seq), Stream[seq].tag # "SysReset",
           NEW o
    PROVE  HeardOf(o)' = IF ObjectKnown(seq) /\ Stream[seq].obj = o
                         THEN HeardOf(o) \cup {seq} ELSE HeardOf(o)
  BY DEF Remember, HeardOf, ObjectKnown

\* A command newer than the entry moves the watermark to itself.
LEMMA ApplyKeepsWatermark ==
    ASSUME Watermark, NEW seq \in DOMAIN Stream, ApplyNewer(seq), Remember(seq)
    PROVE  Watermark'
<1> DEFINE c == Stream[seq].obj
           e == objects[c]
           F == FieldOf[Stream[seq].tag]
<1>1. /\ ObjectKnown(seq) /\ Newer(e, seq) /\ Stream[seq].tag # "SysReset"
      /\ objects' = [objects EXCEPT ![c] = Set(e, Stream[seq].tag, seq)]
  BY DEF ApplyNewer, ObjectKnown, FieldOf
<1>2. seq \in Nat /\ c \in 0 .. STATE_MAX_OBJECTS - 1 /\ F \in Fields
  BY <1>1, KnownCommand
<1>3. c \in DOMAIN objects /\ e \in [last_applied_seq : Nat, valid : BOOLEAN, set : [Fields -> Nat]]
  BY <1>2 DEF Watermark
<1>4. objects'[c] = [last_applied_seq |-> seq, valid |-> TRUE, set |-> [e.set EXCEPT ![F] = seq]]
  BY <1>1, <1>3 DEF Set
<1>5. objects' \in [0 .. STATE_MAX_OBJECTS - 1 ->
                    [last_applied_seq : Nat, valid : BOOLEAN, set : [Fields -> Nat]]]
  <2>1. [e.set EXCEPT ![F] = seq] \in [Fields -> Nat]
    BY <1>2, <1>3
  <2> QED BY <1>1, <1>2, <1>4, <2>1 DEF Watermark, Set
<1>6. heard' \subseteq DOMAIN Stream
  BY <1>1 DEF Remember, Watermark
<1>7. HeardOf(c)' = HeardOf(c) \cup {seq}
  BY <1>1, HeardMore
<1>8. \A s \in HeardOf(c) : s \in Nat /\ s <= seq
  <2> SUFFICES ASSUME NEW s \in HeardOf(c) PROVE s \in Nat /\ s <= seq
    OBVIOUS
  <2>1. e.valid /\ s <= e.last_applied_seq
    BY <1>3 DEF Watermark
  <2>2. s \in Nat
    BY StreamAssumption DEF HeardOf, Watermark
  <2> QED BY <1>1, <1>2, <1>3, <2>1, <2>2 DEF Newer
<1>9. ASSUME NEW o \in DOMAIN objects', o # c
      PROVE  objects'[o] = objects[o] /\ HeardOf(o)' = HeardOf(o) /\ o \in DOMAIN objects
  BY <1>1, <1>5, <1>9, HeardMore DEF Watermark
<1>10. \A f \in Fields : objects'[c].set[f] \in HeardOf(c)' \cup {0}
  <2> SUFFICES ASSUME NEW f \in Fields PROVE objects'[c].set[f] \in HeardOf(c)' \cup {0}
    OBVIOUS
  <2>1. e.set[f] \in HeardOf(c) \cup {0}
    BY <1>3 DEF Watermark
  <2> QED BY <1>3, <1>4, <1>7, <2>1
<1>11. objects'[c].set[F] = seq /\ objects'[c].valid /\ objects'[c].last_applied_seq = seq
  BY <1>2, <1>3, <1>4
<1> QED
  <2>1. ASSUME NEW o \in DOMAIN objects'
        PROVE  LET d == objects'[o] IN
               /\ d.valid <=> HeardOf(o)' # {}
               /\ d.valid => /\ d.last_applied_seq \in HeardOf(o)'
                             /\ \A s \in HeardOf(o)' : s <= d.last_applied_seq
                             /\ d.set[FieldOf[Stream[d.last_applied_seq].tag]] = d.last_applied_seq
               /\ \A f \in Fields : d.set[f] \in HeardOf(o)' \cup {0}
    <3>1. CASE o = c
      BY <3>1, <1>2, <1>7, <1>8, <1>10, <1>11
    <3>2. CASE o # c
      BY <3>2, <1>9 DEF Watermark
    <3> QED BY <3>1, <3>2
  <2> QED BY <1>5, <1>6, <2>1 DEF Watermark

\* What is dropped is not newer than the watermark.
LEMMA DropKeepsWatermark ==
    ASSUME Watermark, NEW seq \in DOMAIN Stream, DropLate(seq), Remember(seq)
    PROVE  Watermark'
<1> DEFINE c == Stream[seq].obj
<1>1. /\ ObjectKnown(seq) /\ ~Newer(objects[c], seq) /\ Stream[seq].tag # "SysReset"
      /\ objects' = objects
  BY DEF DropLate, ObjectKnown, FieldOf
<1>2. seq \in Nat /\ c \in DOMAIN objects
  BY <1>1, KnownCommand DEF Watermark
<1>3. objects[c].valid /\ seq <= objects[c].last_applied_seq
  BY <1>1, <1>2 DEF Newer, Watermark
<1>4. heard' \subseteq DOMAIN Stream
  BY <1>1 DEF Remember, Watermark
<1>5. \A o : HeardOf(o)' = IF o = c THEN HeardOf(o) \cup {seq} ELSE HeardOf(o)
  BY <1>1, HeardMore
<1> QED BY <1>1, <1>2, <1>3, <1>4, <1>5 DEF Watermark

\* Commands about no object, the reset among them.
LEMMA OtherKeepsWatermark ==
    ASSUME Watermark, NEW seq \in DOMAIN Stream, Remember(seq),
           ApplyAlgoSwap(seq) \/ ApplyReset(seq) \/ Ignore(seq)
    PROVE  Watermark'
<1>1. CASE ApplyReset(seq)
  <2>1. heard' = {} /\ objects' = NoObjects /\ \A o : HeardOf(o)' = {}
    BY <1>1 DEF ApplyReset, Remember, HeardOf
  <2> QED BY <2>1, BlankEntry DEF Watermark, NoObjects
<1>2. CASE ApplyAlgoSwap(seq) \/ Ignore(seq)
  <2>1. objects' = objects /\ ~ObjectKnown(seq) /\ Stream[seq].tag # "SysReset"
    BY <1>2 DEF ApplyAlgoSwap, Ignore, ObjectKnown, FieldOf
  <2>2. heard' \subseteq DOMAIN Stream
    BY <2>1 DEF Remember, Watermark
  <2>3. \A o : HeardOf(o)' = HeardOf(o)
    BY <2>1, HeardMore
  <2> QED BY <2>1, <2>2, <2>3 DEF Watermark
<1> QED BY <1>1, <1>2

LEMMA StepKeepsWatermark == Watermark /\ [StateNext]_stateVars => Watermark'
<1> SUFFICES ASSUME Watermark, [StateNext]_stateVars PROVE Watermark'
  OBVIOUS
<1>1. CASE Arrive
  BY <1>1, ApplyKeepsWatermark, DropKeepsWatermark, OtherKeepsWatermark DEF Arrive
<1>2. CASE SetPendingSofaName \/ Tick \/ UNCHANGED stateVars
  BY <1>2 DEF SetPendingSofaName, Tick, stateVars, Watermark, HeardOf
<1> QED BY <1>1, <1>2 DEF StateNext

\* Of all that arrived for an object the newest command is in effect.
THEOREM NewestInEffect == StateSpec => []NewestWins
<1>1. Watermark => NewestWins
  <2> SUFFICES ASSUME Watermark, NEW o \in DOMAIN objects, NEW s \in HeardOf(o),
                      \A t \in HeardOf(o) : t <= s
               PROVE  objects[o].set[FieldOf[Stream[s].tag]] = s
    BY DEF NewestWins, Watermark
  <2>1. /\ objects[o].valid /\ objects[o].last_applied_seq \in HeardOf(o)
        /\ s <= objects[o].last_applied_seq /\ objects[o].last_applied_seq <= s
    BY DEF Watermark
  <2>2. s \in Nat /\ objects[o].last_applied_seq \in Nat
    BY <2>1, StreamAssumption DEF HeardOf, Watermark
  <2>3. s = objects[o].last_applied_seq
    BY <2>1, <2>2
  <2> QED BY <2>1, <2>3 DEF Watermark
<1> QED BY <1>1, WatermarkInit, StepKeepsWatermark, PTL DEF StateSpec

-------------------------------------------------------------------------------
(* Remainders, and a ring of places *)

LEMMA QuotientIs ==
    ASSUME NEW a \in Int, NEW c \in Nat \ {0}
    PROVE  /\ a = c * (a \div c) + (a % c)
           /\ a \div c \in Int /\ a % c \in 0 .. c - 1
OBVIOUS

LEMMA RemainderIs ==
    ASSUME NEW a \in Int, NEW c \in Nat \ {0}, NEW q \in Int, NEW r \in 0 .. c - 1,
           a = c * q + r
    PROVE  a % c = r
OBVIOUS

LEMMA NotMultiple ==
    ASSUME NEW q \in Int, NEW c \in Nat \ {0}, 0 < c * q, c * q < c
    PROVE  FALSE
<1>1. CASE q <= 0
  BY <1>1
<1>2. CASE q >= 1
  BY <1>2
<1> QED BY <1>1, <1>2

LEMMA RemaindersDiffer ==
    ASSUME NEW a \in Int, NEW b \in Int, NEW c \in Nat \ {0}, a < b, b < a + c
    PROVE  a % c # b % c
<1> SUFFICES ASSUME a % c = b % c PROVE FALSE
  OBVIOUS
<1> DEFINE p == a \div c  q == b \div c  r == a % c
<1>1. a = c * p + r /\ b = c * q + r /\ p \in Int /\ q \in Int /\ r \in Int
  BY QuotientIs
<1> HIDE DEF p, q, r
<1>2. 0 < c * (q - p) /\ c * (q - p) < c /\ q - p \in Int
  BY <1>1
<1> QED BY <1>2, NotMultiple

LEMMA RemainderUpTo ==
    ASSUME NEW a \in Nat, NEW c \in Nat \ {0}
    PROVE  a % c \in 0 .. c - 1 /\ a % c <= a
<1>1. PICK q, r : q = a \div c /\ r = a % c
  OBVIOUS
<1>2. a = c * q + r /\ q \in Int /\ r \in 0 .. c - 1
  BY <1>1, QuotientIs
<1>3. CASE q <= -1
  <2>1. c * q <= 0 - c
    BY <1>2, <1>3
  <2> QED BY <1>1, <1>2, <2>1
<1>4. CASE q >= 0
  <2>1. c * q >= 0
    BY <1>2, <1>4
  <2> QED BY <1>1, <1>2, <2>1
<1> QED BY <1>1, <1>3, <1>4

\* Every place of the ring is that of one of the last WINDOW_SIZE drops, when
\* there have been as many.
LEMMA PlaceTaken ==
    ASSUME NEW n \in Nat, NEW z \in Nat \ {0}, NEW i \in 0 .. z - 1, i < n
    PROVE  \E j \in 1 .. n : n - j < z /\ (j - 1) % z = i
<1> DEFINE q == (n - 1 - i) \div z   r == (n - 1 - i) % z
<1>1. n - 1 - i = z * q + r /\ q \in Int /\ r \in 0 .. z - 1
  BY QuotientIs
<1> HIDE DEF q, r
<1>2. q >= 0
  <2>1. CASE q <= -1
    <3>1. z * q <= 0 - z
      BY <2>1, <1>1
    <3> QED BY <1>1, <3>1
  <2> QED BY <1>1, <2>1
<1>3. z * q \in Nat
  BY <1>1, <1>2
<1>4. PICK j \in 1 .. n : j = n - r
  BY <1>1, <1>3
<1>5. j - 1 = z * q + i
  BY <1>1, <1>3, <1>4
<1>6. (j - 1) % z = i
  <2>1. PICK a \in Int : a = j - 1 /\ a = z * q + i
    BY <1>4, <1>5
  <2>2. a % z = i
    BY <1>1, <2>1, RemainderIs
  <2> QED BY <2>1, <2>2
<1>7. n - j < z
  BY <1>1, <1>4
<1> QED BY <1>4, <1>6, <1>7

\* A ring of z places counts the recent ones of n drops well enough: R are the
\* drops that are recent, with each all that came later, and C the places of
\* recent ones.
LEMMA RingCounts ==
    ASSUME NEW n \in Nat \ {0}, NEW z \in Nat \ {0}, NEW k \in 1 .. z,
           NEW R \in SUBSET (1 .. n), NEW C \in SUBSET (0 .. z - 1),
           \A i \in R : \A j \in 1 .. n : i <= j => j \in R,
           \A i \in C : i < n,
           \A j \in 1 .. n : n - j < z => ((j - 1) % z \in C <=> j \in R)
    PROVE  Cardinality(C) >= k <=> Cardinality(R) >= k
<1> DEFINE Kept == {j \in R : n - j < z}
           F == [j \in Kept |-> (j - 1) % z]
<1>1. /\ Kept \subseteq R /\ IsFiniteSet(R) /\ IsFiniteSet(Kept)
      /\ Cardinality(R) \in Nat /\ Cardinality(Kept) \in Nat
  <2>1. IsFiniteSet(1 .. n)
    BY FS_Interval
  <2>2. IsFiniteSet(R) /\ Kept \subseteq R
    BY <2>1, FS_Subset
  <2> HIDE DEF Kept
  <2> QED BY <2>2, FS_Subset, FS_CardinalityType
<1>2. F \in Bijection(Kept, C)
  <2>1. F \in [Kept -> C] /\ \A j \in Kept : F[j] = (j - 1) % z
    OBVIOUS
  <2>2. ASSUME NEW a \in Kept, NEW b \in Kept, F[a] = F[b] PROVE a = b
    <3>1. a \in 1 .. n /\ b \in 1 .. n /\ n - a < z /\ n - b < z
          /\ (a - 1) % z = (b - 1) % z
      BY <2>2
    <3>2. PICK x \in Int, y \in Int : x = a - 1 /\ y = b - 1
      BY <3>1
    <3>3. x % z = y % z /\ x < y + z /\ y < x + z
      BY <3>1, <3>2
    <3>4. ~(x < y) /\ ~(y < x)
      BY <3>3, RemaindersDiffer
    <3> QED BY <3>1, <3>2, <3>4
  <2>3. ASSUME NEW i \in C PROVE \E j \in Kept : F[j] = i
    <3>1. PICK j \in 1 .. n : n - j < z /\ (j - 1) % z = i
      BY PlaceTaken
    <3>2. j \in Kept
      BY <3>1
    <3> QED BY <3>1, <3>2
  <2> HIDE DEF F, Kept
  <2> QED BY <2>1, <2>2, <2>3 DEF Bijection, Injection, Surjection, IsInjective
<1>3. Cardinality(C) = Cardinality(Kept)
  <2> HIDE DEF F, Kept
  <2> QED BY <1>1, <1>2, FS_Bijection DEF ExistsBijection
\* If a drop that is forgotten is recent, all those remembered are.
<1>4. CASE R = Kept
  BY <1>3, <1>4
<1>5. CASE R # Kept
  <2>1. PICK m \in R : n - m >= z
    <3>1. PICK m \in R : m \notin Kept
      BY <1>1, <1>5
    <3>2. m \in 1 .. n /\ ~(n - m < z)
      BY <3>1
    <3> QED BY <3>2
  <2>2. PICK a \in Int : a = n - z + 1
    OBVIOUS
  <2>3. a .. n \subseteq Kept
    <3> SUFFICES ASSUME NEW j \in a .. n PROVE j \in Kept
      OBVIOUS
    <3>1. j \in 1 .. n /\ m <= j /\ n - j < z
      BY <2>1, <2>2
    <3> QED BY <3>1
  <2> HIDE DEF Kept, F
  <2>4. Cardinality(a .. n) = z
    BY <2>2, FS_Interval
  <2>5. z <= Cardinality(Kept)
    BY <1>1, <2>3, <2>4, FS_Subset
  <2>6. Cardinality(Kept) <= Cardinality(R)
    BY <1>1, FS_Subset
  <2> QED BY <1>1, <1>3, <2>5, <2>6
<1> QED BY <1>4, <1>5

-------------------------------------------------------------------------------
(* Bursts *)

\* The ring holds the times of the last drops, and they came in this order.
WindowTrue ==
    /\ lateAt \in Seq(Nat) /\ clock \in Nat
    /\ \A i \in DOMAIN lateAt : lateAt[i] <= clock
    /\ \A i, j \in DOMAIN lateAt : i <= j => lateAt[i] <= lateAt[j]
    /\ DOMAIN reorder_window = {"times", "head", "count"}
    /\ reorder_window.head = Len(lateAt) /\ reorder_window.count = Len(lateAt)
    /\ reorder_window.times \in [0 .. WINDOW_SIZE - 1 -> Nat]
    /\ \A j \in DOMAIN lateAt :
          Len(lateAt) - j < WINDOW_SIZE =>
             reorder_window.times[(j - 1) % WINDOW_SIZE] = lateAt[j]

BurstInv == Watermark /\ WindowTrue /\ BurstTold

\* What the ring counts makes a burst exactly when the whole history does.
JustDropped == lateAt # <<>> /\ lateAt[Len(lateAt)] = clock

CountSuffices ==
    CountInWindow(reorder_window, clock) >= BURST_THRESH
        <=> Cardinality(LateUpTo(Len(lateAt))) >= BURST_THRESH

LEMMA WindowCounts == WindowTrue /\ JustDropped => CountSuffices
<1> SUFFICES ASSUME WindowTrue, JustDropped PROVE CountSuffices
  OBVIOUS
<1> DEFINE Recent == LateUpTo(Len(lateAt))
           Counted == {i \in 0 .. WINDOW_SIZE - 1 :
                         i < reorder_window.count /\ clock - reorder_window.times[i] <= WINDOW_MS}
<1>1. PICK n \in Nat \ {0}, z \in Nat \ {0} : n = Len(lateAt) /\ z = WINDOW_SIZE
  BY StateAssumption DEF WindowTrue, JustDropped
<1>2. /\ WINDOW_MS \in Nat /\ BURST_THRESH \in 1 .. z
      /\ DOMAIN lateAt = 1 .. n /\ clock \in Nat
      /\ \A j \in 1 .. n : lateAt[j] \in Nat
      /\ \A i, j \in 1 .. n : i <= j => lateAt[i] <= lateAt[j]
      /\ \A j \in 1 .. n : n - j < z => reorder_window.times[(j - 1) % z] = lateAt[j]
  <2>1. WINDOW_MS \in Nat /\ BURST_THRESH \in 1 .. z
    BY <1>1, StateAssumption
  <2>2. /\ DOMAIN lateAt = 1 .. n /\ clock \in Nat
        /\ \A j \in 1 .. n : lateAt[j] \in Nat
    BY <1>1 DEF WindowTrue
  <2>3. \A i, j \in 1 .. n : i <= j => lateAt[i] <= lateAt[j]
    BY <2>2 DEF WindowTrue
  <2>4. \A j \in 1 .. n : n - j < z => reorder_window.times[(j - 1) % z] = lateAt[j]
    BY <1>1, <2>2 DEF WindowTrue
  <2> QED BY <2>1, <2>2, <2>3, <2>4
<1>3. Recent = {j \in 1 .. n : clock - lateAt[j] <= WINDOW_MS}
  BY <1>1 DEF LateUpTo, JustDropped
<1>4. Counted = {i \in 0 .. z - 1 : i < n /\ clock - reorder_window.times[i] <= WINDOW_MS}
  BY <1>1 DEF WindowTrue
<1>5. CountInWindow(reorder_window, clock) = Cardinality(Counted)
  BY DEF CountInWindow
<1> HIDE DEF Recent, Counted
<1>6. \A i \in Recent : \A j \in 1 .. n : i <= j => j \in Recent
  BY <1>2, <1>3
<1>7. ASSUME NEW j \in 1 .. n, n - j < z
      PROVE  (j - 1) % z \in Counted <=> j \in Recent
  <2>1. PICK a \in Nat : a = j - 1
    OBVIOUS
  <2>2. a % z \in 0 .. z - 1 /\ a % z <= a
    BY RemainderUpTo
  <2>3. a % z < n
    BY <2>1, <2>2
  <2>4. reorder_window.times[a % z] = lateAt[j]
    BY <1>2, <1>7, <2>1
  <2> QED BY <1>3, <1>4, <2>1, <2>2, <2>3, <2>4
<1>8. Recent \in SUBSET (1 .. n) /\ Counted \in SUBSET (0 .. z - 1) /\ \A i \in Counted : i < n
  BY <1>3, <1>4
<1>9. Cardinality(Counted) >= BURST_THRESH <=> Cardinality(Recent) >= BURST_THRESH
  BY <1>2, <1>6, <1>7, <1>8, RingCounts
<1> QED BY <1>5, <1>9 DEF Recent, CountSuffices

LEMMA WindowCountsNext == WindowTrue' /\ JustDropped' => CountSuffices'
BY WindowCounts, PTL

\* What is dropped is what was overtaken or doubled.
LEMMA LateIsOvertaken ==
    ASSUME Watermark, NEW seq \in DOMAIN Stream, ObjectKnown(seq)
    PROVE  Newer(objects[Stream[seq].obj], seq) <=> ~Overtaken(seq)
<1> DEFINE o == Stream[seq].obj
           e == objects[o]
<1>1. seq \in Nat /\ o \in DOMAIN objects
  BY KnownCommand DEF Watermark
<1>2. /\ e.valid <=> HeardOf(o) # {}
      /\ e.valid => /\ e.last_applied_seq \in HeardOf(o)
                    /\ \A s \in HeardOf(o) : s <= e.last_applied_seq
  BY <1>1 DEF Watermark
<1>3. \A s \in HeardOf(o) : s \in Nat
  BY StreamAssumption DEF HeardOf, Watermark
<1>4. Overtaken(seq) <=> \E s \in HeardOf(o) : s >= seq
  BY DEF Overtaken, HeardOf
<1> HIDE DEF e, o
<1>5. CASE e.valid
  <2>1. e.last_applied_seq \in Nat
    BY <1>2, <1>3, <1>5
  <2>2. Overtaken(seq) <=> e.last_applied_seq >= seq
    BY <1>1, <1>2, <1>3, <1>4, <1>5, <2>1
  <2> QED BY <1>1, <1>5, <2>1, <2>2 DEF Newer, e, o
<1>6. CASE ~e.valid
  BY <1>2, <1>4, <1>6 DEF Newer, e, o
<1> QED BY <1>5, <1>6

LEMMA BurstInit == StateInit => BurstInv
<1> SUFFICES ASSUME StateInit PROVE BurstInv
  OBVIOUS
<1>1. /\ lateAt = <<>> /\ clock = 0 /\ osc_reordered_drops = 0 /\ burst_alerts = 0
      /\ reorder_window = [times |-> [i \in 0 .. WINDOW_SIZE - 1 |-> 0], head |-> 0, count |-> 0]
  BY DEF StateInit, ReorderWindow
<1>2. WindowTrue
  BY <1>1 DEF WindowTrue
<1>3. BurstTold
  <2>1. {i \in DOMAIN lateAt : Cardinality(LateUpTo(i)) >= BURST_THRESH} = {}
    BY <1>1
  <2> QED BY <1>1, <2>1, FS_EmptySet DEF BurstTold
<1> QED BY <1>2, <1>3, WatermarkInit DEF BurstInv

\* A drop takes the place of the oldest in the ring, and is told or not.
LEMMA DropIsTold ==
    ASSUME BurstInv, NEW seq \in DOMAIN Stream, DropLate(seq), Remember(seq), clock' = clock
    PROVE  WindowTrue' /\ BurstTold'
<1>1. /\ lateAt' = Append(lateAt, clock)
      /\ osc_reordered_drops' = osc_reordered_drops + 1
      /\ reorder_window' = Pushed(reorder_window, clock)
      /\ burst_alerts' = IF CountInWindow(reorder_window', clock) >= BURST_THRESH
                         THEN burst_alerts + 1 ELSE burst_alerts
  <2>1. ObjectKnown(seq) /\ ~Newer(objects[Stream[seq].obj], seq) /\ Stream[seq].tag # "SysReset"
    BY DEF DropLate, ObjectKnown, FieldOf
  <2>2. Overtaken(seq)
    BY <2>1, LateIsOvertaken DEF BurstInv
  <2> QED BY <2>1, <2>2 DEF DropLate, Remember
<1>2. PICK n \in Nat, z \in Nat \ {0} : n = Len(lateAt) /\ z = WINDOW_SIZE
  BY StateAssumption DEF BurstInv, WindowTrue
<1>3. /\ lateAt \in Seq(Nat) /\ clock \in Nat
      /\ DOMAIN lateAt = 1 .. n /\ \A j \in 1 .. n : lateAt[j] \in Nat /\ lateAt[j] <= clock
  <2>1. /\ lateAt \in Seq(Nat) /\ clock \in Nat
        /\ \A j \in DOMAIN lateAt : lateAt[j] <= clock
    BY DEF BurstInv, WindowTrue
  <2>2. DOMAIN lateAt = 1 .. n /\ \A j \in 1 .. n : lateAt[j] \in Nat
    BY <1>2, <2>1
  <2> QED BY <2>1, <2>2
<1>4. /\ lateAt' \in Seq(Nat) /\ Len(lateAt') = n + 1 /\ DOMAIN lateAt' = 1 .. n + 1
      /\ lateAt'[n + 1] = clock /\ \A j \in 1 .. n : lateAt'[j] = lateAt[j]
  BY <1>1, <1>2, <1>3
<1>5. n % z \in 0 .. z - 1
  BY RemainderUpTo
<1>6. /\ DOMAIN reorder_window' = {"times", "head", "count"}
      /\ reorder_window'.head = n + 1 /\ reorder_window'.count = n + 1
      /\ reorder_window'.times = [reorder_window.times EXCEPT ![n % z] = clock]
  BY <1>1, <1>2 DEF BurstInv, WindowTrue, Pushed
<1>7. ASSUME NEW j \in 1 .. n + 1, n + 1 - j < z
      PROVE  reorder_window'.times[(j - 1) % z] = lateAt'[j]
  <2>1. reorder_window.times \in [0 .. z - 1 -> Nat]
    BY <1>2 DEF BurstInv, WindowTrue
  <2>2. CASE j = n + 1
    <3>1. j - 1 = n
      BY <2>2
    <3> QED BY <1>4, <1>5, <1>6, <2>1, <2>2, <3>1
  <2>3. CASE j # n + 1
    <3>1. PICK a \in Nat : a = j - 1
      OBVIOUS
    <3>2. j \in 1 .. n /\ n - j < z /\ a < n /\ n < a + z /\ a \in Int /\ n \in Int
      BY <1>7, <2>3, <3>1
    <3>3. a % z # n % z
      BY <3>2, RemaindersDiffer, Zenon
    <3>4. a % z \in 0 .. z - 1
      BY RemainderUpTo
    <3>5. reorder_window.times[a % z] = lateAt[j]
      BY <1>2, <1>3, <3>1, <3>2 DEF BurstInv, WindowTrue
    <3> QED BY <1>4, <1>6, <2>1, <3>1, <3>2, <3>3, <3>4, <3>5
  <2> QED BY <2>2, <2>3
<1>8. WindowTrue'
  <2>1. \A j \in DOMAIN lateAt' : lateAt'[j] <= clock
    BY <1>3, <1>4
  <2>2. ASSUME NEW i \in DOMAIN lateAt', NEW j \in DOMAIN lateAt', i <= j
        PROVE  lateAt'[i] <= lateAt'[j]
    <3>1. CASE j = n + 1
      BY <1>4, <2>1, <3>1
    <3>2. CASE j # n + 1
      <4>1. i \in 1 .. n /\ j \in 1 .. n
        BY <1>4, <2>2, <3>2
      <4> QED BY <1>3, <1>4, <2>2, <4>1 DEF BurstInv, WindowTrue
    <3> QED BY <3>1, <3>2
  <2>3. reorder_window'.times \in [0 .. WINDOW_SIZE - 1 -> Nat]
    BY <1>2, <1>3, <1>6 DEF BurstInv, WindowTrue
  <2>4. \A j \in DOMAIN lateAt' : Len(lateAt') - j < WINDOW_SIZE =>
             reorder_window'.times[(j - 1) % WINDOW_SIZE] = lateAt'[j]
    BY <1>2, <1>4, <1>7
  <2> QED BY <1>3, <1>4, <1>6, <2>1, <2>2, <2>3, <2>4 DEF WindowTrue
<1>9. CountInWindow(reorder_window', clock) >= BURST_THRESH
         <=> Cardinality(LateUpTo(n + 1)') >= BURST_THRESH
  <2>1. JustDropped'
    BY <1>4 DEF JustDropped
  <2>2. CountSuffices'
    BY <1>8, <2>1, WindowCountsNext
  <2>3. (LateUpTo(Len(lateAt)))' = LateUpTo(n + 1)'
    BY <1>4 DEF LateUpTo
  <2> QED BY <2>2, <2>3 DEF CountSuffices, CountInWindow
<1> DEFINE Told == {i \in 1 .. n : Cardinality(LateUpTo(i)) >= BURST_THRESH}
           ToldNow == {i \in 1 .. n + 1 : Cardinality(LateUpTo(i)') >= BURST_THRESH}
<1>10. \A i \in 1 .. n : LateUpTo(i)' = LateUpTo(i)
  BY <1>4 DEF LateUpTo
<1>11. /\ IsFiniteSet(Told) /\ n + 1 \notin Told
       /\ ToldNow = IF Cardinality(LateUpTo(n + 1)') >= BURST_THRESH
                    THEN Told \cup {n + 1} ELSE Told
  <2>1. IsFiniteSet(1 .. n) /\ Told \subseteq 1 .. n
    BY FS_Interval
  <2>2. IsFiniteSet(Told)
    BY <2>1, FS_Subset
  <2> QED BY <1>10, <2>2
<1>12. burst_alerts = Cardinality(Told) /\ osc_reordered_drops = n
  BY <1>2, <1>3 DEF BurstInv, BurstTold
<1>13. burst_alerts' = Cardinality(ToldNow)
  <2> HIDE DEF Told, ToldNow
  <2>1. Cardinality(Told \cup {n + 1}) = Cardinality(Told) + 1
    BY <1>11, FS_AddElement
  <2> QED BY <1>1, <1>9, <1>11, <1>12, <2>1
<1>14. {i \in DOMAIN lateAt : Cardinality(LateUpTo(i)) >= BURST_THRESH}' = ToldNow
  BY <1>4
<1>15. BurstTold'
  BY <1>1, <1>4, <1>12, <1>13, <1>14 DEF BurstTold
<1> QED BY <1>8, <1>15

\* Steps that drop nothing.
LEMMA NothingDropped ==
    ASSUME BurstInv, UNCHANGED <<lateAt, reorder_window, osc_reordered_drops, burst_alerts>>,
           clock' \in Nat, clock' >= clock
    PROVE  WindowTrue' /\ BurstTold'
<1>1. WindowTrue'
  <2>1. \A i \in DOMAIN lateAt : lateAt[i] <= clock'
    BY DEF BurstInv, WindowTrue
  <2> QED BY <2>1 DEF BurstInv, WindowTrue
<1>2. BurstTold'
  BY DEF BurstInv, BurstTold, LateUpTo
<1> QED BY <1>1, <1>2

LEMMA ArrivalIsTold ==
    ASSUME BurstInv, Arrive
    PROVE  WindowTrue' /\ BurstTold'
<1>1. PICK seq \in DOMAIN Stream :
         /\ \/ ApplyNewer(seq) \/ DropLate(seq) \/ ApplyAlgoSwap(seq) \/ ApplyReset(seq)
            \/ Ignore(seq)
         /\ Remember(seq)
  BY DEF Arrive
<1>2. clock' = clock /\ clock \in Nat
  BY DEF Arrive, BurstInv, WindowTrue
<1>3. CASE ApplyNewer(seq)
  <2>1. ObjectKnown(seq) /\ Newer(objects[Stream[seq].obj], seq) /\ Stream[seq].tag # "SysReset"
    BY <1>3 DEF ApplyNewer, ObjectKnown, FieldOf
  <2>2. lateAt' = lateAt
    BY <1>1, <2>1, LateIsOvertaken DEF Remember, BurstInv
  <2> QED BY <1>2, <1>3, <2>2, NothingDropped DEF ApplyNewer
<1>4. CASE DropLate(seq)
  BY <1>1, <1>2, <1>4, DropIsTold
<1>5. CASE ApplyReset(seq)
  <2>1. /\ lateAt' = <<>> /\ osc_reordered_drops' = 0 /\ burst_alerts' = 0
        /\ reorder_window' = [times |-> [i \in 0 .. WINDOW_SIZE - 1 |-> 0], head |-> 0, count |-> 0]
    BY <1>1, <1>5 DEF ApplyReset, Remember, ReorderWindow
  <2>2. WindowTrue'
    BY <1>2, <2>1 DEF WindowTrue
  <2>3. {i \in DOMAIN lateAt : Cardinality(LateUpTo(i)) >= BURST_THRESH}' = {}
    BY <2>1
  <2>4. BurstTold'
    BY <2>1, <2>3, FS_EmptySet DEF BurstTold
  <2> QED BY <2>2, <2>4
<1>6. CASE ApplyAlgoSwap(seq) \/ Ignore(seq)
  <2>1. ~ObjectKnown(seq) /\ Stream[seq].tag # "SysReset"
    BY <1>6 DEF ApplyAlgoSwap, Ignore, ObjectKnown, FieldOf
  <2>2. lateAt' = lateAt
    BY <1>1, <2>1 DEF Remember, Overtaken
  <2> QED BY <1>2, <1>6, <2>2, NothingDropped DEF ApplyAlgoSwap, Ignore
<1> QED BY <1>1, <1>3, <1>4, <1>5, <1>6

LEMMA BurstStep == BurstInv /\ [StateNext]_stateVars => BurstInv'
<1> SUFFICES ASSUME BurstInv, [StateNext]_stateVars PROVE BurstInv'
  OBVIOUS
<1>1. Watermark'
  BY StepKeepsWatermark DEF BurstInv
<1>2. clock \in Nat
  BY DEF BurstInv, WindowTrue
<1>3. CASE Arrive
  BY <1>1, <1>3, ArrivalIsTold DEF BurstInv
<1>4. CASE SetPendingSofaName \/ Tick \/ UNCHANGED stateVars
  BY <1>1, <1>2, <1>4, NothingDropped DEF BurstInv, SetPendingSofaName, Tick, stateVars
<1> QED BY <1>3, <1>4 DEF StateNext

\* The client is told of every burst of drops and of nothing else, although
\* the ring remembers only the last of them: for any window, threshold up to
\* the size of the ring and stream of commands (StateModel::checkBurst).
THEOREM BurstsAlwaysTold == StateSpec => []BurstTold
<1>1. BurstInv => BurstTold
  BY DEF BurstInv
<1> QED BY <1>1, BurstInit, BurstStep, PTL DEF StateSpec

-------------------------------------------------------------------------------
(* The LTC chase *)

Cells == 0 .. CapacityPow2 - 1

\* The cell after i, and the cells from a to b.
After(i) == IF i = CapacityPow2 - 1 THEN 0 ELSE i + 1
Far(a, b) == IF a <= b THEN b - a ELSE b - a + CapacityPow2

LEMMA AfterIs ==
    ASSUME NEW i \in Cells
    PROVE  MASK(i + 1) = After(i) /\ After(i) \in Cells
BY LtcAssumption DEF MASK, After, Cells

LEMMA FarIs ==
    ASSUME NEW a \in Cells, NEW b \in Cells
    PROVE  /\ Far(a, b) \in Cells /\ Far(a, b) \in Nat /\ Far(a, a) = 0
           /\ a # b => Far(a, b) # 0
           /\ IF a = After(b) THEN Far(a, b) = CapacityPow2 - 1
              ELSE Far(a, After(b)) = Far(a, b) + 1
BY LtcAssumption DEF Far, After, Cells

Bits == {bits \in Seq(Nat) : Len(bits) <= FrameBits}

LtcTyped ==
    /\ head \in Cells /\ tail \in Cells /\ seenTail \in Cells /\ seenHead \in Cells
    /\ cells \in [Cells -> Nat] /\ line \in Nat /\ sample \in Nat
    /\ register \in Bits /\ tc \in Bits

\* No view leaves the cells between the two indices, and neither thread has
\* gone into the other's cells.
RingTrue ==
    /\ Far(tail, seenHead) + Far(seenHead, head) = Far(tail, head)
    /\ Far(seenTail, tail) + Far(tail, head) = Far(seenTail, head)
    /\ cpc \in {"read", "store"} => tail # seenHead
    /\ ppc \in {"write", "store"} => After(head) # seenTail
    /\ ppc = "store" => cells[head] = line
    /\ cpc = "store" => sample = cells[tail]

\* Nothing but samples that never got into the ring lie between x and y.
Follows(x, y) == x < y /\ x + 1 .. y - 1 \subseteq missed

Holds(i) == Far(tail, i) < Far(tail, head)
Behind(i) == IF i = head THEN line ELSE cells[i]

\* From the register through the sample in hand and the ring to the line.
Chained ==
    /\ \A i \in Cells : Holds(i) => Follows(cells[i], Behind(After(i)))
    /\ cpc = "decode" => Follows(sample, Behind(tail))
    /\ register # <<>> =>
          Follows(register[Len(register)], IF cpc = "decode" THEN sample ELSE Behind(tail))
    /\ \A b \in 1 .. Len(register) - 1 : Follows(register[b], register[b + 1])
    /\ tc # <<>> => Len(tc) = FrameBits
    /\ \A b \in 1 .. Len(tc) - 1 : Follows(tc[b], tc[b + 1])

LtcInv == LtcTyped /\ RingTrue /\ Chained

LEMMA LtcInitInv == LtcInit => LtcInv
<1> SUFFICES ASSUME LtcInit PROVE LtcInv
  OBVIOUS
<1>1. <<>> \in Bits
  BY LtcAssumption DEF Bits
<1>2. LtcTyped
  BY <1>1, LtcAssumption DEF LtcInit, LtcTyped, Cells
<1>3. RingTrue
  BY LtcAssumption DEF LtcInit, RingTrue, Far
<1>4. Chained
  BY LtcAssumption DEF LtcInit, Chained, Holds, Far, Cells
<1> QED BY <1>2, <1>3, <1>4 DEF LtcInv

\* More samples missed, and a line that has moved over missed ones.
LEMMA FollowsMore ==
    ASSUME NEW x \in Nat, NEW y \in Nat, Follows(x, y), missed \subseteq missed'
    PROVE  Follows(x, y)'
BY DEF Follows

LEMMA FollowsFurther ==
    ASSUME NEW x \in Nat, NEW y \in Nat, NEW z \in Nat, Follows(x, y), y <= z,
           missed' = missed \cup y .. z - 1
    PROVE  x < z /\ x + 1 .. z - 1 \subseteq missed'
BY DEF Follows

\* The line moves on: the samples it leaves behind are missed.
LEMMA LineMoves ==
    ASSUME LtcInv, line' \in Nat, line <= line', missed' = missed \cup line .. line' - 1,
           UNCHANGED <<head, cells, seenTail, ppc, chaseVars>>, ppc = "idle"
    PROVE  LtcInv'
<1>1. LtcTyped' /\ RingTrue'
  BY DEF LtcInv, LtcTyped, RingTrue, Far, chaseVars
<1>2. ASSUME NEW x \in Nat, NEW i \in Cells, Follows(x, Behind(i))
      PROVE  Follows(x, Behind(i))'
  <2>1. CASE i = head
    <3>1. Follows(x, line) /\ line \in Nat
      BY <1>2, <2>1 DEF Behind, LtcInv, LtcTyped
    <3>2. x < line' /\ x + 1 .. line' - 1 \subseteq missed'
      BY <3>1, FollowsFurther
    <3> QED BY <2>1, <3>2 DEF Behind, Follows
  <2>2. CASE i # head
    BY <1>2, <2>2 DEF Behind, Follows
  <2> QED BY <2>1, <2>2
<1>3. ASSUME NEW x, NEW y, Follows(x, y) PROVE Follows(x, y)'
  BY <1>3 DEF Follows
<1>4. UNCHANGED <<tail, seenHead, cpc, sample, register, tc>>
  BY DEF chaseVars
<1>5. \A i \in Cells : Holds(i)' => Follows(cells[i], Behind(After(i)))'
  BY <1>2, <1>4, AfterIs DEF LtcInv, Chained, LtcTyped, Holds, Far
<1>6. cpc' = "decode" => Follows(sample, Behind(tail))'
  BY <1>2, <1>4 DEF LtcInv, Chained, LtcTyped
<1>7. register' # <<>> =>
         Follows(register[Len(register)], IF cpc = "decode" THEN sample ELSE Behind(tail))'
  <2> SUFFICES ASSUME register # <<>>
               PROVE  Follows(register[Len(register)],
                              IF cpc = "decode" THEN sample ELSE Behind(tail))'
    BY <1>4
  <2>1. register[Len(register)] \in Nat
    BY DEF LtcInv, LtcTyped, Bits
  <2>2. CASE cpc = "decode"
    <3>1. Follows(register[Len(register)], sample)
      BY <2>2 DEF LtcInv, Chained
    <3> QED BY <1>4, <2>2, <3>1 DEF Follows
  <2>3. CASE cpc # "decode"
    <3>1. Follows(register[Len(register)], Behind(tail))
      BY <2>3 DEF LtcInv, Chained
    <3>2. Follows(register[Len(register)], Behind(tail))'
      BY <1>2, <1>4, <2>1, <3>1 DEF LtcInv, LtcTyped
    <3> QED BY <1>4, <2>3, <3>2
  <2> QED BY <2>2, <2>3
<1>8. (tc' # <<>> => Len(tc') = FrameBits)
      /\ (\A b \in 1 .. Len(register') - 1 : Follows(register[b], register[b + 1])')
      /\ (\A b \in 1 .. Len(tc') - 1 : Follows(tc[b], tc[b + 1])')
  BY <1>4 DEF LtcInv, Chained, Follows
<1> QED BY <1>1, <1>5, <1>6, <1>7, <1>8 DEF LtcInv, Chained

\* A step that moves no sample.
LEMMA NothingMoves ==
    ASSUME LtcInv, UNCHANGED <<line, head, tail, cells, register, tc, missed>>,
           cpc = "decode" => cpc' = "decode", cpc' = "decode" => cpc = "decode",
           cpc' = "decode" => sample' = sample
    PROVE  Chained'
<1>1. \A x, y : Follows(x, y)' <=> Follows(x, y)
  BY DEF Follows
<1>2. \A i : Behind(i)' = Behind(i) /\ (Holds(i)' <=> Holds(i))
  BY DEF Behind, Holds, Far
<1>3. \A i \in Cells : Holds(i)' => Follows(cells[i], Behind(After(i)))'
  BY <1>1, <1>2 DEF LtcInv, Chained
<1>4. cpc' = "decode" => Follows(sample, Behind(tail))'
  BY <1>1, <1>2 DEF LtcInv, Chained
<1>5. register' # <<>> =>
         Follows(register[Len(register)], IF cpc = "decode" THEN sample ELSE Behind(tail))'
  BY <1>1, <1>2 DEF LtcInv, Chained
<1>6. /\ tc' # <<>> => Len(tc') = FrameBits
      /\ \A b \in 1 .. Len(register') - 1 : Follows(register[b], register[b + 1])'
      /\ \A b \in 1 .. Len(tc') - 1 : Follows(tc[b], tc[b + 1])'
  BY <1>1 DEF LtcInv, Chained
<1> QED BY <1>3, <1>4, <1>5, <1>6 DEF Chained

LEMMA QuietStep ==
    ASSUME LtcInv, SetChase \/ LearnTail \/ LearnHead \/ Take \/ Read \/ Write
    PROVE  LtcInv'
<1>1. CASE SetChase
  <2>1. LtcTyped' /\ RingTrue'
    BY <1>1 DEF SetChase, LtcInv, LtcTyped, RingTrue, Far, chaseVars
  <2>2. Chained'
    BY <1>1, NothingMoves DEF SetChase, chaseVars
  <2> QED BY <2>1, <2>2 DEF LtcInv
<1>2. CASE LearnTail
  <2>1. LtcTyped' /\ RingTrue'
    BY <1>2, LtcAssumption DEF LearnTail, LtcInv, LtcTyped, RingTrue, Far, After, Cells, chaseVars
  <2>2. Chained'
    BY <1>2, NothingMoves DEF LearnTail, chaseVars
  <2> QED BY <2>1, <2>2 DEF LtcInv
<1>3. CASE LearnHead
  <2>1. LtcTyped' /\ RingTrue'
    BY <1>3, LtcAssumption DEF LearnHead, LtcInv, LtcTyped, RingTrue, Far, Cells, audioVars
  <2>2. Chained'
    BY <1>3, NothingMoves DEF LearnHead, audioVars
  <2> QED BY <2>1, <2>2 DEF LtcInv
<1>4. CASE Take
  <2>1. LtcTyped' /\ RingTrue'
    BY <1>4 DEF Take, LtcInv, LtcTyped, RingTrue, Far, audioVars
  <2>2. Chained'
    BY <1>4, NothingMoves DEF Take, audioVars
  <2> QED BY <2>1, <2>2 DEF LtcInv
<1>5. CASE Read
  <2>1. LtcTyped' /\ RingTrue'
    BY <1>5 DEF Read, LtcInv, LtcTyped, RingTrue, Far, audioVars
  <2>2. Chained'
    BY <1>5, NothingMoves DEF Read, audioVars
  <2> QED BY <2>1, <2>2 DEF LtcInv
\* The cell at head is not in the ring yet.
<1>6. CASE Write
  <2>1. /\ UNCHANGED <<line, head, tail, register, tc, missed, seenTail, seenHead, cpc, sample>>
        /\ ppc = "write" /\ ppc' = "store" /\ cells' = [cells EXCEPT ![head] = line]
    BY <1>6 DEF Write, chaseVars
  <2>2. LtcTyped'
    BY <2>1 DEF LtcInv, LtcTyped
  <2>3. cpc = "store" => tail # head
    BY <2>1, LtcAssumption DEF LtcInv, LtcTyped, RingTrue, Far, Cells
  <2>4. RingTrue'
    BY <2>1, <2>3 DEF LtcInv, LtcTyped, RingTrue, Far
  <2>5. \A x, y : Follows(x, y)' <=> Follows(x, y)
    BY <2>1 DEF Follows
  <2>6. \A i \in Cells : Behind(i)' = Behind(i) /\ (Holds(i)' <=> Holds(i))
    BY <2>1 DEF Behind, Holds, Far, LtcInv, LtcTyped
  <2>7. \A i \in Cells : Holds(i)' => Follows(cells[i], Behind(After(i)))'
    <3> SUFFICES ASSUME NEW i \in Cells, Holds(i)'
                 PROVE  Follows(cells[i], Behind(After(i)))'
      OBVIOUS
    <3>1. i # head /\ Holds(i)
      BY <2>6, FarIs DEF Holds, LtcInv, LtcTyped
    <3>2. cells'[i] = cells[i] /\ After(i) \in Cells
      BY <2>1, <3>1, AfterIs DEF LtcInv, LtcTyped
    <3>3. Follows(cells[i], Behind(After(i)))
      BY <3>1 DEF LtcInv, Chained
    <3>4. Behind(After(i))' = Behind(After(i))
      BY <2>6, <3>2 DEF After
    <3> QED BY <2>5, <3>2, <3>3, <3>4
  <2>8. tail \in Cells /\ Behind(tail)' = Behind(tail)
    BY <2>1 DEF Behind, LtcInv, LtcTyped
  <2>9. cpc' = "decode" => Follows(sample, Behind(tail))'
    BY <2>1, <2>5, <2>8 DEF LtcInv, Chained
  <2>10. register' # <<>> =>
         Follows(register[Len(register)], IF cpc = "decode" THEN sample ELSE Behind(tail))'
    BY <2>1, <2>5, <2>8 DEF LtcInv, Chained
  <2>11. /\ tc' # <<>> => Len(tc') = FrameBits
         /\ \A b \in 1 .. Len(register') - 1 : Follows(register[b], register[b + 1])'
         /\ \A b \in 1 .. Len(tc') - 1 : Follows(tc[b], tc[b + 1])'
    BY <2>1, <2>5 DEF LtcInv, Chained
  <2> QED BY <2>2, <2>4, <2>7, <2>9, <2>10, <2>11 DEF LtcInv, Chained
<1> QED BY <1>1, <1>2, <1>3, <1>4, <1>5, <1>6

LEMMA EnterBlockKeeps ==
    ASSUME LtcInv, EnterBlock
    PROVE  LtcInv'
<1>1. CASE chase
  <2>1. LtcTyped' /\ RingTrue'
    BY <1>1 DEF EnterBlock, LtcInv, LtcTyped, RingTrue, Far, chaseVars
  <2>2. Chained'
    BY <1>1, NothingMoves DEF EnterBlock, chaseVars
  <2> QED BY <2>1, <2>2 DEF LtcInv
<1>2. CASE ~chase
  <2>1. line' = line + BlockSize /\ line \in Nat /\ BlockSize \in Nat \ {0}
    BY <1>2, LtcAssumption DEF EnterBlock, LtcInv, LtcTyped
  <2> QED BY <1>2, <2>1, LineMoves DEF EnterBlock
<1> QED BY <1>1, <1>2

LEMMA OfferKeeps ==
    ASSUME LtcInv, Offer
    PROVE  LtcInv'
<1>1. CASE RingIsFull
  <2>1. line' = line + 1 /\ line \in Nat /\ missed' = missed \cup {line}
        /\ line .. line' - 1 = {line}
    BY <1>1 DEF Offer, LtcInv, LtcTyped
  <2> QED BY <1>1, <2>1, LineMoves DEF Offer
<1>2. CASE ~RingIsFull
  <2>1. After(head) # seenTail
    BY <1>2, AfterIs DEF RingIsFull, LtcInv, LtcTyped
  <2>2. LtcTyped' /\ RingTrue'
    BY <1>2, <2>1 DEF Offer, LtcInv, LtcTyped, RingTrue, Far, After, chaseVars
  <2>3. Chained'
    BY <1>2, NothingMoves DEF Offer, chaseVars
  <2> QED BY <2>2, <2>3 DEF LtcInv
<1> QED BY <1>1, <1>2

\* The stored head takes the cell into the ring: the sample in it follows the
\* one before, and the line follows it.
LEMMA StoreHeadKeeps ==
    ASSUME LtcInv, StoreHead
    PROVE  LtcInv'
<1>1. /\ ppc = "store" /\ ppc' = "idle" /\ head' = After(head) /\ line' = line + 1
      /\ UNCHANGED <<cells, seenTail, missed, tail, seenHead, cpc, sample, register, tc>>
      /\ cells[head] = line /\ After(head) # seenTail
      /\ head \in Cells /\ head' \in Cells /\ tail \in Cells /\ line \in Nat
  BY AfterIs DEF StoreHead, chaseVars, LtcInv, LtcTyped, RingTrue
<1>2. /\ head' # tail /\ Far(tail, head') = Far(tail, head) + 1
      /\ head' # seenHead /\ Far(seenHead, head') = Far(seenHead, head) + 1
      /\ Far(seenTail, head') = Far(seenTail, head) + 1
  <2>1. seenTail \in Cells /\ seenHead \in Cells /\ CapacityPow2 \in Nat \ {0, 1}
    BY LtcAssumption DEF LtcInv, LtcTyped
  <2>2. Far(seenTail, head') = Far(seenTail, head) + 1
    BY <1>1, <2>1, FarIs
  <2>3. Far(seenTail, head) < CapacityPow2 - 1
    BY <1>1, <2>1, <2>2, FarIs DEF Cells
  <2>4. /\ Far(tail, seenHead) + Far(seenHead, head) = Far(tail, head)
        /\ Far(seenTail, tail) + Far(tail, head) = Far(seenTail, head)
    BY DEF LtcInv, RingTrue
  <2>5. /\ Far(tail, seenHead) \in Nat /\ Far(seenHead, head) \in Nat
        /\ Far(seenTail, tail) \in Nat /\ Far(tail, head) \in Nat
    BY <1>1, <2>1, FarIs
  <2>6. Far(tail, head) # CapacityPow2 - 1 /\ Far(seenHead, head) # CapacityPow2 - 1
    BY <2>1, <2>3, <2>4, <2>5
  <2>7. tail # head' /\ seenHead # head'
    BY <1>1, <2>1, <2>6, FarIs
  <2> QED BY <1>1, <2>1, <2>2, <2>7, FarIs
<1>3. LtcTyped'
  BY <1>1 DEF LtcInv, LtcTyped
<1>4. RingTrue'
  <2>1. /\ Far(tail, seenHead)' = Far(tail, seenHead) /\ Far(seenTail, tail)' = Far(seenTail, tail)
        /\ Far(seenHead, head)' = Far(seenHead, head')
        /\ Far(tail, head)' = Far(tail, head') /\ Far(seenTail, head)' = Far(seenTail, head')
        /\ seenHead' = seenHead
    BY <1>1 DEF Far
  <2>2. /\ Far(tail, seenHead) \in Nat /\ Far(seenHead, head) \in Nat
        /\ Far(seenTail, tail) \in Nat /\ Far(tail, head) \in Nat
        /\ Far(seenTail, head) \in Nat
    BY FarIs DEF LtcInv, LtcTyped
  <2>3. /\ Far(tail, seenHead) + (Far(seenHead, head) + 1) = Far(tail, head) + 1
        /\ Far(seenTail, tail) + (Far(tail, head) + 1) = Far(seenTail, head) + 1
    BY <2>2 DEF LtcInv, RingTrue
  <2> QED BY <1>1, <1>2, <2>1, <2>3 DEF LtcInv, RingTrue
<1>5. \A x, y : Follows(x, y)' <=> Follows(x, y)
  BY <1>1 DEF Follows
\* What came before the line came before the sample.
<1>6. ASSUME NEW i \in Cells, i # After(head) PROVE Behind(i)' = Behind(i)
  BY <1>1, <1>6 DEF Behind
<1>7. ASSUME NEW i \in Cells, Holds(i)' PROVE Follows(cells[i], Behind(After(i)))'
  <2>1. CASE i = head
    <3>1. Follows(line, line + 1)'
      BY <1>1 DEF Follows
    <3>2. Behind(After(i))' = line'
      BY <1>1, <2>1 DEF Behind, After
    <3> QED BY <1>1, <2>1, <3>1, <3>2 DEF Follows
  <2>2. CASE i # head
    <3>1. Holds(i) /\ After(i) # After(head) /\ After(i) \in Cells
      BY <1>1, <1>2, <1>7, <2>2, AfterIs, LtcAssumption DEF Holds, Far, After, Cells
    <3>2. Follows(cells[i], Behind(After(i)))
      BY <3>1 DEF LtcInv, Chained
    <3>3. Behind(After(i))' = Behind(After(i))
      BY <1>6, <3>1 DEF After
    <3> QED BY <1>1, <1>5, <3>2, <3>3
  <2> QED BY <2>1, <2>2
<1>8. Behind(tail)' = Behind(tail)
  BY <1>1, <1>2 DEF Behind
<1>9. cpc' = "decode" => Follows(sample, Behind(tail))'
  BY <1>1, <1>5, <1>8 DEF LtcInv, Chained
<1>10. register' # <<>> =>
       Follows(register[Len(register)], IF cpc = "decode" THEN sample ELSE Behind(tail))'
  BY <1>1, <1>5, <1>8 DEF LtcInv, Chained
<1>11. /\ tc' # <<>> => Len(tc') = FrameBits
       /\ \A b \in 1 .. Len(register') - 1 : Follows(register[b], register[b + 1])'
       /\ \A b \in 1 .. Len(tc') - 1 : Follows(tc[b], tc[b + 1])'
  BY <1>1, <1>5 DEF LtcInv, Chained
<1> QED BY <1>3, <1>4, <1>7, <1>9, <1>10, <1>11 DEF LtcInv, Chained

\* The sample leaves the ring for the decoder's hand.
LEMMA StoreTailKeeps ==
    ASSUME LtcInv, StoreTail
    PROVE  LtcInv'
<1>1. /\ cpc = "store" /\ cpc' = "decode" /\ tail' = After(tail) /\ sample = cells[tail]
      /\ UNCHANGED <<ppc, line, head, cells, seenTail, missed, seenHead, sample, register, tc>>
      /\ head \in Cells /\ tail' \in Cells /\ tail \in Cells /\ tail # seenHead
  BY AfterIs DEF StoreTail, audioVars, LtcInv, LtcTyped, RingTrue
<1>2. /\ tail # head /\ Far(tail', head) = Far(tail, head) - 1
      /\ Far(tail', seenHead) = Far(tail, seenHead) - 1
      /\ Far(seenTail, tail') = Far(seenTail, tail) + 1
  <2>1. /\ seenTail \in Cells /\ seenHead \in Cells
        /\ Far(tail, seenHead) + Far(seenHead, head) = Far(tail, head)
        /\ Far(seenTail, tail) + Far(tail, head) = Far(seenTail, head)
    BY DEF LtcInv, LtcTyped, RingTrue
  <2>2. /\ Far(tail, seenHead) \in Nat \ {0} /\ Far(seenHead, head) \in Nat
        /\ Far(seenTail, tail) \in Nat /\ Far(seenTail, head) \in Cells
    BY <1>1, <2>1, FarIs
  <2>3. tail # head
    BY <1>1, <2>1, <2>2, FarIs
  <2>4. ASSUME NEW b \in Cells, b # tail PROVE Far(tail', b) = Far(tail, b) - 1
    BY <1>1, <2>4, LtcAssumption DEF Far, After, Cells
  <2>5. Far(seenTail, tail) # CapacityPow2 - 1
    BY <1>1, <2>1, <2>2, <2>3, FarIs, LtcAssumption DEF Cells
  <2>6. Far(seenTail, tail') = Far(seenTail, tail) + 1
    BY <1>1, <2>1, <2>5, FarIs
  <2> QED BY <1>1, <2>1, <2>3, <2>4, <2>6
<1>3. LtcTyped'
  BY <1>1 DEF LtcInv, LtcTyped
<1>4. RingTrue'
  <2>1. /\ Far(tail, seenHead)' = Far(tail', seenHead) /\ Far(seenTail, tail)' = Far(seenTail, tail')
        /\ Far(seenHead, head)' = Far(seenHead, head)
        /\ Far(tail, head)' = Far(tail', head) /\ Far(seenTail, head)' = Far(seenTail, head)
        /\ After(head)' = After(head)
    BY <1>1 DEF Far, After
  <2>2. /\ Far(tail, seenHead) \in Nat /\ Far(seenHead, head) \in Nat
        /\ Far(seenTail, tail) \in Nat /\ Far(tail, head) \in Nat
        /\ Far(seenTail, head) \in Nat
    BY FarIs DEF LtcInv, LtcTyped
  <2>3. /\ (Far(tail, seenHead) - 1) + Far(seenHead, head) = Far(tail, head) - 1
        /\ (Far(seenTail, tail) + 1) + (Far(tail, head) - 1) = Far(seenTail, head)
    BY <2>2 DEF LtcInv, RingTrue
  <2> QED BY <1>1, <1>2, <2>1, <2>3 DEF LtcInv, RingTrue
<1>5. \A x, y : Follows(x, y)' <=> Follows(x, y)
  BY <1>1 DEF Follows
<1>6. \A i : Behind(i)' = Behind(i)
  BY <1>1 DEF Behind
<1>7. Holds(tail)
  BY <1>1, <1>2, FarIs DEF Holds, Cells
<1>8. ASSUME NEW i \in Cells, Holds(i)' PROVE Follows(cells[i], Behind(After(i)))'
  <2>1. Holds(i)
    <3>1. CASE i = tail
      BY <1>7, <3>1
    <3>2. CASE i # tail
      <4>1. Far(tail', i) = Far(tail, i) - 1
        BY <1>1, <3>2, LtcAssumption DEF Far, After, Cells
      <4>2. Far(tail', i) < Far(tail', head)
        BY <1>1, <1>8 DEF Holds, Far
      <4>3. Far(tail, i) \in Nat /\ Far(tail, head) \in Nat
        BY <1>1, FarIs
      <4> QED BY <1>2, <4>1, <4>2, <4>3 DEF Holds
    <3> QED BY <3>1, <3>2
  <2> QED BY <1>1, <1>5, <1>6, <2>1 DEF LtcInv, Chained
<1>9. Follows(sample, Behind(tail'))
  BY <1>1, <1>7 DEF LtcInv, Chained
<1>10. cpc' = "decode" => Follows(sample, Behind(tail))'
  BY <1>1, <1>5, <1>9 DEF Behind
<1>11. register # <<>> => Follows(register[Len(register)], sample)
  BY <1>1, <1>2 DEF LtcInv, Chained, Behind
<1>12. register' # <<>> =>
       Follows(register[Len(register)], IF cpc = "decode" THEN sample ELSE Behind(tail))'
  BY <1>1, <1>5, <1>11
<1>13. /\ tc' # <<>> => Len(tc') = FrameBits
       /\ \A b \in 1 .. Len(register') - 1 : Follows(register[b], register[b + 1])'
       /\ \A b \in 1 .. Len(tc') - 1 : Follows(tc[b], tc[b + 1])'
  BY <1>1, <1>5 DEF LtcInv, Chained
<1> QED BY <1>3, <1>4, <1>8, <1>10, <1>12, <1>13 DEF LtcInv, Chained

\* The register with one more bit is a chain still, with or without its oldest.
LEMMA ShiftKeeps ==
    ASSUME NEW bits \in Bits, NEW s \in Nat,
           \A b \in 1 .. Len(bits) - 1 : Follows(bits[b], bits[b + 1]),
           bits # <<>> => Follows(bits[Len(bits)], s),
           NEW new, new = IF Len(Append(bits, s)) > FrameBits THEN Tail(Append(bits, s))
                          ELSE Append(bits, s)
    PROVE  /\ new \in Bits /\ new # <<>> /\ new[Len(new)] = s
           /\ \A b \in 1 .. Len(new) - 1 : Follows(new[b], new[b + 1])
<1> DEFINE long == Append(bits, s)
<1>1. bits \in Seq(Nat) /\ Len(bits) <= FrameBits /\ Len(bits) \in Nat /\ FrameBits \in Nat \ {0}
  BY LtcAssumption DEF Bits
<1>2. /\ long \in Seq(Nat) /\ Len(long) = Len(bits) + 1 /\ long # <<>>
      /\ long[Len(long)] = s /\ \A b \in 1 .. Len(bits) : long[b] = bits[b]
  BY <1>1
<1> HIDE DEF long
<1>3. ASSUME NEW b \in 1 .. Len(long) - 1 PROVE Follows(long[b], long[b + 1])
  <2>1. CASE b = Len(bits)
    BY <1>1, <1>2, <2>1
  <2>2. CASE b # Len(bits)
    BY <1>1, <1>2, <2>2
  <2> QED BY <2>1, <2>2
<1>4. CASE Len(long) > FrameBits
  <2>1. new = Tail(long)
    BY <1>4 DEF long
  <2>2. /\ new \in Seq(Nat) /\ Len(new) = Len(bits)
        /\ \A b \in 1 .. Len(new) : new[b] = long[b + 1]
    <3>1. /\ Tail(long) \in Seq(Nat) /\ Len(Tail(long)) = Len(long) - 1
          /\ \A b \in 1 .. Len(Tail(long)) : Tail(long)[b] = long[b + 1]
      BY <1>2, HeadTailProperties, Zenon
    <3>2. Len(Tail(long)) = Len(bits)
      BY <1>1, <1>2, <3>1
    <3> QED BY <2>1, <3>1, <3>2, Zenon
  <2>3. Len(bits) > 0 /\ new # <<>> /\ new[Len(new)] = s
    BY <1>1, <1>2, <1>4, <2>2
  <2>4. ASSUME NEW b \in 1 .. Len(new) - 1 PROVE Follows(new[b], new[b + 1])
    <3>1. PICK c \in 1 .. Len(long) - 1 : c = b + 1
      BY <1>1, <1>2, <2>2
    <3>2. Follows(long[c], long[c + 1])
      BY <1>3
    <3>3. b \in 1 .. Len(new) /\ b + 1 \in 1 .. Len(new) /\ c = b + 1
      <4>1. PICK n \in Nat : n = Len(new)
        BY <1>1, <2>2
      <4>2. b \in 1 .. n /\ b + 1 \in 1 .. n
        BY <4>1
      <4> QED BY <3>1, <4>1, <4>2
    <3>4. PICK d \in 1 .. Len(new) : d = b + 1
      BY <3>3
    <3>5. new[b] = long[b + 1] /\ new[d] = long[d + 1]
      BY <2>2, <3>3
    <3> QED BY <3>2, <3>3, <3>4, <3>5
  <2> QED BY <1>1, <2>2, <2>3, <2>4 DEF Bits
<1>5. CASE ~(Len(long) > FrameBits)
  <2>1. new = long
    BY <1>5 DEF long
  <2> QED BY <1>1, <1>2, <1>3, <1>5, <2>1 DEF Bits
<1> QED BY <1>4, <1>5

LEMMA DecodeKeeps ==
    ASSUME LtcInv, CheckAndDecode
    PROVE  LtcInv'
<1>1. /\ cpc = "decode" /\ cpc' = "idle" /\ register' = ShiftBit(sample)
      /\ (tc' = register' /\ Len(register') = FrameBits) \/ tc' = tc
      /\ UNCHANGED <<ppc, line, head, cells, seenTail, missed, tail, seenHead, sample>>
  BY DEF CheckAndDecode, audioVars, InSync
<1>2. /\ register' \in Bits /\ register' # <<>> /\ register'[Len(register')] = sample
      /\ \A b \in 1 .. Len(register') - 1 : Follows(register'[b], register'[b + 1])
  <2>1. /\ register \in Bits /\ sample \in Nat
        /\ \A b \in 1 .. Len(register) - 1 : Follows(register[b], register[b + 1])
        /\ register # <<>> => Follows(register[Len(register)], sample)
    BY <1>1 DEF LtcInv, LtcTyped, Chained
  <2>2. register' = IF Len(Append(register, sample)) > FrameBits
                    THEN Tail(Append(register, sample)) ELSE Append(register, sample)
    BY <1>1 DEF ShiftBit
  <2> QED BY <2>1, <2>2, ShiftKeeps
<1>3. LtcTyped'
  BY <1>1, <1>2 DEF LtcInv, LtcTyped
<1>4. RingTrue'
  BY <1>1 DEF LtcInv, RingTrue, Far, After
<1>5. \A x, y : Follows(x, y)' <=> Follows(x, y)
  BY <1>1 DEF Follows
<1>6. \A i : Behind(i)' = Behind(i) /\ (Holds(i)' <=> Holds(i))
  BY <1>1 DEF Behind, Holds, Far
<1>7. \A i \in Cells : Holds(i)' => Follows(cells[i], Behind(After(i)))'
  BY <1>1, <1>5, <1>6 DEF LtcInv, Chained
<1>8. Follows(sample, Behind(tail))
  BY <1>1 DEF LtcInv, Chained
<1>9. register' # <<>> =>
       Follows(register[Len(register)], IF cpc = "decode" THEN sample ELSE Behind(tail))'
  BY <1>1, <1>2, <1>5, <1>6, <1>8
<1>10. /\ tc' # <<>> => Len(tc') = FrameBits
       /\ \A b \in 1 .. Len(tc') - 1 : Follows(tc'[b], tc'[b + 1])
  <2>1. CASE tc' = register' /\ Len(register') = FrameBits
    BY <1>2, <2>1
  <2>2. CASE tc' = tc
    BY <2>2 DEF LtcInv, Chained
  <2> QED BY <1>1, <2>1, <2>2
<1> QED BY <1>1, <1>2, <1>3, <1>4, <1>5, <1>7, <1>9, <1>10 DEF LtcInv, Chained

\* Nothing is left in the ring, and all that was on the line is missed.
LEMMA PrepareKeeps ==
    ASSUME LtcInv, PrepareChase
    PROVE  LtcInv'
<1>1. /\ tail' = head /\ seenTail' = head /\ seenHead' = head /\ head' = head
      /\ register' = <<>> /\ tc' = <<>> /\ ppc' = "idle" /\ cpc' = "idle"
      /\ UNCHANGED <<line, cells, sample>>
  BY DEF PrepareChase
<1>2. <<>> \in Bits
  BY LtcAssumption DEF Bits
<1>3. LtcTyped'
  BY <1>1, <1>2 DEF LtcInv, LtcTyped
<1>4. RingTrue'
  BY <1>1 DEF LtcInv, LtcTyped, RingTrue, Far, Cells
<1>5. \A i \in Cells : ~Holds(i)'
  <2>1. Far(head, head) = 0 /\ \A i \in Cells : Far(head, i) \in Nat
    BY FarIs DEF LtcInv, LtcTyped
  <2> QED BY <1>1, <2>1 DEF Holds, Far
<1>6. Chained'
  BY <1>1, <1>5 DEF Chained
<1> QED BY <1>3, <1>4, <1>6 DEF LtcInv

LEMMA LtcStepInv == LtcInv /\ [LtcNext]_ltcVars => LtcInv'
<1> SUFFICES ASSUME LtcInv, [LtcNext]_ltcVars PROVE LtcInv'
  OBVIOUS
<1>1. CASE UNCHANGED ltcVars
  <2>1. LtcTyped' /\ RingTrue'
    BY <1>1 DEF ltcVars, audioVars, chaseVars, LtcInv, LtcTyped, RingTrue, Far, After
  <2>2. Chained'
    BY <1>1, NothingMoves DEF ltcVars, audioVars, chaseVars
  <2> QED BY <2>1, <2>2 DEF LtcInv
<1>2. CASE LtcNext
  BY <1>2, QuietStep, EnterBlockKeeps, OfferKeeps, StoreHeadKeeps, StoreTailKeeps, DecodeKeeps,
     PrepareKeeps DEF LtcNext, AudioSide, ControlSide
<1> QED BY <1>1, <1>2

\* The bits of the time code shown were on the line in this order, and only
\* samples that never got into the ring are missing between them, however the
\* ring wraps and fills up and the chase is switched and the device restarted
\* (LtcChase::push and update, LtcDecoder's register).
THEOREM TimecodeAlwaysTrue == LtcSpec => []TimecodeTrue
<1>1. LtcInv => TimecodeTrue
  <2> SUFFICES ASSUME LtcInv, tc # <<>>, NEW b \in 1 .. FrameBits - 1
               PROVE  tc[b] < tc[b + 1] /\ tc[b] + 1 .. tc[b + 1] - 1 \subseteq missed
    BY DEF TimecodeTrue
  <2> QED BY DEF LtcInv, Chained, Follows
<1> QED BY <1>1, LtcInitInv, LtcStepInv, PTL DEF LtcSpec

-------------------------------------------------------------------------------
(* The gain cache *)

Entries == {[key |-> k, gains |-> k] : k \in Keys}

CacheTyped ==
    /\ scene \in [1 .. Active -> Keys] /\ turn \in 1 .. Active
    /\ slots \in [Slots -> Entries \cup {Blank}]
    /\ order \in Seq(Slots) /\ Len(order) <= RING_CAP

\* The order holds the slots in use, each once.
OrderTrue ==
    /\ \A i, j \in 1 .. Len(order) : order[i] = order[j] => i = j
    /\ \A s \in Slots : slots[s] # Blank <=> \E i \in 1 .. Len(order) : order[i] = s

CacheInv == CacheTyped /\ OrderTrue /\ GainsOfTheBin

LEMMA EntryNotBlank ==
    ASSUME NEW k
    PROVE  [key |-> k, gains |-> k] # Blank
<1> DEFINE e == [key |-> k, gains |-> k]
<1>1. "key" \in DOMAIN e
  OBVIOUS
<1>2. DOMAIN Blank = {}
  BY DEF Blank
<1> HIDE DEF e
<1>3. e # Blank
  BY <1>1, <1>2
<1> QED BY <1>3 DEF e

\* A set of places has a smallest: the sets of those below one of them are
\* ordered by inclusion.
LEMMA SmallestPlace ==
    ASSUME NEW T, T \subseteq Slots, T # {}
    PROVE  \E i \in T : \A j \in T : i <= j
<1> DEFINE Below(i) == {j \in T : j < i}
           Lower == {Below(i) : i \in T}
           R == StrictSubsetOrdering(Slots)
<1>1. IsFiniteSet(Slots) /\ Slots \subseteq Int
  BY FS_Interval, CacheAssumption DEF Slots
<1>2. Lower \subseteq FiniteSubsetsOf(Slots) /\ Lower # {}
  <2>1. FiniteSubsetsOf(Slots) = SUBSET Slots
    BY <1>1, FS_FiniteSubsetsOfFinite
  <2>2. \A i \in T : Below(i) \in SUBSET Slots
    OBVIOUS
  <2> HIDE DEF Below
  <2> QED BY <2>1, <2>2
<1>3. IsWellFoundedOn(R, FiniteSubsetsOf(Slots))
  BY FS_StrictSubsetOrderingWellFounded
<1> HIDE DEF Lower
<1>4. PICK B \in Lower : \A C \in Lower : <<C, B>> \notin R
  BY <1>2, <1>3, WFMin
<1>5. PICK i \in T : B = Below(i)
  BY <1>4 DEF Lower
<1>6. ASSUME NEW j \in T, j < i PROVE FALSE
  <2>1. Below(j) \in Lower
    BY DEF Lower
  <2>2. Below(j) \subseteq Below(i) /\ j \in Below(i) /\ j \notin Below(j)
    <3>1. i \in Int /\ j \in Int /\ j < i /\ \A x \in T : x \in Int
      BY <1>1, <1>6
    <3>2. \A x \in T : x < j => x < i
      BY <3>1
    <3>3. ~(j < j)
      BY <3>1
    <3> QED BY <1>6, <3>2, <3>3
  <2>3. <<Below(j), Below(i)>> \in R
    BY <2>2 DEF StrictSubsetOrdering
  <2> QED BY <1>4, <1>5, <2>1, <2>3
<1>7. i \in Int /\ \A j \in T : j \in Int /\ ~(j < i)
  BY <1>1, <1>6
<1>8. \A j \in T : i <= j
  BY <1>7
<1> QED BY <1>8

\* The search comes to every slot.
LEMMA ProbeReaches ==
    ASSUME NEW k \in Keys, NEW s \in Slots
    PROVE  \E i \in Slots : Probe(k, i) = s
<1> DEFINE h == k[2]   M == MAX_CACHE
<1>1. h \in Nat /\ M \in Nat \ {0} /\ s \in 0 .. M - 1
  BY CacheAssumption DEF Keys, Slots
<1> HIDE DEF h, M
<1>2. PICK q, r : q = h \div M /\ r = h % M
  OBVIOUS
<1>3. h = M * q + r /\ q \in Int /\ r \in 0 .. M - 1
  BY <1>1, <1>2, QuotientIs
<1>4. CASE s >= r
  <2>1. h + (s - r) = M * q + s /\ s - r \in 0 .. M - 1 /\ h + (s - r) \in Int
    BY <1>1, <1>3, <1>4
  <2>2. (h + (s - r)) % M = s
    BY <1>1, <1>3, <2>1, RemainderIs
  <2> QED BY <2>1, <2>2 DEF Probe, Slots, h, M
<1>5. CASE s < r
  <2>1. /\ h + (s - r + M) = M * (q + 1) + s /\ s - r + M \in 0 .. M - 1
        /\ h + (s - r + M) \in Int /\ q + 1 \in Int
    BY <1>1, <1>3, <1>5
  <2>2. (h + (s - r + M)) % M = s
    BY <1>1, <2>1, RemainderIs
  <2> QED BY <2>1, <2>2 DEF Probe, Slots, h, M
<1> QED BY <1>1, <1>3, <1>4, <1>5

\* Fewer slots are in use than there are.
LEMMA SomeSlotBlank ==
    ASSUME CacheTyped, OrderTrue
    PROVE  \E s \in Slots : slots[s] = Blank
<1> SUFFICES ASSUME \A s \in Slots : slots[s] # Blank PROVE FALSE
  OBVIOUS
<1> DEFINE n == Len(order)
<1>1. /\ n \in Nat /\ n < MAX_CACHE /\ MAX_CACHE \in Nat
      /\ order \in [1 .. n -> Slots]
  BY LenProperties, CacheAssumption DEF CacheTyped
<1>2. order \in Surjection(1 .. n, Slots)
  BY <1>1 DEF OrderTrue, Surjection
<1> HIDE DEF n
<1>3. IsFiniteSet(1 .. n) /\ Cardinality(1 .. n) = n
  BY <1>1, FS_Interval
<1>4. Cardinality(Slots) <= n
  BY <1>2, <1>3, FS_Surjection
<1>5. Cardinality(Slots) = MAX_CACHE
  BY <1>1, FS_Interval, CacheAssumption DEF Slots
<1> QED BY <1>1, <1>4, <1>5

\* A search ends, at its key or at an empty slot.
LEMMA SearchEnds ==
    ASSUME CacheTyped, OrderTrue, NEW k \in Keys
    PROVE  /\ Stops(k) # {}
           /\ Found(k) \in Slots
           /\ slots[Found(k)] = Blank \/ slots[Found(k)].key = k
<1>1. PICK s \in Slots : slots[s] = Blank
  BY SomeSlotBlank
<1>2. PICK i \in Slots : Probe(k, i) = s
  BY ProbeReaches
<1>3. Stops(k) # {} /\ Stops(k) \subseteq Slots
  BY <1>1, <1>2 DEF Stops
<1> DEFINE m == CHOOSE a \in Stops(k) : \A j \in Stops(k) : a <= j
<1>4. m \in Stops(k)
  BY <1>3, SmallestPlace
<1>5. Found(k) = Probe(k, m)
  BY DEF Found
<1> HIDE DEF m
<1>6. Probe(k, m) \in Slots
  <2>1. k[2] + m \in Int /\ MAX_CACHE \in Nat \ {0}
    <3>1. k[2] \in Nat /\ MAX_CACHE \in Nat \ {0}
      BY CacheAssumption DEF Keys
    <3>2. m \in Int
      BY <1>3, <1>4, <3>1 DEF Slots
    <3> QED BY <3>1, <3>2
  <2> QED BY <2>1, QuotientIs DEF Probe, Slots
<1>7. slots[Probe(k, m)] = Blank \/ slots[Probe(k, m)].key = k
  BY <1>4 DEF Stops
<1> QED BY <1>3, <1>5, <1>6, <1>7

LEMMA CacheInitInv == CacheInit => CacheInv
<1> SUFFICES ASSUME CacheInit PROVE CacheInv
  OBVIOUS
<1>1. order = <<>> /\ order \in Seq(Slots) /\ Len(order) = 0
  BY EmptySeq DEF CacheInit
<1>2. CacheTyped
  BY <1>1, CacheAssumption DEF CacheInit, CacheTyped
<1>3. OrderTrue
  BY <1>1 DEF CacheInit, OrderTrue
<1> QED BY <1>2, <1>3 DEF CacheInv, CacheInit, GainsOfTheBin

\* What is kept of the order when an entry is stored.
LEMMA Keeps ==
    ASSUME CacheInv
    PROVE  /\ Younger \in Seq(Slots) /\ Len(Younger) < RING_CAP
           /\ \A i, j \in 1 .. Len(Younger) : Younger[i] = Younger[j] => i = j
           /\ Evicted(slots) \in [Slots -> Entries \cup {Blank}]
           /\ \A s \in Slots :
                 Evicted(slots)[s] # Blank <=> \E i \in 1 .. Len(Younger) : Younger[i] = s
           /\ \A s \in Slots : slots[s] = Blank => Evicted(slots)[s] = Blank
<1>1. /\ Len(order) \in Nat /\ RING_CAP \in Nat \ {0} /\ Len(order) <= RING_CAP
      /\ slots \in [Slots -> Entries \cup {Blank}] /\ order \in Seq(Slots)
  BY LenProperties, CacheAssumption DEF CacheInv, CacheTyped
<1>2. CASE ~Full
  <2>1. Younger = order /\ Evicted(slots) = slots
    BY <1>2 DEF Younger, Evicted
  <2> QED BY <1>1, <1>2, <2>1 DEF Full, CacheInv, OrderTrue
<1>3. CASE Full
  <2>1. order # <<>> /\ Len(order) = RING_CAP
    BY <1>1, <1>3 DEF Full
  <2>2. /\ Younger = Tail(order)
        /\ Evicted(slots) = [slots EXCEPT ![order[1]] = Blank]
    BY <1>3 DEF Younger, Evicted
  <2>3. /\ Younger \in Seq(Slots) /\ Len(Younger) = Len(order) - 1
        /\ \A i \in 1 .. Len(Younger) : Younger[i] = order[i + 1]
    BY <1>1, <2>1, <2>2, HeadTailProperties
  <2>4. order[1] \in Slots
    BY <1>1, <2>1, ElementOfSeq
  <2>5. \A i, j \in 1 .. Len(order) : order[i] = order[j] => i = j
    BY DEF CacheInv, OrderTrue
  <2>6. \A i, j \in 1 .. Len(Younger) : Younger[i] = Younger[j] => i = j
    <3> SUFFICES ASSUME NEW i \in 1 .. Len(Younger), NEW j \in 1 .. Len(Younger),
                        Younger[i] = Younger[j]
                 PROVE  i = j
      OBVIOUS
    <3>1. i + 1 \in 1 .. Len(order) /\ j + 1 \in 1 .. Len(order) /\ order[i + 1] = order[j + 1]
      BY <1>1, <2>3
    <3> QED BY <2>5, <3>1
  <2>7. ASSUME NEW s \in Slots
        PROVE  Evicted(slots)[s] # Blank <=> \E i \in 1 .. Len(Younger) : Younger[i] = s
    <3>1. slots[s] # Blank <=> \E i \in 1 .. Len(order) : order[i] = s
      BY DEF CacheInv, OrderTrue
    <3>2. CASE s = order[1]
      <4>1. Evicted(slots)[s] = Blank
        BY <1>1, <2>2, <2>4, <3>2
      <4>2. ASSUME NEW i \in 1 .. Len(Younger), Younger[i] = s PROVE FALSE
        <5>1. i + 1 \in 1 .. Len(order) /\ order[i + 1] = order[1] /\ 1 \in 1 .. Len(order)
          BY <1>1, <2>3, <3>2, <4>2
        <5> QED BY <2>5, <5>1
      <4> QED BY <4>1, <4>2
    <3>3. CASE s # order[1]
      <4>1. Evicted(slots)[s] = slots[s]
        BY <1>1, <2>2, <3>3
      <4>2. (\E i \in 1 .. Len(order) : order[i] = s) <=> \E i \in 1 .. Len(Younger) : Younger[i] = s
        <5>1. ASSUME NEW i \in 1 .. Len(order), order[i] = s
              PROVE  \E j \in 1 .. Len(Younger) : Younger[j] = s
          <6>1. i # 1 /\ i - 1 \in 1 .. Len(Younger)
            BY <1>1, <2>3, <3>3, <5>1
          <6>2. Younger[i - 1] = order[i]
            BY <2>3, <6>1
          <6> QED BY <5>1, <6>1, <6>2
        <5>2. ASSUME NEW i \in 1 .. Len(Younger), Younger[i] = s
              PROVE  \E j \in 1 .. Len(order) : order[j] = s
          <6>1. i + 1 \in 1 .. Len(order) /\ order[i + 1] = s
            BY <1>1, <2>3, <5>2
          <6> QED BY <6>1
        <5> QED BY <5>1, <5>2
      <4> QED BY <3>1, <4>1, <4>2
    <3> QED BY <3>2, <3>3
  <2>8. /\ Evicted(slots) \in [Slots -> Entries \cup {Blank}]
        /\ \A s \in Slots : slots[s] = Blank => Evicted(slots)[s] = Blank
    BY <1>1, <2>2, <2>4
  <2> QED BY <1>1, <2>1, <2>3, <2>6, <2>7, <2>8
<1> QED BY <1>2, <1>3

LEMMA TurnTyped ==
    ASSUME turn \in 1 .. Active
    PROVE  (turn % Active) + 1 \in 1 .. Active
<1>1. Active \in Nat \ {0} /\ turn \in Int
  BY CacheAssumption
<1>2. turn % Active \in 0 .. Active - 1
  BY <1>1, QuotientIs
<1> QED BY <1>1, <1>2

LEMMA LookupKeeps ==
    ASSUME CacheInv, Lookup
    PROVE  CacheInv'
<1> DEFINE k == scene[turn]   f == Found(k)
<1>1. k \in Keys /\ wanted' = k /\ scene' = scene /\ turn' \in 1 .. Active
  BY TurnTyped DEF CacheInv, CacheTyped, Lookup
<1> HIDE DEF k
<1>2. f \in Slots /\ (slots[f] = Blank \/ slots[f].key = k)
  BY <1>1, SearchEnds DEF CacheInv
<1> HIDE DEF f
<1>3. CASE Hit(k)
  <2>1. slots[f] # Blank /\ got' = slots[f].gains /\ UNCHANGED <<slots, order>>
    BY <1>3 DEF Hit, f
  <2>2. slots[f] \in Entries
    BY <1>2, <2>1 DEF CacheInv, CacheTyped
  <2>3. got' = k
    BY <1>2, <2>1, <2>2 DEF Entries
  <2> QED BY <1>1, <2>1, <2>3 DEF CacheInv, CacheTyped, OrderTrue, GainsOfTheBin
<1>4. CASE Miss(k)
  <2> DEFINE e == [key |-> k, gains |-> k]   y == Younger   t == Evicted(slots)
  <2>1. /\ slots[f] = Blank /\ slots' = [t EXCEPT ![f] = e]
        /\ order' = Append(y, f) /\ got' = k
    BY <1>4 DEF Miss, f
  <2>2. e \in Entries /\ e # Blank
    BY <1>1, EntryNotBlank DEF Entries
  <2> HIDE DEF e
  <2>3. /\ y \in Seq(Slots) /\ Len(y) < RING_CAP
        /\ \A i, j \in 1 .. Len(y) : y[i] = y[j] => i = j
        /\ t \in [Slots -> Entries \cup {Blank}]
        /\ \A s \in Slots : t[s] # Blank <=> \E i \in 1 .. Len(y) : y[i] = s
        /\ t[f] = Blank
    BY <1>2, <2>1, Keeps
  <2> HIDE DEF y, t
  <2>4. RING_CAP \in Nat /\ Len(y) \in Nat
    BY <2>3, LenProperties, CacheAssumption
  <2>5. /\ order' \in Seq(Slots) /\ Len(order') = Len(y) + 1
        /\ \A i \in 1 .. Len(y) : order'[i] = y[i]
        /\ order'[Len(y) + 1] = f
    BY <1>2, <2>1, <2>3, AppendProperties
  <2>6. CacheTyped'
    <3>1. slots' \in [Slots -> Entries \cup {Blank}]
      BY <2>1, <2>2, <2>3
    <3> QED BY <1>1, <2>3, <2>4, <2>5, <3>1 DEF CacheInv, CacheTyped
  <2>7. \A i \in 1 .. Len(y) : y[i] # f
    BY <1>2, <2>3
  <2>8. \A i, j \in 1 .. Len(order') : order'[i] = order'[j] => i = j
    <3> SUFFICES ASSUME NEW i \in 1 .. Len(y) + 1, NEW j \in 1 .. Len(y) + 1,
                        order'[i] = order'[j]
                 PROVE  i = j
      BY <2>5
    <3>1. CASE i \in 1 .. Len(y) /\ j \in 1 .. Len(y)
      BY <2>3, <2>5, <3>1
    <3>2. CASE i = Len(y) + 1 \/ j = Len(y) + 1
      BY <2>4, <2>5, <2>7, <3>2
    <3> QED BY <2>4, <3>1, <3>2
  <2>9. ASSUME NEW s \in Slots
        PROVE  slots'[s] # Blank <=> \E i \in 1 .. Len(order') : order'[i] = s
    <3>1. CASE s = f
      <4>1. slots'[s] = e
        BY <1>2, <2>1, <2>3, <3>1
      <4>2. Len(y) + 1 \in 1 .. Len(order')
        BY <2>4, <2>5
      <4> QED BY <2>2, <2>5, <3>1, <4>1, <4>2
    <3>2. CASE s # f
      <4>1. slots'[s] = t[s]
        BY <2>1, <2>3, <3>2
      <4>2. (\E i \in 1 .. Len(order') : order'[i] = s) <=> \E i \in 1 .. Len(y) : y[i] = s
        BY <2>4, <2>5, <3>2
      <4> QED BY <2>3, <4>1, <4>2
    <3> QED BY <3>1, <3>2
  <2>10. OrderTrue'
    BY <2>8, <2>9 DEF OrderTrue, Slots
  <2> QED BY <1>1, <2>1, <2>6, <2>10 DEF CacheInv, GainsOfTheBin
<1> QED BY <1>3, <1>4 DEF Lookup, k

LEMMA CacheStepInv == CacheInv /\ [CacheNext]_cacheVars => CacheInv'
<1> SUFFICES ASSUME CacheInv, [CacheNext]_cacheVars PROVE CacheInv'
  OBVIOUS
<1>1. CASE Lookup
  BY <1>1, LookupKeeps
<1>2. CASE MoveObject
  BY <1>2 DEF MoveObject, CacheInv, CacheTyped, OrderTrue, GainsOfTheBin
<1>3. CASE UNCHANGED cacheVars
  BY <1>3 DEF cacheVars, CacheInv, CacheTyped, OrderTrue, GainsOfTheBin
<1> QED BY <1>1, <1>2, <1>3 DEF CacheNext

\* However keys collide, are evicted and stored twice, every search for a key
\* ends, at most half of the slots are in use, and an object is rendered with
\* the gains of the bin it is in (VBAPRenderer::lookupOrCompute).
THEOREM CacheAlwaysSound == CacheSpec => []CacheSound
<1>1. CacheInv => CacheSound
  <2> SUFFICES ASSUME CacheInv PROVE HalfFull
    BY DEF CacheSound, CacheInv
  <2>1. DOMAIN order = 1 .. Len(order) /\ \A i \in 1 .. Len(order) : order[i] \in Slots
    BY LenProperties, ElementOfSeq DEF CacheInv, CacheTyped
  <2>2. {order[i] : i \in DOMAIN order} = {s \in Slots : slots[s] # Blank}
    BY <2>1 DEF CacheInv, OrderTrue
  <2>3. \A k \in Keys : Stops(k) # {}
    BY SearchEnds DEF CacheInv
  <2> QED BY <2>1, <2>2, <2>3 DEF HalfFull, CacheInv, CacheTyped, OrderTrue
<1> QED BY <1>1, CacheInitInv, CacheStepInv, PTL DEF CacheSpec

===============================================================================
