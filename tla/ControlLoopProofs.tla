------------------------- MODULE ControlLoopProofs -------------------------
(***************************************************************************)
(* Proofs about two components that run on the control loop: the live swap *)
(* of the HRTF data set, for every catalogue and any number of objects,    *)
(* selections and stops of the device, and the scene library, for any      *)
(* scenes, notes, failed writes and crashes.                               *)
(*                                                                         *)
(* LiveSetWhole is proved under the hypothesis Patience >= 1: while the    *)
(* device runs, the spin budget is not exhausted before one audio block    *)
(* has ended.  Nothing in the code enforces this, and without it the       *)
(* property is false: GiveUp then lets the control loop write a slot that  *)
(* a block begun before the last swap still reads.  The types need no      *)
(* hypothesis.                                                             *)
(*                                                                         *)
(* The library's theorems assume that no command names the scene "index":  *)
(* the code does not refuse the name, and a save or a rename under it      *)
(* would write over index.json.                                            *)
(***************************************************************************)
EXTENDS SofaSwap, SceneLibrary, SequenceTheorems, FiniteSetTheorems,
        WellFoundedInduction, TLAPS

\* The control loop has seen a block end, or found the device stopped, since
\* it last published a table ...
TableFree ==
    \/ cpc \in {"waitTable", "waitVs", "load", "loading", "publish"}
    \/ cpc = "waitTick" /\ ticks > 0

\* ... or a bank of virtual speakers.
VsFree == TableFree \/ cpc \in {"fill", "filling", "publishVs"}

Swapping == {"fill", "filling", "publishVs"}

ControlLabels ==
    {"tick", "copy", "startWait", "waitTick", "waitTable", "waitVs",
     "load", "loading", "publish"} \cup Swapping

\* A file that is loaded has a path of the catalogue, and a block that reads a
\* slot has this read still to do.
Steady ==
    /\ cpc \in ControlLabels
    /\ cpc \in {"loading", "publish"} \cup Swapping => path # Garbage
    /\ apc \in {"table", "vs"} => reads # <<>>

\* The inductive invariant of the types.
TypeInv == TypeOK /\ Steady

\* Once it has, the audio thread reads only the active slots.
ReadsActive ==
    /\ ~running => apc = "idle"
    /\ TableFree /\ apc = "table" => localTable = activeTable
    /\ VsFree /\ apc = "vs" => localVs = activeVs

\* What the slots hold at each point of a swap.
SlotsTrue ==
    /\ cpc = "publish" => table[Other(activeTable)] = path
    /\ table[activeTable] = IF cpc \in Swapping THEN path ELSE applied
    /\ cpc = "publishVs" => vs[Other(activeVs)] = path
    /\ vs[activeVs] = applied

-----------------------------------------------------------------------------
\* The count of blocks stays within its bound.
LEMMA TickBound ==
    /\ Max({Patience, 1}) \in Nat
    /\ \A n \in 0 .. Max({Patience, 1}) :
          Min({n + 1, Max({Patience, 1})}) \in 0 .. Max({Patience, 1})
<1>1. Patience \in Nat
  BY SofaAssumption
<1>2. Max({Patience, 1}) \in {Patience, 1}
  <2>1. \E x \in {Patience, 1} : \A y \in {Patience, 1} : x >= y
    BY <1>1
  <2> QED BY <2>1 DEF Max
<1>3. Max({Patience, 1}) \in Nat
  BY <1>1, <1>2
<1> DEFINE bound == Max({Patience, 1})
<1> HIDE DEF bound
<1>4. ASSUME NEW n \in 0 .. bound, bound \in Nat
      PROVE  Min({n + 1, bound}) \in 0 .. bound
  <2>1. \E x \in {n + 1, bound} : \A y \in {n + 1, bound} : x =< y
    BY <1>4
  <2>2. Min({n + 1, bound}) \in {n + 1, bound}
        /\ Min({n + 1, bound}) =< bound
    BY <2>1 DEF Min
  <2> QED BY <1>4, <2>2
<1> QED BY <1>3, <1>4 DEF bound

\* A block's reads are a sequence of slots.
LEMMA ReadsType == BlockReads \subseteq Seq({"table", "vs"})
<1> DEFINE Direct == {[i \in 1 .. n |-> "table"] : n \in 0 .. MaxActive}
<1>1. MaxActive \in Nat
  BY SofaAssumption
<1>2. Direct \subseteq Seq({"table", "vs"})
  <2> SUFFICES ASSUME NEW n \in 0 .. MaxActive
               PROVE  [i \in 1 .. n |-> "table"] \in Seq({"table", "vs"})
    OBVIOUS
  <2> QED BY <1>1, IsASeq
<1>3. <<"vs">> \in Seq({"table", "vs"})
  OBVIOUS
<1>4. \A d \in Direct : /\ <<"vs">> \o d \in Seq({"table", "vs"})
                        /\ d \o <<"vs">> \in Seq({"table", "vs"})
  <2> HIDE DEF Direct
  <2> QED BY <1>2, <1>3, ConcatProperties
<1> QED BY <1>2, <1>3, <1>4 DEF BlockReads

LEMMA InitSwap == Init => TypeInv /\ ReadsActive /\ SlotsTrue
<1> SUFFICES ASSUME Init PROVE TypeInv /\ ReadsActive /\ SlotsTrue
  OBVIOUS
<1> USE DEF Init, Slots
<1>1. TypeOK
  <2>1. ticks \in 0 .. Max({Patience, 1})
    BY TickBound
  <2>2. table \in [Slots -> Paths \cup {Partial}]
    BY DEF Paths
  <2> QED BY <2>1, <2>2 DEF TypeOK, Paths, Unread
<1>2. Steady
  BY DEF Steady, ControlLabels, Swapping
<1>3. ReadsActive /\ SlotsTrue
  BY DEF Swapping, ReadsActive, TableFree, VsFree, SlotsTrue
<1> QED BY <1>1, <1>2, <1>3 DEF TypeInv

-----------------------------------------------------------------------------
\* Every step keeps the types.
LEMMA StepType ==
    ASSUME TypeInv, [Next]_vars
    PROVE  TypeInv'
<1> USE DEF TypeInv, Steady, ControlLabels, Swapping
<1> USE DEF TypeOK, Slots, Unread, Paths, PendingPath, Other
<1> USE DEF vars, requestVars, controlVars, slotVars, audioVars
<1>1. CASE UNCHANGED vars
  BY <1>1
<1>2. CASE OscThread
  <2>1. CASE Select
    BY <2>1 DEF Select
  <2>2. CASE Assigned
    BY <2>2 DEF Assigned
  <2>3. CASE Raise
    BY <2>3 DEF Raise
  <2> QED BY <1>2, <2>1, <2>2, <2>3 DEF OscThread
<1>3. CASE ControlLoop
  <2>0. 0 \in 0 .. Max({Patience, 1})
    BY TickBound
  <2>1. CASE TakeFlag
    BY <2>1 DEF TakeFlag
  <2>2. CASE CopyPath
    BY <2>2 DEF CopyPath
  <2>3. CASE StartWait
    BY <2>0, <2>3 DEF StartWait
  <2>4. CASE SeeTick
    BY <2>4 DEF SeeTick
  <2>5. CASE CheckTable
    BY <2>5 DEF CheckTable
  <2>6. CASE CheckVs
    BY <2>0, <2>6 DEF CheckVs, EndWait
  <2>7. CASE GiveUp
    BY <2>0, <2>7 DEF GiveUp, EndWait
  <2>8. CASE LoadRefused
    BY <2>8 DEF LoadRefused, Return
  <2>9. CASE LoadBegin
    BY <2>9 DEF LoadBegin
  <2>10. CASE LoadTruncated
    BY <2>10 DEF LoadTruncated, Return
  <2>11. CASE LoadDone
    BY <2>11 DEF LoadDone
  <2>12. CASE Publish
    BY <2>12 DEF Publish
  <2>13. CASE FillBegin
    BY <2>13 DEF FillBegin
  <2>14. CASE FillEnd
    BY <2>14 DEF FillEnd
  <2>15. CASE PublishVs
    BY <2>15 DEF PublishVs, Return
  <2> QED BY <1>3, <2>1, <2>2, <2>3, <2>4, <2>5, <2>6, <2>7, <2>8, <2>9, <2>10,
             <2>11, <2>12, <2>13, <2>14, <2>15 DEF ControlLoop
<1>4. CASE Block
  <2>1. CASE BeginBlock
    BY <2>1, ReadsType DEF BeginBlock
  <2>2. CASE LoadSlot
    BY <2>2 DEF LoadSlot
  <2>3. CASE ReadSlot
    BY <2>3 DEF ReadSlot
  <2>4. CASE ReportTable
    BY <2>4 DEF ReportTable
  <2>5. CASE ReportVs
    BY <2>5 DEF ReportVs
  <2>6. CASE BumpTick
    BY <2>6, TickBound DEF BumpTick
  <2> QED BY <1>4, <2>1, <2>2, <2>3, <2>4, <2>5, <2>6 DEF Block
<1>5. CASE Device
  <2>1. CASE Stop
    BY <2>1 DEF Stop
  <2>2. CASE Restart
    BY <2>2 DEF Restart
  <2> QED BY <1>5, <2>1, <2>2 DEF Device
<1> QED BY <1>1, <1>2, <1>3, <1>4, <1>5 DEF Next

\* Every step keeps the slots in use apart from the slots that are written.
LEMMA StepSlots ==
    ASSUME TypeInv, ReadsActive, SlotsTrue, Patience >= 1, [Next]_vars
    PROVE  ReadsActive' /\ SlotsTrue'
<1>1. /\ activeTable \in Slots /\ activeVs \in Slots
      /\ table \in [Slots -> Paths \cup {Partial}]
      /\ vs \in [Slots -> Paths \cup {Partial}]
      /\ Steady
  BY DEF TypeInv, TypeOK
<1> USE DEF ReadsActive, SlotsTrue, TableFree, VsFree, Slots, Swapping, Other
<1> USE DEF vars, requestVars, controlVars, slotVars, audioVars
<1>2. CASE UNCHANGED vars
  BY <1>2
<1>3. CASE OscThread
  BY <1>3 DEF OscThread, Select, Assigned, Raise
<1>4. CASE ControlLoop
  <2>1. CASE TakeFlag \/ CopyPath \/ StartWait \/ SeeTick \/ CheckTable
    BY <2>1 DEF TakeFlag, CopyPath, StartWait, SeeTick, CheckTable
  <2>2. CASE CheckVs
    BY <2>2 DEF CheckVs, EndWait
  <2>3. CASE GiveUp
    <3>1. ticks > 0 \/ apc = "idle"
      BY <2>3, SofaAssumption, TickBound DEF GiveUp, TypeInv, TypeOK
    <3> QED BY <2>3, <3>1 DEF GiveUp, EndWait
  <2>4. CASE LoadRefused
    BY <2>4 DEF LoadRefused, Return
  <2>5. CASE LoadBegin
    BY <1>1, <2>5 DEF LoadBegin
  <2>6. CASE LoadTruncated
    BY <2>6 DEF LoadTruncated, Return
  <2>7. CASE LoadDone
    BY <1>1, <2>7 DEF LoadDone
  <2>8. CASE Publish
    BY <1>1, <2>8 DEF Publish
  <2>9. CASE FillBegin
    BY <1>1, <2>9 DEF FillBegin
  <2>10. CASE FillEnd
    BY <1>1, <2>10 DEF FillEnd
  <2>11. CASE PublishVs
    BY <1>1, <2>11 DEF PublishVs, Return
  <2> QED BY <1>4, <2>1, <2>2, <2>3, <2>4, <2>5, <2>6, <2>7, <2>8, <2>9, <2>10,
             <2>11 DEF ControlLoop
<1>5. CASE Block
  <2>1. CASE BeginBlock \/ LoadSlot \/ ReadSlot \/ ReportTable \/ ReportVs
    BY <2>1 DEF BeginBlock, LoadSlot, ReadSlot, ReportTable, ReportVs
  <2>2. CASE BumpTick
    BY <2>2 DEF BumpTick
  <2> QED BY <1>5, <2>1, <2>2 DEF Block
<1>6. CASE Device
  BY <1>6 DEF Device, Stop, Restart
<1> QED BY <1>2, <1>3, <1>4, <1>5, <1>6 DEF Next

\* The invariant is what the property says.
LEMMA SwapWhole == TypeInv /\ ReadsActive /\ SlotsTrue => LiveSetWhole
<1> SUFFICES ASSUME TypeInv, ReadsActive, SlotsTrue PROVE LiveSetWhole
  OBVIOUS
<1>1. activeTable \in Slots /\ activeVs \in Slots /\ applied \in Paths /\ Steady
  BY DEF TypeInv, TypeOK
<1>2. \A s \in Slots : Other(s) # s
  BY DEF Slots, Other
<1>3. ~Overwriting
  BY <1>1, <1>2 DEF Overwriting, ReadsActive, TableFree, VsFree
<1>4. Partial \notin Paths
  BY SofaAssumption DEF Paths
<1>5. table[activeTable] # Partial
  <2>1. CASE cpc \in Swapping
    <3>1. path \in Paths
      BY <2>1, <1>1 DEF TypeInv, TypeOK, Steady
    <3> QED BY <2>1, <3>1, <1>4 DEF SlotsTrue
  <2> QED BY <1>1, <1>4, <2>1 DEF SlotsTrue
<1>6. vs[activeVs] # Partial
  BY <1>1, <1>4 DEF SlotsTrue
<1>7. cpc \in {"tick", "copy"} => table[activeTable] = applied
  BY DEF SlotsTrue, Swapping
<1> QED BY <1>3, <1>5, <1>6, <1>7 DEF LiveSetWhole, SlotsTrue

-----------------------------------------------------------------------------
\* The slot indices, the contents and the program counters have their types,
\* however few blocks the spin budget lasts.
THEOREM TypeCorrect == Spec => []TypeOK
<1>1. Init => TypeInv
  BY InitSwap
<1>2. TypeInv /\ [Next]_vars => TypeInv'
  BY StepType
<1>3. TypeInv => TypeOK
  BY DEF TypeInv
<1> QED BY <1>1, <1>2, <1>3, PTL DEF Spec

\* When a block ends within the spin budget, no swap, successful, refused,
\* truncated or following another at once, writes a slot that the audio
\* thread reads (waitInactiveSlotQuiescent), the active slots are whole, and
\* at rest both modes play the data set recorded as applied.
THEOREM LiveSetAlwaysWhole ==
    ASSUME Patience >= 1
    PROVE  Spec => []LiveSetWhole
<1> DEFINE SwapInv == TypeInv /\ ReadsActive /\ SlotsTrue
<1>1. Init => SwapInv
  BY InitSwap
<1>2. SwapInv /\ [Next]_vars => SwapInv'
  BY StepType, StepSlots
<1>3. SwapInv => LiveSetWhole
  BY SwapWhole
<1> QED BY <1>1, <1>2, <1>3, PTL DEF Spec

-----------------------------------------------------------------------------
(* The scene library.                                                       *)

NamesIn(s) == {s[i].name : i \in DOMAIN s}
Distinct(s) == \A i, j \in DOMAIN s : s[i].name = s[j].name => i = j

\* What a file may hold.
Contents ==
    {Absent, Torn} \cup {Scene(k) : k \in Nat} \cup {Index(s) : s \in Seq(Entries)}

LibraryTyped ==
    /\ disk \in [Names -> Contents]
    /\ index \in Seq(Entries)
    /\ source \in Names /\ target \in Names
    /\ diverged \in BOOLEAN
    /\ saves \in Nat /\ faults \in Nat /\ crashes \in Nat
    /\ pc \in {"down", "ready", "save", "copy", "index", "indexing"}

\* What a save or a copy relies on between its two steps, whatever failed
\* before: the file it writes is torn, and the file it reads another one.
Writing ==
    /\ pc \in {"save", "copy"} => target \in Scenes /\ disk[target] = Torn
    /\ pc = "copy" => source \in Scenes /\ source # target /\ Exists(source)

\* What memory, index.json and the directory have in common at each point.
IndexFollows ==
    ~diverged =>
       /\ pc # "down" => Distinct(index)
       /\ pc \in {"ready", "index", "indexing"} => Indexed = SceneFiles
       /\ pc \in {"save", "copy"} => Indexed \cup {target} = SceneFiles
       /\ pc = "copy" => target \notin Indexed
       /\ pc \in {"ready", "save", "copy"} => IndexOnDisk
       /\ pc = "down" /\ disk[IndexName].kind = "index" =>
             /\ NamesIn(disk[IndexName].entries) = SceneFiles
             /\ Distinct(disk[IndexName].entries)

LibraryInv == LibraryTyped /\ Writing /\ IndexFollows

-----------------------------------------------------------------------------
(* Lists of entries.                                                        *)

\* The least of a set of natural numbers is a member of it.
LEMMA LeastPosition ==
    ASSUME NEW S \in SUBSET Nat, S # {}
    PROVE  Min(S) \in S
<1> DEFINE R == OpToRel(<, Nat)
<1>1. R = {ss \in Nat \X Nat : ss[1] < ss[2]}
  BY DEF OpToRel
<1>2. IsWellFoundedOn(R, Nat)
  BY NatLessThanWellFounded
<1> HIDE DEF R
<1>3. \E x \in S : \A y \in S : ~(<<y, x>> \in R)
  BY <1>2, WFMin
<1>4. \A x \in Nat : \A y \in Nat : <<y, x>> \notin R => x <= y
  BY <1>1
<1>5. \E x \in S : \A y \in S : x <= y
  BY <1>3, <1>4
<1> QED BY <1>5 DEF Min

\* findEntry answers an entry of the name it was asked for.
LEMMA AtFindsEntry ==
    ASSUME index \in Seq(Entries), NEW n \in Indexed
    PROVE  At(n) \in DOMAIN index /\ index[At(n)].name = n
<1> DEFINE I == {i \in 1 .. Len(index) : index[i].name = n}
<1>1. I \in SUBSET Nat /\ I # {}
  BY DEF Indexed
<1>2. At(n) = Min(I)
  BY <1>1 DEF At, SelectInSeq
<1>3. Min(I) \in I
  BY <1>1, LeastPosition
<1> QED BY <1>2, <1>3

LEMMA EntryType ==
    /\ \A n \in Scenes, note \in Notes \cup {NoNote} :
          Entry(n, note) \in Entries /\ Entry(n, note).name = n
    /\ \A e \in Entries : e.name \in Scenes /\ e.note \in Notes \cup {NoNote}
BY DEF Entry, Entries

LEMMA EntriesAppend ==
    ASSUME NEW s \in Seq(Entries), NEW e \in Entries
    PROVE  LET r == Append(s, e)
           IN  /\ r \in Seq(Entries)
               /\ NamesIn(r) = NamesIn(s) \cup {e.name}
               /\ Distinct(s) /\ e.name \notin NamesIn(s) => Distinct(r)
<1> DEFINE r == Append(s, e)
<1>1. /\ r \in Seq(Entries) /\ Len(r) = Len(s) + 1
      /\ \A i \in 1 .. Len(s) : r[i] = s[i]
      /\ r[Len(s) + 1] = e
  BY AppendProperties
<1>2. Len(s) \in Nat /\ DOMAIN s = 1 .. Len(s) /\ DOMAIN r = 1 .. Len(s) + 1
  BY <1>1
<1> HIDE DEF r
<1>3. NamesIn(r) = NamesIn(s) \cup {e.name}
  BY <1>1, <1>2 DEF NamesIn
<1>4. Distinct(s) /\ e.name \notin NamesIn(s) => Distinct(r)
  BY <1>1, <1>2 DEF NamesIn, Distinct
<1> QED BY <1>1, <1>3, <1>4 DEF r

LEMMA EntriesRenamed ==
    ASSUME NEW s \in Seq(Entries), NEW k \in DOMAIN s, NEW b \in Scenes
    PROVE  LET r == [s EXCEPT ![k].name = b]
           IN  /\ r \in Seq(Entries)
               /\ Distinct(s) => NamesIn(r) = (NamesIn(s) \ {s[k].name}) \cup {b}
               /\ Distinct(s) /\ b \notin NamesIn(s) => Distinct(r)
<1> DEFINE e == [s[k] EXCEPT !.name = b]
           r == [s EXCEPT ![k] = e]
<1>1. s[k] \in Entries
  OBVIOUS
<1>2. e \in Entries /\ e.name = b
  BY <1>1 DEF Entries
<1>3. r = [s EXCEPT ![k].name = b]
  OBVIOUS
<1> HIDE DEF e
<1>4. r \in Seq(Entries) /\ DOMAIN r = DOMAIN s /\ r[k] = e
      /\ \A i \in DOMAIN s : i # k => r[i] = s[i]
  BY <1>2
<1> HIDE DEF r
<1>5. Distinct(s) => NamesIn(r) = (NamesIn(s) \ {s[k].name}) \cup {b}
  BY <1>2, <1>4 DEF NamesIn, Distinct
<1>6. Distinct(s) /\ b \notin NamesIn(s) => Distinct(r)
  BY <1>2, <1>4 DEF NamesIn, Distinct
<1> QED BY <1>3, <1>4, <1>5, <1>6

LEMMA EntriesNoted ==
    ASSUME NEW s \in Seq(Entries), NEW k \in DOMAIN s, NEW note \in Notes
    PROVE  LET r == [s EXCEPT ![k].note = note]
           IN  /\ r \in Seq(Entries)
               /\ NamesIn(r) = NamesIn(s)
               /\ Distinct(s) => Distinct(r)
<1> DEFINE e == [s[k] EXCEPT !.note = note]
           r == [s EXCEPT ![k] = e]
<1>1. s[k] \in Entries
  OBVIOUS
<1>2. e \in Entries /\ e.name = s[k].name
  BY <1>1 DEF Entries
<1>3. r = [s EXCEPT ![k].note = note]
  OBVIOUS
<1> HIDE DEF e
<1>4. r \in Seq(Entries) /\ DOMAIN r = DOMAIN s /\ \A i \in DOMAIN s : r[i].name = s[i].name
  BY <1>2
<1> HIDE DEF r
<1>5. NamesIn(r) = NamesIn(s) /\ (Distinct(s) => Distinct(r))
  BY <1>4 DEF NamesIn, Distinct
<1> QED BY <1>3, <1>4, <1>5

LEMMA EntriesRemoved ==
    ASSUME NEW s \in Seq(Entries), NEW k \in DOMAIN s
    PROVE  LET r == RemoveAt(s, k)
           IN  /\ r \in Seq(Entries)
               /\ Distinct(s) => NamesIn(r) = NamesIn(s) \ {s[k].name}
               /\ Distinct(s) => Distinct(r)
<1> DEFINE front == SubSeq(s, 1, k - 1)
           back == SubSeq(s, k + 1, Len(s))
           r == front \o back
<1>1. Len(s) \in Nat /\ DOMAIN s = 1 .. Len(s) /\ k \in 1 .. Len(s)
      /\ \A i \in 1 .. Len(s) : s[i] \in Entries
  OBVIOUS
<1>2. /\ front \in Seq(Entries) /\ Len(front) = k - 1
      /\ \A i \in 1 .. k - 1 : front[i] = s[i]
  <2>1. \A i \in 1 .. k - 1 : s[i] \in Entries
    BY <1>1
  <2>2. 1 \in Int /\ k - 1 \in Int
    BY <1>1
  <2>3. /\ front \in Seq(Entries)
        /\ Len(front) = IF 1 <= k - 1 THEN (k - 1) - 1 + 1 ELSE 0
        /\ \A i \in 1 .. (k - 1) - 1 + 1 : front[i] = s[1 + i - 1]
    BY <2>1, <2>2, SubSeqProperties
  <2> QED BY <1>1, <2>3
<1>3. /\ back \in Seq(Entries) /\ Len(back) = Len(s) - k
      /\ \A i \in 1 .. Len(s) - k : back[i] = s[k + i]
  <2>1. \A i \in k + 1 .. Len(s) : s[i] \in Entries
    BY <1>1
  <2>2. k + 1 \in Int /\ Len(s) \in Int
    BY <1>1
  <2>3. /\ back \in Seq(Entries)
        /\ Len(back) = IF k + 1 <= Len(s) THEN Len(s) - (k + 1) + 1 ELSE 0
        /\ \A i \in 1 .. Len(s) - (k + 1) + 1 : back[i] = s[(k + 1) + i - 1]
    BY <2>1, <2>2, SubSeqProperties
  <2> HIDE DEF back
  <2>4. Len(s) - (k + 1) + 1 = Len(s) - k /\ (~(k + 1 <= Len(s)) => Len(s) - k = 0)
    BY <1>1
  <2>5. \A i \in 1 .. Len(s) - k : (k + 1) + i - 1 = k + i
    BY <1>1
  <2> QED BY <2>3, <2>4, <2>5
<1> HIDE DEF front, back
<1>4. /\ r \in Seq(Entries) /\ Len(r) = Len(front) + Len(back)
      /\ \A i \in 1 .. Len(front) + Len(back) :
            r[i] = IF i <= Len(front) THEN front[i] ELSE back[i - Len(front)]
  BY <1>2, <1>3, ConcatProperties
<1> HIDE DEF r
<1>5. Len(r) = Len(s) - 1 /\ DOMAIN r = 1 .. Len(s) - 1
  BY <1>1, <1>2, <1>3, <1>4
<1>6. \A i \in 1 .. Len(s) - 1 : r[i] = s[IF i < k THEN i ELSE i + 1]
  <2> TAKE i \in 1 .. Len(s) - 1
  <2>1. CASE i < k
    <3>1. i <= Len(front) /\ i \in 1 .. k - 1 /\ i \in 1 .. Len(front) + Len(back)
      BY <1>1, <1>2, <1>3, <2>1
    <3>2. r[i] = front[i]
      BY <1>4, <3>1
    <3> QED BY <1>2, <2>1, <3>1, <3>2
  <2>2. CASE ~(i < k)
    <3>1. ~(i <= Len(front)) /\ i - (k - 1) \in 1 .. Len(s) - k /\ k + (i - (k - 1)) = i + 1
      BY <1>1, <1>2, <2>2
    <3>a. i \in 1 .. Len(front) + Len(back) /\ i - Len(front) = i - (k - 1)
      BY <1>1, <1>2, <1>3
    <3>2. r[i] = back[i - (k - 1)]
      <4>1. r[i] = back[i - Len(front)]
        BY <1>4, <3>1, <3>a
      <4> QED BY <3>a, <4>1
    <3>3. back[i - (k - 1)] = s[i + 1]
      BY <1>3, <3>1
    <3> QED BY <2>2, <3>2, <3>3
  <2> QED BY <2>1, <2>2
<1>7. \A j \in 1 .. Len(s) : j # k =>
         \E i \in 1 .. Len(s) - 1 : r[i] = s[j]
  <2> SUFFICES ASSUME NEW j \in 1 .. Len(s), j # k
               PROVE  \E i \in 1 .. Len(s) - 1 : r[i] = s[j]
    OBVIOUS
  <2>1. CASE j < k
    <3>1. j \in 1 .. Len(s) - 1
      BY <1>1, <2>1
    <3> QED BY <1>6, <2>1, <3>1
  <2>2. CASE j > k
    <3>1. j - 1 \in 1 .. Len(s) - 1 /\ ~(j - 1 < k) /\ (j - 1) + 1 = j
      BY <1>1, <2>2
    <3> QED BY <1>6, <3>1
  <2> QED BY <1>1, <2>1, <2>2
<1>8. \A i \in 1 .. Len(s) - 1 : LET j == IF i < k THEN i ELSE i + 1
                                 IN  j \in 1 .. Len(s) /\ j # k /\ r[i] = s[j]
  BY <1>1, <1>6
<1>9. ASSUME Distinct(s)
      PROVE  NamesIn(r) = NamesIn(s) \ {s[k].name}
  <2>1. \A j \in 1 .. Len(s) : s[j].name = s[k].name => j = k
    BY <1>1, <1>9 DEF Distinct
  <2>2. \A x \in NamesIn(r) : x \in NamesIn(s) /\ x # s[k].name
    BY <1>1, <1>5, <1>8, <2>1 DEF NamesIn
  <2>3. \A x \in NamesIn(s) : x # s[k].name => x \in NamesIn(r)
    BY <1>1, <1>5, <1>7 DEF NamesIn
  <2> QED BY <2>2, <2>3
<1>10. ASSUME Distinct(s)
       PROVE  Distinct(r)
  <2> SUFFICES ASSUME NEW i \in 1 .. Len(s) - 1, NEW j \in 1 .. Len(s) - 1, r[i].name = r[j].name
               PROVE  i = j
    BY <1>5 DEF Distinct
  <2> DEFINE a == IF i < k THEN i ELSE i + 1
             b == IF j < k THEN j ELSE j + 1
  <2>1. a \in 1 .. Len(s) /\ b \in 1 .. Len(s) /\ r[i] = s[a] /\ r[j] = s[b]
    BY <1>8
  <2>2. a = b
    BY <1>1, <1>10, <2>1 DEF Distinct
  <2> QED BY <1>1, <2>2
<1> QED BY <1>4, <1>9, <1>10 DEF r, front, back, RemoveAt

\* Reading an index back keeps its names, and reading it twice is reading it once.
LEMMA EntriesReadBack ==
    ASSUME NEW s \in Seq(Entries)
    PROVE  /\ ReadBack(s) \in Seq(Entries)
           /\ NamesIn(ReadBack(s)) = NamesIn(s)
           /\ Distinct(s) => Distinct(ReadBack(s))
           /\ Distinct(ReadBack(s)) => Distinct(s)
           /\ ReadBack(ReadBack(s)) = ReadBack(s)
<1> DEFINE r == ReadBack(s)
<1>1. Len(s) \in Nat /\ DOMAIN s = 1 .. Len(s) /\ \A i \in DOMAIN s : s[i] \in Entries
  OBVIOUS
<1>2. DOMAIN r = DOMAIN s /\ \A i \in DOMAIN s :
         r[i] = IF s[i].note \in Braced THEN [s[i] EXCEPT !.note = NoNote] ELSE s[i]
  BY DEF ReadBack
<1>3. \A i \in DOMAIN s : r[i] \in Entries /\ r[i].name = s[i].name /\ r[i].note \notin Braced
  <2> TAKE i \in DOMAIN s
  <2>1. CASE s[i].note \in Braced
    <3>1. r[i] = [s[i] EXCEPT !.note = NoNote]
      BY <1>2, <2>1
    <3> HIDE DEF r
    <3>2. NoNote \notin Braced
      BY LibraryAssumption
    <3> QED BY <1>1, <3>1, <3>2 DEF Entries
  <2>2. CASE s[i].note \notin Braced
    <3>1. r[i] = s[i]
      BY <1>2, <2>2
    <3> HIDE DEF r
    <3> QED BY <1>1, <2>2, <3>1
  <2> QED BY <2>1, <2>2
<1>4. r \in Seq(Entries)
  <2>1. r = [i \in 1 .. Len(s) |-> r[i]]
    BY <1>1 DEF ReadBack
  <2> HIDE DEF r
  <2>2. r \in [1 .. Len(s) -> Entries]
    BY <1>1, <1>3, <2>1
  <2> QED BY <1>1, <2>2
<1>5. ReadBack(r) = r
  <2>1. ReadBack(r) = [i \in DOMAIN r |-> r[i]]
    <3> HIDE DEF r
    <3> QED BY <1>2, <1>3 DEF ReadBack
  <2> QED BY <2>1, <1>2, <1>4
<1> HIDE DEF r
<1>6. NamesIn(r) = NamesIn(s) /\ (Distinct(s) <=> Distinct(r))
  BY <1>2, <1>3 DEF NamesIn, Distinct
<1> QED BY <1>4, <1>5, <1>6 DEF r

\* A scan of the directory makes one entry for each file.
LEMMA EntriesListed ==
    ASSUME NEW S \in SUBSET Scenes, NEW files \in SetToSeqs(S)
    PROVE  LET r == [i \in DOMAIN files |-> Entry(files[i], NoNote)]
           IN  r \in Seq(Entries) /\ NamesIn(r) = S /\ Distinct(r)
<1> DEFINE N == Cardinality(S)
           r == [i \in DOMAIN files |-> Entry(files[i], NoNote)]
<1>1. IsFiniteSet(S) /\ N \in Nat
  BY LibraryAssumption, FS_Subset, FS_CardinalityType
<1>2. files \in [1 .. N -> S] /\ \A i, j \in 1 .. N : i # j => files[i] # files[j]
  BY DEF SetToSeqs
<1>3. Cardinality(1 .. N) = N
  <2>1. Cardinality(1 .. N) = IF 1 > N THEN 0 ELSE N - 1 + 1
    BY <1>1, FS_Interval
  <2> QED BY <1>1, <2>1
<1>4. files \in Injection(1 .. N, S)
  BY <1>2 DEF Injection, IsInjective
<1>5. files \in Surjection(1 .. N, S)
  BY <1>1, <1>3, <1>4, FS_Injection
<1>6. \A x \in S : \E i \in 1 .. N : files[i] = x
  BY <1>5 DEF Surjection
<1> HIDE DEF N
<1>7. DOMAIN r = 1 .. N /\ \A i \in 1 .. N : r[i] \in Entries /\ r[i].name = files[i]
  BY <1>2, EntryType
<1>8. r \in Seq(Entries)
  <2>1. r \in [1 .. N -> Entries]
    BY <1>2, <1>7
  <2> HIDE DEF r
  <2> QED BY <1>1, <2>1
<1> HIDE DEF r
<1>9. NamesIn(r) = S /\ Distinct(r)
  BY <1>2, <1>6, <1>7 DEF NamesIn, Distinct
<1> QED BY <1>8, <1>9 DEF r

-----------------------------------------------------------------------------
(* Files.                                                                   *)

LEMMA ContentsKinds ==
    /\ Absent \in Contents /\ Torn \in Contents
    /\ \A k \in Nat : Scene(k) \in Contents /\ Scene(k).kind = "scene"
    /\ \A s \in Seq(Entries) : /\ Index(s) \in Contents
                             /\ Index(s).kind = "index" /\ Index(s).entries = s
    /\ Absent.kind = "absent" /\ Torn.kind = "torn"
    /\ \A c \in Contents : c.kind = "index" => c.entries \in Seq(Entries)
<1>1. /\ Absent \in Contents /\ Torn \in Contents
      /\ \A k \in Nat : Scene(k) \in Contents
      /\ \A s \in Seq(Entries) : Index(s) \in Contents
  BY DEF Contents
<1>2. /\ \A k : Scene(k).kind = "scene"
      /\ \A s : Index(s).kind = "index" /\ Index(s).entries = s
      /\ Absent.kind = "absent" /\ Torn.kind = "torn"
  BY DEF Absent, Torn, Scene, Index
<1>3. \A c \in Contents : c.kind = "index" => c.entries \in Seq(Entries)
  BY <1>2 DEF Contents
<1> QED BY <1>1, <1>2, <1>3

\* What a write to one file does to the set of scene files.
LEMMA FileWritten ==
    ASSUME disk \in [Names -> Contents], NEW n \in Names, NEW c \in Contents,
           disk' = [disk EXCEPT ![n] = c]
    PROVE  /\ disk' \in [Names -> Contents]
           /\ disk'[n] = c /\ \A m \in Names : m # n => disk'[m] = disk[m]
           /\ n = IndexName => SceneFiles' = SceneFiles
           /\ n # IndexName /\ c # Absent => SceneFiles' = SceneFiles \cup {n}
           /\ n # IndexName /\ c = Absent => SceneFiles' = SceneFiles \ {n}
BY DEF SceneFiles, Exists, Names

LEMMA IndexedIs ==
    /\ Indexed = NamesIn(index)
    /\ IndexMatchesFiles <=> Indexed = SceneFiles /\ Distinct(index)
<1>1. Indexed = NamesIn(index)
  BY DEF Indexed, NamesIn
<1>2. IsInjective([i \in DOMAIN index |-> index[i].name]) <=> Distinct(index)
  BY DEF IsInjective, Distinct
<1> QED BY <1>1, <1>2 DEF IndexMatchesFiles

LEMMA LibraryStarts == LibraryInit => LibraryInv
<1> SUFFICES ASSUME LibraryInit
             PROVE  LibraryInv
  OBVIOUS
<1>1. Scene(0) \in Contents /\ Scene(0).kind = "scene" /\ Absent \in Contents /\ Torn \in Contents
      /\ Absent.kind = "absent" /\ Torn.kind = "torn"
  BY ContentsKinds
<1>2. IndexName \in Names /\ <<>> \in Seq(Entries)
  BY DEF Names
<1>3. LibraryTyped
  BY <1>1, <1>2 DEF LibraryInit, LibraryTyped
<1>4. disk[IndexName].kind # "index" /\ pc = "down"
  <2>1. disk[IndexName] \in {Absent, Torn}
    BY <1>2 DEF LibraryInit
  <2> QED BY <1>1, <2>1 DEF LibraryInit
<1> QED BY <1>3, <1>4 DEF LibraryInv, Writing, IndexFollows

LEMMA SaveOpenKeeps ==
    ASSUME LibraryInv, NEW n \in Scenes, SaveOpen(n)
    PROVE  LibraryInv'
<1> USE DEF LibraryInv
<1>1. n \in Names /\ n # IndexName /\ IndexName \in Names
  BY LibraryAssumption DEF Names
<1>2. Torn \in Contents /\ Torn # Absent /\ disk' = [disk EXCEPT ![n] = Torn]
  BY ContentsKinds DEF SaveOpen
<1>3. /\ disk' \in [Names -> Contents] /\ disk'[n] = Torn /\ SceneFiles' = SceneFiles \cup {n}
      /\ disk'[IndexName] = disk[IndexName]
  BY <1>1, <1>2, FileWritten DEF LibraryTyped
<1>4. LibraryTyped'
  BY <1>1, <1>3 DEF LibraryTyped, SaveOpen
<1>5. Writing'
  BY <1>3 DEF Writing, SaveOpen
<1>6. IndexFollows'
  BY <1>3 DEF IndexFollows, SaveOpen, Indexed, IndexOnDisk, ReadBack, Distinct
<1> QED BY <1>4, <1>5, <1>6

LEMMA SaveRecordedKeeps ==
    ASSUME LibraryInv, pc = "save", SaveRecorded
    PROVE  /\ index' \in Seq(Entries) /\ pc' \in {"ready", "index"}
           /\ ~diverged => Distinct(index)' /\ Indexed' = SceneFiles
           /\ pc' = "ready" => UNCHANGED index
<1> USE DEF LibraryInv
<1>1. target \in Scenes
  BY DEF Writing
<1>2. Entry(target, NoNote) \in Entries /\ Entry(target, NoNote).name = target
  BY <1>1, EntryType
<1>3. Indexed = NamesIn(index) /\ Indexed' = NamesIn(index')
  BY DEF Indexed, NamesIn
<1>4. index \in Seq(Entries) /\ (~diverged => Indexed \cup {target} = SceneFiles /\ Distinct(index))
  BY DEF IndexFollows, LibraryTyped
<1>5. CASE target \in Indexed
  <2>1. pc' = "ready" /\ index' = index
    BY <1>5 DEF SaveRecorded
  <2>2. Distinct(index)' <=> Distinct(index)
    BY <2>1 DEF Distinct
  <2> QED BY <1>3, <1>4, <1>5, <2>1, <2>2
<1>6. CASE target \notin Indexed
  <2> DEFINE e == Entry(target, NoNote)
  <2>1. pc' = "index" /\ index' = Append(index, e)
    BY <1>6 DEF SaveRecorded
  <2> HIDE DEF e
  <2>2. index' \in Seq(Entries) /\ NamesIn(index') = NamesIn(index) \cup {target}
        /\ (Distinct(index) => Distinct(index'))
    BY <1>2, <1>3, <1>4, <1>6, <2>1, EntriesAppend DEF e
  <2>3. Distinct(index)' <=> Distinct(index')
    BY DEF Distinct
  <2> QED BY <1>3, <1>4, <2>1, <2>2, <2>3
<1> QED BY <1>5, <1>6
LEMMA SaveWriteKeeps ==
    ASSUME LibraryInv, SaveWrite
    PROVE  LibraryInv'
<1> USE DEF LibraryInv
<1>1. target \in Scenes /\ target \in Names /\ target # IndexName /\ IndexName \in Names
  BY LibraryAssumption DEF Names, Writing, SaveWrite
<1>2. Scene(saves) \in Contents /\ Scene(saves) # Absent
      /\ disk' = [disk EXCEPT ![target] = Scene(saves)]
  BY ContentsKinds DEF SaveWrite, LibraryTyped
<1>3. /\ disk' \in [Names -> Contents] /\ SceneFiles' = SceneFiles \cup {target}
      /\ disk'[IndexName] = disk[IndexName]
  BY <1>1, <1>2, FileWritten DEF LibraryTyped
<1>4. /\ index' \in Seq(Entries) /\ pc' \in {"ready", "index"}
      /\ ~diverged => Distinct(index)' /\ Indexed' = SceneFiles
      /\ pc' = "ready" => UNCHANGED index
  BY SaveRecordedKeeps DEF SaveWrite
<1>5. LibraryTyped'
  BY <1>3, <1>4 DEF LibraryTyped, SaveWrite
<1>6. Writing'
  BY <1>4 DEF Writing
<1>7. IndexFollows'
  BY <1>3, <1>4 DEF IndexFollows, SaveWrite, IndexOnDisk, ReadBack
<1> QED BY <1>5, <1>6, <1>7

LEMMA FaultsKeep ==
    ASSUME LibraryInv, SaveFails \/ DuplicateFails \/ IndexFails
    PROVE  LibraryInv'
<1> USE DEF LibraryInv
<1>1. diverged' = TRUE /\ faults' \in Nat /\ UNCHANGED <<disk, source, target, saves, crashes>>
  BY DEF SaveFails, DuplicateFails, IndexFails, Fault, LibraryTyped
<1>2. index' \in Seq(Entries) /\ pc' \in {"ready", "index"}
  <2>1. CASE SaveFails /\ SaveRecorded
    BY <2>1, SaveRecordedKeeps DEF SaveFails
  <2>2. CASE pc' = "ready" /\ UNCHANGED index
    BY <2>2 DEF LibraryTyped
  <2> QED BY <2>1, <2>2 DEF SaveFails, DuplicateFails, IndexFails
<1>3. LibraryTyped'
  BY <1>1, <1>2 DEF LibraryTyped
<1>4. Writing'
  BY <1>2 DEF Writing
<1> QED BY <1>1, <1>3, <1>4 DEF IndexFollows

\* The file of the first name, absent from now on, is the second's.
LEMMA RenameKeeps ==
    ASSUME LibraryInv, NEW a \in Scenes, NEW b \in Scenes, Rename(a, b)
    PROVE  LibraryInv'
<1> USE DEF LibraryInv
<1>1. /\ a # b /\ disk[a] # Absent /\ disk[b] = Absent
      /\ disk' = [disk EXCEPT ![b] = disk[a], ![a] = Absent]
      /\ a \in Names /\ b \in Names /\ a # IndexName /\ b # IndexName /\ IndexName \in Names
  BY LibraryAssumption DEF Names, Rename, Move, Exists
<1>2. /\ disk' \in [Names -> Contents]
      /\ disk'[b] = disk[a] /\ disk'[a] = Absent
      /\ \A m \in Names : m \notin {a, b} => disk'[m] = disk[m]
  BY <1>1, ContentsKinds DEF LibraryTyped
<1>3. SceneFiles' = (SceneFiles \ {a}) \cup {b} /\ a \in SceneFiles /\ b \notin SceneFiles
  BY <1>1, <1>2 DEF SceneFiles, Exists
<1>4. pc = "ready" /\ pc' = "index"
      /\ UNCHANGED <<source, target, diverged, saves, faults, crashes>>
  BY DEF Rename, Move
<1>5. index \in Seq(Entries) /\ Indexed = NamesIn(index) /\ Indexed' = NamesIn(index')
      /\ (Distinct(index)' <=> Distinct(index'))
  BY DEF LibraryTyped, Indexed, NamesIn, Distinct
<1>6. index' \in Seq(Entries)
      /\ (~diverged => NamesIn(index') = (NamesIn(index) \ {a}) \cup {b} /\ Distinct(index'))
  <2>1. CASE a \in Indexed
    <3>1. At(a) \in DOMAIN index /\ index[At(a)].name = a
      BY <1>5, <2>1, AtFindsEntry
    <3>2. index' = [index EXCEPT ![At(a)].name = b]
      BY <2>1 DEF Rename, Move
    <3>3. ~diverged => Distinct(index) /\ NamesIn(index) = SceneFiles
      BY <1>4, <1>5 DEF IndexFollows
    <3> DEFINE k == At(a)
    <3> HIDE DEF k
    <3>4. LET r == [index EXCEPT ![k].name = b]
          IN  /\ r \in Seq(Entries)
              /\ Distinct(index) => NamesIn(r) = (NamesIn(index) \ {index[k].name}) \cup {b}
              /\ Distinct(index) /\ b \notin NamesIn(index) => Distinct(r)
      BY <1>5, <3>1, EntriesRenamed DEF k
    <3> QED BY <1>3, <3>1, <3>2, <3>3, <3>4 DEF k
  <2>2. CASE a \notin Indexed
    <3>1. index' = Append(index, Entry(b, NoNote)) /\ Entry(b, NoNote) \in Entries
      BY <2>2, EntryType DEF Rename, Move
    <3>2. diverged
      BY <1>3, <1>4, <2>2 DEF IndexFollows, LibraryTyped
    <3> QED BY <1>5, <3>1, <3>2, EntriesAppend
  <2> QED BY <2>1, <2>2
<1>7. LibraryTyped'
  BY <1>2, <1>4, <1>6 DEF LibraryTyped
<1>8. Writing'
  BY <1>4 DEF Writing
<1>9. IndexFollows'
  BY <1>3, <1>4, <1>5, <1>6 DEF IndexFollows
<1> QED BY <1>7, <1>8, <1>9

LEMMA DuplicateOpenKeeps ==
    ASSUME LibraryInv, NEW a \in Scenes, NEW b \in Scenes, DuplicateOpen(a, b)
    PROVE  LibraryInv'
<1> USE DEF LibraryInv
<1>1. b \in Names /\ b # IndexName /\ a \in Names /\ IndexName \in Names
  BY LibraryAssumption DEF Names
<1>2. /\ Torn \in Contents /\ Torn # Absent /\ disk' = [disk EXCEPT ![b] = Torn]
      /\ disk[a] # Absent /\ disk[b] = Absent /\ a # b
  BY ContentsKinds DEF DuplicateOpen, Exists
<1>3. /\ disk' \in [Names -> Contents] /\ disk'[b] = Torn /\ SceneFiles' = SceneFiles \cup {b}
      /\ disk'[IndexName] = disk[IndexName] /\ disk'[a] = disk[a]
  BY <1>1, <1>2, FileWritten DEF LibraryTyped
<1>4. b \notin SceneFiles
  BY <1>2 DEF SceneFiles, Exists
<1>5. LibraryTyped'
  BY <1>1, <1>3 DEF LibraryTyped, DuplicateOpen
<1>6. Writing'
  BY <1>2, <1>3 DEF Writing, DuplicateOpen, Exists
<1>7. IndexFollows'
  BY <1>3, <1>4 DEF IndexFollows, DuplicateOpen, Indexed, IndexOnDisk, ReadBack, Distinct
<1> QED BY <1>5, <1>6, <1>7

LEMMA DuplicateWriteKeeps ==
    ASSUME LibraryInv, DuplicateWrite
    PROVE  LibraryInv'
<1> USE DEF LibraryInv
<1>1. /\ target \in Scenes /\ target \in Names /\ target # IndexName
      /\ source \in Scenes /\ source \in Names /\ disk[source] # Absent
  BY LibraryAssumption DEF Names, Writing, DuplicateWrite, Exists
<1>2. disk[source] \in Contents /\ disk' = [disk EXCEPT ![target] = disk[source]]
  BY <1>1 DEF DuplicateWrite, LibraryTyped
<1>3. disk' \in [Names -> Contents] /\ SceneFiles' = SceneFiles \cup {target}
  BY <1>1, <1>2, FileWritten DEF LibraryTyped
<1>4. index \in Seq(Entries) /\ Indexed = NamesIn(index) /\ Indexed' = NamesIn(index')
      /\ (Distinct(index)' <=> Distinct(index'))
  BY DEF LibraryTyped, Indexed, NamesIn, Distinct
<1>5. NoteOf(source) \in Notes \cup {NoNote}
  <2>1. CASE source \in Indexed
    <3>1. At(source) \in DOMAIN index
      BY <1>4, <2>1, AtFindsEntry
    <3>2. index[At(source)] \in Entries
      BY <1>4, <3>1
    <3> QED BY <2>1, <3>2, EntryType DEF NoteOf
  <2>2. CASE source \notin Indexed
    BY <2>2 DEF NoteOf
  <2> QED BY <2>1, <2>2
<1>6. index' \in Seq(Entries) /\ NamesIn(index') = NamesIn(index) \cup {target}
      /\ (Distinct(index) /\ target \notin NamesIn(index) => Distinct(index'))
  <2> DEFINE e == Entry(target, NoteOf(source))
  <2>1. e \in Entries /\ e.name = target
    BY <1>1, <1>5, EntryType
  <2>2. index' = Append(index, e)
    BY DEF DuplicateWrite
  <2> HIDE DEF e
  <2> QED BY <1>4, <2>1, <2>2, EntriesAppend
<1>7. LibraryTyped'
  BY <1>3, <1>6 DEF LibraryTyped, DuplicateWrite
<1>8. pc = "copy" /\ pc' = "index" /\ diverged' = diverged
  BY DEF DuplicateWrite
<1>9. IndexFollows'
  BY <1>3, <1>4, <1>6, <1>8 DEF IndexFollows
<1> QED BY <1>7, <1>8, <1>9 DEF Writing

LEMMA DeleteKeeps ==
    ASSUME LibraryInv, NEW n \in Scenes, Delete(n)
    PROVE  LibraryInv'
<1> USE DEF LibraryInv
<1>1. n \in Names /\ n # IndexName
  BY LibraryAssumption DEF Names
<1>2. /\ pc = "ready" /\ pc' = "index" /\ UNCHANGED <<source, target, saves, crashes>>
      /\ DropEntry(n)
  BY DEF Delete
<1>3. index \in Seq(Entries) /\ Indexed = NamesIn(index) /\ Indexed' = NamesIn(index')
      /\ (Distinct(index)' <=> Distinct(index'))
  BY DEF LibraryTyped, Indexed, NamesIn, Distinct
<1>4. index' \in Seq(Entries)
      /\ (Distinct(index) => NamesIn(index') = NamesIn(index) \ {n} /\ Distinct(index'))
  <2>1. CASE n \in Indexed
    <3> DEFINE k == At(n)
    <3>1. k \in DOMAIN index /\ index[k].name = n
      BY <1>3, <2>1, AtFindsEntry
    <3>2. index' = RemoveAt(index, k)
      BY <1>2, <2>1 DEF DropEntry
    <3> HIDE DEF k
    <3> QED BY <1>3, <3>1, <3>2, EntriesRemoved
  <2>2. CASE n \notin Indexed
    BY <1>2, <1>3, <2>2 DEF DropEntry
  <2> QED BY <2>1, <2>2
<1>5. CASE disk' = [disk EXCEPT ![n] = Absent] /\ UNCHANGED <<diverged, faults>>
  <2>1. disk' \in [Names -> Contents] /\ SceneFiles' = SceneFiles \ {n}
    BY <1>1, <1>5, ContentsKinds, FileWritten DEF LibraryTyped
  <2>2. LibraryTyped'
    BY <1>2, <1>4, <1>5, <2>1 DEF LibraryTyped
  <2>3. IndexFollows'
    BY <1>2, <1>3, <1>4, <1>5, <2>1 DEF IndexFollows
  <2> QED BY <1>2, <2>2, <2>3 DEF Writing
<1>6. CASE Fault /\ UNCHANGED disk
  <2>1. LibraryTyped'
    BY <1>2, <1>4, <1>6 DEF LibraryTyped, Fault
  <2> QED BY <1>2, <1>6, <2>1 DEF Writing, IndexFollows, Fault
<1> QED BY <1>5, <1>6 DEF Delete

LEMMA SetMetaKeeps ==
    ASSUME LibraryInv, NEW n \in Scenes, NEW note \in Notes, SetMeta(n, note)
    PROVE  LibraryInv'
<1> USE DEF LibraryInv
<1>1. /\ pc = "ready" /\ pc' = "index"
      /\ n \in Indexed \/ Exists(n)
      /\ UNCHANGED <<disk, source, target, diverged, saves, faults, crashes>>
  BY DEF SetMeta
<1>2. index \in Seq(Entries) /\ Indexed = NamesIn(index) /\ Indexed' = NamesIn(index')
      /\ (Distinct(index)' <=> Distinct(index')) /\ SceneFiles' = SceneFiles
  BY <1>1 DEF LibraryTyped, Indexed, NamesIn, Distinct, SceneFiles, Exists
<1>3. index' \in Seq(Entries)
      /\ (~diverged => NamesIn(index') = NamesIn(index) /\ Distinct(index'))
  <2>1. ~diverged => Distinct(index) /\ Indexed = SceneFiles
    BY <1>1 DEF IndexFollows
  <2>2. CASE n \in Indexed
    <3> DEFINE k == At(n)
    <3>1. k \in DOMAIN index
      BY <1>2, <2>2, AtFindsEntry
    <3>2. index' = [index EXCEPT ![k].note = note]
      BY <2>2 DEF SetMeta
    <3> HIDE DEF k
    <3> QED BY <1>2, <2>1, <3>1, <3>2, EntriesNoted
  <2>3. CASE n \notin Indexed
    <3>1. n \in SceneFiles
      BY <1>1, <2>3, LibraryAssumption DEF SceneFiles, Names
    <3>2. diverged
      BY <2>1, <2>3, <3>1 DEF LibraryTyped
    <3>3. index' = Append(index, Entry(n, note)) /\ Entry(n, note) \in Entries
      BY <2>3, EntryType DEF SetMeta
    <3> QED BY <1>2, <3>2, <3>3, EntriesAppend
  <2> QED BY <2>2, <2>3
<1>4. LibraryTyped'
  BY <1>1, <1>3 DEF LibraryTyped
<1>5. IndexFollows'
  BY <1>1, <1>2, <1>3 DEF IndexFollows
<1> QED BY <1>1, <1>4, <1>5 DEF Writing

LEMMA IndexOpenKeeps ==
    ASSUME LibraryInv, IndexOpen
    PROVE  LibraryInv'
<1> USE DEF LibraryInv
<1>1. /\ pc = "index" /\ pc' = "indexing" /\ disk' = [disk EXCEPT ![IndexName] = Torn]
      /\ UNCHANGED <<index, source, target, diverged, saves, faults, crashes>>
  BY DEF IndexOpen
<1>2. disk' \in [Names -> Contents] /\ SceneFiles' = SceneFiles
  BY <1>1, ContentsKinds, FileWritten DEF LibraryTyped, Names
<1>3. LibraryTyped' /\ Writing'
  BY <1>1, <1>2 DEF LibraryTyped, Writing
<1>4. IndexFollows'
  BY <1>1, <1>2 DEF IndexFollows, Indexed, Distinct
<1> QED BY <1>3, <1>4

LEMMA IndexWriteKeeps ==
    ASSUME LibraryInv, IndexWrite
    PROVE  LibraryInv'
<1> USE DEF LibraryInv
<1>1. /\ pc = "indexing" /\ pc' = "ready" /\ disk' = [disk EXCEPT ![IndexName] = Index(index)]
      /\ UNCHANGED <<index, source, target, diverged, saves, faults, crashes>>
  BY DEF IndexWrite
<1>2. /\ Index(index) \in Contents
      /\ Index(index).kind = "index" /\ Index(index).entries = index
  BY ContentsKinds DEF LibraryTyped
<1>3. disk' \in [Names -> Contents] /\ SceneFiles' = SceneFiles /\ disk'[IndexName] = Index(index)
  BY <1>1, <1>2, FileWritten DEF LibraryTyped, Names
<1>4. IndexOnDisk'
  BY <1>1, <1>2, <1>3 DEF IndexOnDisk, ReadBack
<1>5. LibraryTyped' /\ Writing'
  BY <1>1, <1>3 DEF LibraryTyped, Writing
<1>6. IndexFollows'
  BY <1>1, <1>3, <1>4 DEF IndexFollows, Indexed, Distinct
<1> QED BY <1>5, <1>6

\* The directory alone carries the agreement across a restart.
LEMMA CrashKeeps ==
    ASSUME LibraryInv, Crash
    PROVE  LibraryInv'
<1> USE DEF LibraryInv
<1>1. /\ pc' = "down" /\ index' = <<>> /\ crashes' \in Nat
      /\ UNCHANGED <<disk, source, target, saves, faults>>
      /\ diverged' = (diverged \/ pc # "ready")
  BY DEF Crash, LibraryTyped
<1>2. LibraryTyped'
  BY <1>1 DEF LibraryTyped
<1>3. SceneFiles' = SceneFiles
  BY <1>1 DEF SceneFiles, Exists
<1>4. ~diverged' => /\ pc = "ready" /\ ~diverged /\ IndexOnDisk
                    /\ NamesIn(index) = SceneFiles /\ Distinct(index)
  BY <1>1, IndexedIs DEF IndexFollows, LibraryTyped
<1>5. ASSUME ~diverged'
      PROVE  /\ NamesIn(disk[IndexName].entries) = SceneFiles
             /\ Distinct(disk[IndexName].entries)
  <2> DEFINE s == disk[IndexName].entries
  <2>1. s \in Seq(Entries) /\ index \in Seq(Entries)
    BY <1>4, <1>5, ContentsKinds DEF LibraryTyped, Names, IndexOnDisk
  <2>2. ReadBack(s) = ReadBack(index)
    BY <1>4, <1>5 DEF IndexOnDisk
  <2> HIDE DEF s
  <2>3. NamesIn(s) = NamesIn(ReadBack(s)) /\ (Distinct(ReadBack(s)) => Distinct(s))
    BY <2>1, EntriesReadBack
  <2>4. NamesIn(ReadBack(index)) = NamesIn(index) /\ (Distinct(index) => Distinct(ReadBack(index)))
    BY <2>1, EntriesReadBack
  <2>5. NamesIn(s) = SceneFiles /\ Distinct(s)
    BY <1>4, <1>5, <2>2, <2>3, <2>4
  <2> QED BY <2>5 DEF s
<1>6. IndexFollows'
  <2>1. UNCHANGED disk[IndexName].entries
    BY <1>1
  <2> QED BY <1>1, <1>3, <1>5, <2>1 DEF IndexFollows
<1> QED BY <1>1, <1>2, <1>6 DEF Writing

LEMMA RestartFromIndexKeeps ==
    ASSUME LibraryInv, RestartFromIndex
    PROVE  LibraryInv'
<1> USE DEF LibraryInv
<1> DEFINE s == disk[IndexName].entries
<1>1. /\ pc = "down" /\ disk[IndexName].kind = "index" /\ index' = ReadBack(s) /\ pc' = "ready"
      /\ UNCHANGED <<disk, source, target, diverged, saves, faults, crashes>>
  BY DEF RestartFromIndex
<1>2. s \in Seq(Entries)
  BY <1>1, ContentsKinds DEF LibraryTyped, Names
<1>3. disk'[IndexName] = disk[IndexName] /\ disk'[IndexName].entries = s
  BY <1>1
<1>4. ~diverged => NamesIn(s) = SceneFiles /\ Distinct(s)
  BY <1>1 DEF IndexFollows
<1>5. SceneFiles' = SceneFiles
  BY <1>1 DEF SceneFiles, Exists
<1> HIDE DEF s
<1>6. /\ index' \in Seq(Entries) /\ NamesIn(index') = NamesIn(s)
      /\ Distinct(s) => Distinct(index')
      /\ ReadBack(index') = ReadBack(s)
  BY <1>1, <1>2, EntriesReadBack
<1>7. IndexOnDisk'
  <2>1. ReadBack(disk[IndexName].entries)' = ReadBack(s) /\ ReadBack(index)' = ReadBack(index')
    BY <1>3 DEF ReadBack
  <2> QED BY <1>1, <1>3, <1>6, <2>1 DEF IndexOnDisk
<1>8. LibraryTyped' /\ Writing'
  BY <1>1, <1>6 DEF LibraryTyped, Writing
<1>9. Indexed' = NamesIn(index') /\ (Distinct(index)' <=> Distinct(index'))
  BY DEF Indexed, NamesIn, Distinct
<1>10. IndexFollows'
  BY <1>1, <1>4, <1>5, <1>6, <1>7, <1>9 DEF IndexFollows
<1> QED BY <1>8, <1>10

LEMMA RestartFromFilesKeeps ==
    ASSUME LibraryInv, RestartFromFiles
    PROVE  LibraryInv'
<1> USE DEF LibraryInv
<1>1. /\ pc = "down" /\ pc' = "index" /\ diverged' = FALSE
      /\ UNCHANGED <<disk, source, target, saves, faults, crashes>>
  BY DEF RestartFromFiles
<1>2. PICK files \in SetToSeqs(SceneFiles) :
         index' = [i \in DOMAIN files |-> Entry(files[i], NoNote)]
  BY DEF RestartFromFiles, Listed
<1>3. SceneFiles \in SUBSET Scenes
  BY DEF SceneFiles, Names
<1>4. index' \in Seq(Entries) /\ NamesIn(index') = SceneFiles /\ Distinct(index')
  BY <1>2, <1>3, EntriesListed
<1>5. Indexed' = NamesIn(index') /\ (Distinct(index)' <=> Distinct(index')) /\ SceneFiles' = SceneFiles
  BY <1>1 DEF Indexed, NamesIn, Distinct, SceneFiles, Exists
<1>6. LibraryTyped' /\ Writing'
  BY <1>1, <1>4 DEF LibraryTyped, Writing
<1>7. IndexFollows'
  BY <1>1, <1>4, <1>5 DEF IndexFollows
<1> QED BY <1>6, <1>7

LEMMA LibraryStep ==
    ASSUME IndexName \notin Arguments, LibraryInv, [LibraryNext]_libraryVars
    PROVE  LibraryInv'
<1>1. Arguments \subseteq Scenes
  BY LibraryAssumption DEF Names
<1>2. CASE UNCHANGED libraryVars
  <2>1. LibraryTyped' /\ Writing'
    BY <1>2 DEF LibraryInv, libraryVars, LibraryTyped, Writing, Exists
  <2>2. IndexFollows'
    BY <1>2 DEF LibraryInv, libraryVars, IndexFollows, Indexed, SceneFiles, Exists, IndexOnDisk,
                ReadBack, Distinct, NamesIn
  <2> QED BY <2>1, <2>2 DEF LibraryInv
<1>3. CASE \E n \in Arguments : SaveOpen(n) \/ Delete(n)
  BY <1>1, <1>3, SaveOpenKeeps, DeleteKeeps
<1>4. CASE \E n, m \in Arguments : Rename(n, m) \/ DuplicateOpen(n, m)
  BY <1>1, <1>4, RenameKeeps, DuplicateOpenKeeps
<1>5. CASE \E n \in Arguments, note \in Notes : SetMeta(n, note)
  BY <1>1, <1>5, SetMetaKeeps
<1>6. CASE SaveWrite \/ SaveFails \/ DuplicateWrite \/ DuplicateFails
  BY <1>6, SaveWriteKeeps, DuplicateWriteKeeps, FaultsKeep
<1>7. CASE IndexOpen \/ IndexWrite \/ IndexFails
  BY <1>7, IndexOpenKeeps, IndexWriteKeeps, FaultsKeep
<1>8. CASE Crash \/ RestartFromIndex \/ RestartFromFiles
  BY <1>8, CrashKeeps, RestartFromIndexKeeps, RestartFromFilesKeeps
<1> QED BY <1>2, <1>3, <1>4, <1>5, <1>6, <1>7, <1>8 DEF LibraryNext

\* Any number of saves, renames, copies, deletions, notes, crashes and
\* restarts, with any set of scenes: between two commands the index, its file
\* and the directory agree unless a write has failed since the last rescan,
\* provided no command names the index itself.
THEOREM LibraryAlwaysAgrees ==
    ASSUME IndexName \notin Arguments
    PROVE  LibrarySpec => []IndexAgrees
<1>1. LibraryInit => LibraryInv
  BY LibraryStarts
<1>2. LibraryInv /\ [LibraryNext]_libraryVars => LibraryInv'
  BY LibraryStep
<1>3. LibraryInv => IndexAgrees
  BY IndexedIs DEF LibraryInv, IndexFollows, IndexAgrees
<1> QED BY <1>1, <1>2, <1>3, PTL DEF LibrarySpec

LEMMA StepLosesNothing ==
    ASSUME IndexName \notin Arguments, LibraryInv, LibraryNext, NEW n \in Scenes,
           disk[n].kind = "scene"
    PROVE  \/ \E m \in Scenes : disk'[m] = disk[n]
           \/ SaveOpen(n) \/ Delete(n)
<1>1. /\ Arguments \subseteq Scenes /\ n \in Names /\ n # IndexName
      /\ Absent.kind = "absent" /\ Torn.kind = "torn"
  BY LibraryAssumption, ContentsKinds DEF Names
<1>2. disk \in [Names -> Contents] /\ (pc \in {"save", "copy"} => target # n)
  BY <1>1 DEF LibraryInv, LibraryTyped, Writing
<1>3. CASE UNCHANGED disk
  BY <1>3
<1>4. ASSUME NEW m \in Arguments, SaveOpen(m) \/ Delete(m)
      PROVE  disk'[n] = disk[n] \/ SaveOpen(n) \/ Delete(n)
  BY <1>1, <1>2, <1>4 DEF SaveOpen, Delete
<1>5. ASSUME NEW a \in Arguments, NEW b \in Arguments, Rename(a, b)
      PROVE  disk'[n] = disk[n] \/ disk'[b] = disk[n]
  <2>1. /\ disk[b] = Absent /\ disk[a] # Absent /\ a # b /\ a \in Names /\ b \in Names
        /\ disk' = [disk EXCEPT ![b] = disk[a], ![a] = Absent]
    BY <1>1, <1>5 DEF Rename, Move, Exists, Names
  <2>2. n # b
    BY <1>1, <2>1
  <2>3. disk'[b] = disk[a] /\ (n # a => disk'[n] = disk[n])
    BY <1>1, <1>2, <2>1, <2>2
  <2> QED BY <2>3
<1>6. ASSUME NEW a \in Arguments, NEW b \in Arguments, DuplicateOpen(a, b)
      PROVE  disk'[n] = disk[n]
  BY <1>1, <1>2, <1>6 DEF DuplicateOpen, Exists
<1>7. CASE SaveWrite \/ DuplicateWrite
  BY <1>1, <1>2, <1>7 DEF SaveWrite, DuplicateWrite
<1>8. CASE IndexOpen \/ IndexWrite
  BY <1>1, <1>2, <1>8 DEF IndexOpen, IndexWrite
<1>9. CASE \/ SaveFails \/ DuplicateFails \/ IndexFails
           \/ Crash \/ RestartFromIndex \/ RestartFromFiles
           \/ \E m \in Arguments, note \in Notes : SetMeta(m, note)
  <2>1. UNCHANGED disk
    BY <1>9 DEF SaveFails, DuplicateFails, IndexFails, Crash, RestartFromIndex, RestartFromFiles,
                SetMeta
  <2> QED BY <1>3, <2>1
<1> QED BY <1>1, <1>4, <1>5, <1>6, <1>7, <1>8, <1>9 DEF LibraryNext

\* With any set of scenes and whatever fails, a whole scene is lost only to a
\* save or a deletion of its name.
THEOREM NothingEverLost ==
    ASSUME IndexName \notin Arguments
    PROVE  LibrarySpec => NothingLost
<1> DEFINE Kept == \A n \in Scenes :
                      disk[n].kind = "scene"
                         => \/ \E m \in Scenes : disk'[m] = disk[n]
                            \/ SaveOpen(n) \/ Delete(n)
<1>1. LibraryInit => LibraryInv
  BY LibraryStarts
<1>2. LibraryInv /\ [LibraryNext]_libraryVars => LibraryInv'
  BY LibraryStep
<1>3. LibraryInv /\ [LibraryNext]_libraryVars => [Kept]_libraryVars
  BY StepLosesNothing
<1>4. NothingLost <=> [][Kept]_libraryVars
  BY DEF NothingLost
<1> HIDE DEF Kept
<1> QED BY <1>1, <1>2, <1>3, <1>4, PTL DEF LibrarySpec
=============================================================================
