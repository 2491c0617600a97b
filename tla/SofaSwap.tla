------------------------------ MODULE SofaSwap ------------------------------
(***************************************************************************)
(* The live swap of the HRTF data set: SpatialEngine's pending request,    *)
(* BinauralMonitor::loadPendingSofa and the two double buffers it          *)
(* publishes, HrtfLookup's table and the bank of virtual speakers.         *)
(*                                                                         *)
(*   OSC thread     a /sys/binaural_sofa_select resolved by the catalogue  *)
(*                  assigns the request's path and raises its flag         *)
(*   control loop   takes the request, waits until the audio thread has    *)
(*                  left the inactive slots, loads and publishes           *)
(*   audio thread   reads a slot for each object it renders directly and   *)
(*                  one for the virtual speakers, and reports what it read *)
(*                                                                         *)
(* A slot's data is abstracted to the path it was loaded from.  The wait   *)
(* spins at most kCadenceSpinBudget times; Patience is the number of       *)
(* audio blocks that are sure to finish within that budget.  The monitor   *)
(* was initialised with a data set (hrtf_loaded_, b2_initialized_); the    *)
(* warning latch and the demote state that a swap also resets are left     *)
(* out.  Catalog stands for a catalogue that has been loaded: at this      *)
(* commit nothing in the daemon loads hrtf_catalog_, so there a selection  *)
(* resolves to nothing and only Catalog = {} occurs.                       *)
(***************************************************************************)
EXTENDS Integers, Sequences, FiniteSetsExt

CONSTANTS
    Catalog,       \* paths the catalogue resolves names to
    StartPath,     \* the path initialize() loaded
    Garbage,       \* what a copy of a string under assignment may yield
    Partial,       \* contents of a slot while it is written, or never written
    Patience,      \* blocks that finish within the spin budget
    MaxActive,     \* bound: objects a block renders directly
    MaxSelects,    \* bound: selections
    MaxStops       \* bound: times the audio device stops

ASSUME SofaAssumption ==
    /\ Garbage \notin Catalog \cup {StartPath}
    /\ Partial \notin Catalog \cup {StartPath, Garbage}
    /\ {Patience, MaxActive, MaxSelects, MaxStops} \subseteq Nat

Slots == {0, 1}
Unread == -1
Paths == Catalog \cup {StartPath}

VARIABLES
    upc, choice, reqPath, reqFlag,   \* OSC thread; pending_binaural_sofa_path_, _flag_
    cpc, call, path, applied,        \* control loop; applied_sofa_path_
    tableClear,                      \* table_clear
    ticks,                           \* audio_block_tick_ - start_tick during a wait,
                                     \* up to Patience
    activeTable, activeVs,           \* active_sofa_slot_, active_vs_slot_
    table, vs,                       \* the slots' contents
    apc, reads,                      \* audio thread, and the reads still to do
    localTable, localVs,             \* last_consumed_*_local_: the slots read last
    lcTable, lcVs,                   \* last_consumed_*, as published
    running, stops, selects,
    tried                            \* ghost: the path taken last

requestVars == <<upc, choice, reqPath, reqFlag, selects>>
controlVars == <<cpc, call, path, applied, tableClear, tried>>
slotVars == <<activeTable, activeVs, table, vs>>
audioVars == <<apc, reads, localTable, localVs, lcTable, lcVs, running, stops>>
vars == <<requestVars, controlVars, slotVars, audioVars, ticks>>

\* The inactive slot when s is the active one.
Other(s) == 1 - s

\* pending_sofa_path_: initialize() sets it and nothing else in the daemon does.
PendingPath == StartPath

Init ==
    /\ upc = "idle" /\ choice = StartPath /\ reqPath = StartPath /\ reqFlag = FALSE
    /\ cpc = "tick" /\ call = 1 /\ path = StartPath /\ applied = StartPath
    /\ tableClear = FALSE /\ ticks = 0
    /\ activeTable = 0 /\ activeVs = 0
    /\ table = [s \in Slots |-> IF s = 0 THEN StartPath ELSE Partial]
    /\ vs = table
    /\ apc = "idle" /\ reads = <<>>
    /\ localTable = 0 /\ localVs = Unread    \* initialize() calls setDirection
    /\ lcTable = Unread /\ lcVs = Unread
    /\ running = TRUE /\ stops = 0 /\ selects = 0
    /\ tried = StartPath

-----------------------------------------------------------------------------
(* The OSC thread: the sink's SysBinauralSofaSelect.                       *)

\* The assignment of the std::string begins ...
Select ==
    /\ upc = "idle" /\ selects < MaxSelects
    /\ choice' \in Catalog
    /\ upc' = "assign" /\ selects' = selects + 1
    /\ UNCHANGED <<reqPath, reqFlag, controlVars, slotVars, audioVars, ticks>>

\* ... and ends.
Assigned ==
    /\ upc = "assign"
    /\ reqPath' = choice
    /\ upc' = "raise"
    /\ UNCHANGED <<choice, reqFlag, selects, controlVars, slotVars, audioVars, ticks>>

Raise ==
    /\ upc = "raise"
    /\ reqFlag' = TRUE
    /\ upc' = "idle"
    /\ UNCHANGED <<choice, reqPath, selects, controlVars, slotVars, audioVars, ticks>>

-----------------------------------------------------------------------------
(* The control loop: applyPendingBinauralSofa, at about 1 Hz.              *)

TakeFlag ==
    /\ cpc = "tick" /\ reqFlag
    /\ reqFlag' = FALSE
    /\ cpc' = "copy"
    /\ UNCHANGED <<upc, choice, reqPath, selects, call, path, applied, tableClear,
                   tried, slotVars, audioVars, ticks>>

\* A copy that overlaps the assignment is a data race.
CopyPath ==
    /\ cpc = "copy"
    /\ path' \in IF upc = "assign" THEN {reqPath, choice, Garbage} ELSE {reqPath}
    /\ tried' = path'
    /\ call' = 1
    /\ cpc' = "startWait"
    /\ UNCHANGED <<requestVars, applied, tableClear, slotVars, audioVars, ticks>>

(* loadPendingSofa, first waitInactiveSlotQuiescent.                       *)

\* Mutant of StartWait: the flag is cleared only now that the path is copied.
StartWaitClearing ==
    /\ cpc = "startWait"
    /\ reqFlag' = FALSE
    /\ ticks' = 0
    /\ cpc' = "waitTick"
    /\ UNCHANGED <<upc, choice, reqPath, selects, call, path, applied, tableClear,
                   tried, slotVars, audioVars>>

StartWait ==
    /\ cpc = "startWait"
    /\ ticks' = 0
    /\ cpc' = "waitTick"
    /\ UNCHANGED <<requestVars, call, path, applied, tableClear, tried,
                   slotVars, audioVars>>

Waiting == cpc \in {"waitTick", "waitTable", "waitVs"}

EndWait == cpc' = "load" /\ ticks' = 0

\* Mutant of SeeTick: a reading from before the wait may pass.
SeeNoTick ==
    /\ cpc = "waitTick"
    /\ cpc' = "waitTable"
    /\ UNCHANGED <<requestVars, call, path, applied, tableClear, tried,
                   slotVars, audioVars, ticks>>

SeeTick ==
    /\ cpc = "waitTick" /\ ticks > 0
    /\ cpc' = "waitTable"
    /\ UNCHANGED <<requestVars, call, path, applied, tableClear, tried,
                   slotVars, audioVars, ticks>>

CheckTable ==
    /\ cpc = "waitTable"
    /\ tableClear' = (lcTable # Other(activeTable))
    /\ cpc' = "waitVs"
    /\ UNCHANGED <<requestVars, call, path, applied, tried, slotVars, audioVars, ticks>>

CheckVs ==
    /\ cpc = "waitVs"
    /\ IF tableClear /\ lcVs # Other(activeVs)
       THEN EndWait
       ELSE cpc' = "waitTick" /\ UNCHANGED ticks
    /\ tableClear' = FALSE
    /\ UNCHANGED <<requestVars, call, path, applied, tried, slotVars, audioVars>>

\* Mutant of GiveUp: only a stopped audio thread exhausts the budget.
GiveUpIfStopped ==
    /\ cpc = "waitTick" /\ ~running
    /\ EndWait
    /\ UNCHANGED <<requestVars, call, path, applied, tableClear, tried,
                   slotVars, audioVars>>

\* The spin budget is exhausted.
GiveUp ==
    /\ cpc = "waitTick"
    /\ ~running \/ ticks >= Patience
    /\ EndWait
    /\ UNCHANGED <<requestVars, call, path, applied, tableClear, tried,
                   slotVars, audioVars>>

(* loadIntoInactive.                                                       *)

\* The end of loadPendingSofa(path).  applyPendingBinauralSofa goes on to
\* applyPendingSofaChange, which loads the pending path unless it is applied.
Return(live) ==
    IF call = 1 /\ PendingPath # live
    THEN call' = 2 /\ path' = PendingPath /\ cpc' = "startWait"
    ELSE cpc' = "tick" /\ UNCHANGED <<call, path>>

\* loadSpeh refuses the file before it touches the slot ...
LoadRefused ==
    /\ cpc = "load"
    /\ Return(applied)
    /\ UNCHANGED <<requestVars, applied, tableClear, tried, slotVars, audioVars, ticks>>

LoadBegin ==
    /\ cpc = "load" /\ path # Garbage
    /\ table' = [table EXCEPT ![Other(activeTable)] = Partial]
    /\ cpc' = "loading"
    /\ UNCHANGED <<requestVars, call, path, applied, tableClear, tried,
                   activeTable, activeVs, vs, audioVars, ticks>>

\* Mutant of LoadTruncated: the result of loadSpeh is not looked at.
LoadTruncatedUnnoticed ==
    /\ cpc = "loading"
    /\ cpc' = "publish"
    /\ UNCHANGED <<requestVars, call, path, applied, tableClear, tried,
                   slotVars, audioVars, ticks>>

\* ... or finds it truncated and leaves the slot in whatever state it is.
LoadTruncated ==
    /\ cpc = "loading"
    /\ Return(applied)
    /\ UNCHANGED <<requestVars, applied, tableClear, tried, slotVars, audioVars, ticks>>

LoadDone ==
    /\ cpc = "loading"
    /\ table' = [table EXCEPT ![Other(activeTable)] = path]
    /\ cpc' = "publish"
    /\ UNCHANGED <<requestVars, call, path, applied, tableClear, tried,
                   activeTable, activeVs, vs, audioVars, ticks>>

(* Publication, and rebuildB2FromActiveTree.                               *)

Publish ==
    /\ cpc = "publish"
    /\ activeTable' = Other(activeTable)
    /\ cpc' = "fill"
    /\ UNCHANGED <<requestVars, call, path, applied, tableClear, tried,
                   activeVs, table, vs, audioVars, ticks>>

FillBegin ==
    /\ cpc = "fill"
    /\ vs' = [vs EXCEPT ![Other(activeVs)] = Partial]
    /\ cpc' = "filling"
    /\ UNCHANGED <<requestVars, call, path, applied, tableClear, tried,
                   activeTable, activeVs, table, audioVars, ticks>>

\* Mutant of FillEnd: the bank is derived from the slot that was active.
FillFromInactive ==
    /\ cpc = "filling"
    /\ vs' = [vs EXCEPT ![Other(activeVs)] = table[Other(activeTable)]]
    /\ cpc' = "publishVs"
    /\ UNCHANGED <<requestVars, call, path, applied, tableClear, tried,
                   activeTable, activeVs, table, audioVars, ticks>>

FillEnd ==
    /\ cpc = "filling"
    /\ vs' = [vs EXCEPT ![Other(activeVs)] = table[activeTable]]
    /\ cpc' = "publishVs"
    /\ UNCHANGED <<requestVars, call, path, applied, tableClear, tried,
                   activeTable, activeVs, table, audioVars, ticks>>

PublishVs ==
    /\ cpc = "publishVs"
    /\ activeVs' = Other(activeVs)
    /\ applied' = path
    /\ Return(path)
    /\ UNCHANGED <<requestVars, tableClear, tried, activeTable, table, vs, audioVars, ticks>>

-----------------------------------------------------------------------------
(* The audio thread.                                                       *)

\* What a block reads: a table slot per object in Direct mode, a bank in
\* AmbiVS mode, both while one mode fades into the other, and nothing while
\* binaural output is disabled.
BlockReads ==
    LET Direct == {[i \in 1 .. n |-> "table"] : n \in 0 .. MaxActive}
        AmbiVS == <<"vs">>
    IN  Direct \cup {AmbiVS} \cup {AmbiVS \o d : d \in Direct} \cup {d \o AmbiVS : d \in Direct}

BeginBlock ==
    /\ apc = "idle" /\ running
    /\ reads' \in BlockReads
    /\ apc' = "render"
    /\ UNCHANGED <<requestVars, controlVars, slotVars, localTable, localVs,
                   lcTable, lcVs, running, stops, ticks>>

\* setDirection and processBlockB2 load the slot's index ...
LoadSlot ==
    /\ apc = "render" /\ reads # <<>>
    /\ apc' = Head(reads)
    /\ IF Head(reads) = "table"
       THEN localTable' = activeTable /\ UNCHANGED localVs
       ELSE localVs' = activeVs /\ UNCHANGED localTable
    /\ UNCHANGED <<requestVars, controlVars, slotVars, reads, lcTable, lcVs,
                   running, stops, ticks>>

\* ... and then read it.
ReadSlot ==
    /\ apc \in {"table", "vs"}
    /\ reads' = Tail(reads)
    /\ apc' = "render"
    /\ UNCHANGED <<requestVars, controlVars, slotVars, localTable, localVs,
                   lcTable, lcVs, running, stops, ticks>>

(* finalizeXfadeBlock.                                                     *)

ReportTable ==
    /\ apc = "render" /\ reads = <<>>
    /\ lcTable' = localTable
    /\ apc' = "reportVs"
    /\ UNCHANGED <<requestVars, controlVars, slotVars, reads, localTable, localVs,
                   lcVs, running, stops, ticks>>

ReportVs ==
    /\ apc = "reportVs"
    /\ lcVs' = localVs
    /\ apc' = "bump"
    /\ UNCHANGED <<requestVars, controlVars, slotVars, reads, localTable, localVs,
                   lcTable, running, stops, ticks>>

BumpTick ==
    /\ apc = "bump"
    /\ ticks' = IF Waiting THEN Min({ticks + 1, Max({Patience, 1})}) ELSE ticks
    /\ apc' = "idle"
    /\ UNCHANGED <<requestVars, controlVars, slotVars, reads, localTable, localVs,
                   lcTable, lcVs, running, stops>>

\* The device is stopped between two blocks, and started again.
Stop ==
    /\ apc = "idle" /\ running /\ stops < MaxStops
    /\ running' = FALSE /\ stops' = stops + 1
    /\ UNCHANGED <<requestVars, controlVars, slotVars, apc, reads, localTable, localVs,
                   lcTable, lcVs, ticks>>

Restart ==
    /\ ~running
    /\ running' = TRUE
    /\ UNCHANGED <<requestVars, controlVars, slotVars, apc, reads, localTable, localVs,
                   lcTable, lcVs, stops, ticks>>

-----------------------------------------------------------------------------
OscThread == Select \/ Assigned \/ Raise
ControlLoop ==
    \/ TakeFlag \/ CopyPath
    \/ StartWait \/ SeeTick \/ CheckTable \/ CheckVs \/ GiveUp
    \/ LoadRefused \/ LoadBegin \/ LoadTruncated \/ LoadDone
    \/ Publish \/ FillBegin \/ FillEnd \/ PublishVs
Block == BeginBlock \/ LoadSlot \/ ReadSlot \/ ReportTable \/ ReportVs \/ BumpTick
Device == Stop \/ Restart

Next == OscThread \/ ControlLoop \/ Block \/ Device

Spec == Init /\ [][Next]_vars

\* A handler of the OSC thread ends, the control loop keeps running and spins
\* only so often, and a running device keeps calling for blocks; it need not
\* be restarted.
FairSpec ==
    /\ Spec
    /\ WF_vars(Assigned \/ Raise) /\ WF_vars(ControlLoop) /\ WF_vars(Block)
    /\ SF_vars(GiveUp)

-----------------------------------------------------------------------------
(* Properties.                                                             *)

\* Slot indices, contents and the three program counters have their types.
TypeOK ==
    /\ {activeTable, activeVs} \subseteq Slots
    /\ {localTable, localVs, lcTable, lcVs} \subseteq Slots \cup {Unread}
    /\ table \in [Slots -> Paths \cup {Partial}] /\ vs \in [Slots -> Paths \cup {Partial}]
    /\ path \in Paths \cup {Garbage} /\ {reqPath, choice, applied} \subseteq Paths
    /\ ticks \in 0 .. Max({Patience, 1}) /\ call \in {1, 2}
    /\ {reqFlag, tableClear, running} \subseteq BOOLEAN
    /\ upc \in {"idle", "assign", "raise"}
    /\ apc \in {"idle", "render", "table", "vs", "reportVs", "bump"}
    /\ reads \in Seq({"table", "vs"})

\* The control loop is not writing a slot that the audio thread reads.
Overwriting ==
    \/ cpc = "loading" /\ apc = "table" /\ localTable = Other(activeTable)
    \/ cpc = "filling" /\ apc = "vs" /\ localVs = Other(activeVs)

\* Whatever fails, also when a second swap follows at once and reuses the slot
\* that was active until then, no slot in use is written, the active slots are
\* whole, and at rest both modes play the data set that is recorded as applied.
LiveSetWhole ==
    /\ ~Overwriting
    /\ table[activeTable] # Partial /\ vs[activeVs] # Partial
    /\ cpc \in {"tick", "copy"} => table[activeTable] = applied /\ vs[activeVs] = applied

\* Taking a request never loses a later one: the selection made last is
\* taken, though the OSC thread may be assigning it while it is copied.
SelectionTaken ==
    \A p \in Catalog :
        (upc = "raise" /\ choice = p) ~> (tried = p \/ upc = "assign")

\* A swap ends, with the audio thread running or not, whatever it last read.
SwapEnds == cpc # "tick" ~> cpc = "tick"

=============================================================================
