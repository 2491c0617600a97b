------------------------------ MODULE PluginHost ------------------------------
(***************************************************************************)
(* The VST3 plug-in: its processor and its controller, which keep the      *)
(* eight parameters each for itself, the engine inside the processor, the  *)
(* OSC receiver that feeds the audio callback and, on the reverse path,    *)
(* the controller, and the host that automates, saves, loads and activates.*)
(*                                                                         *)
(* A normalised value is counted in halves: 0, 1 (centre, 0 dB), 2; what   *)
(* OSC or a damaged file brings may lie outside, as -1 or 3.  The engine   *)
(* is what its object table holds of each object; the ambisonic order, of  *)
(* which there is one, is kept in the row of object 0.                     *)
(***************************************************************************)
EXTENDS Integers, Sequences, SequencesExt

CONSTANTS
    Automated,       \* parameters the host automates
    Objects,         \* objects OSC addresses, 0 among them
    Tags,            \* kinds of command OSC brings
    FifoCap,         \* capacity of the engine's cmd_fifo_
    RingCap,         \* capacity of osc_cmd_ring_ and of param_edit_ring_
    MaxOps,          \* bound: operations of the host and OSC packets
    Damage,          \* sets of parameters a damaged file has out of range
    LoadsWhileAudio  \* the host calls setState while process() runs

ASSUME ObjectAssumption == Objects \subseteq Nat /\ 0 \in Objects
ASSUME BoundAssumption == {FifoCap, RingCap, MaxOps} \subseteq Nat /\ LoadsWhileAudio \in BOOLEAN

Fields == <<"PanAz", "PanEl", "Width", "Gain", "Order">>     \* the engine has them
Params == {"PanAz", "PanEl", "Width", "Gain", "Order", "Room", "Bypass", "Mute"}
Core   == Fields \o <<"Room", "Bypass", "Mute">>             \* in a state file
None   == 99
Default   == [p \in Params |-> IF p \in {"PanAz", "PanEl", "Gain"} THEN 1 ELSE 0]
AtRest    == [f \in {Fields[i] : i \in DOMAIN Fields} \cup {"Active"} |->
                IF f \in Params THEN Default[f] ELSE 0]
NoChange  == [p \in Params |-> None]
Earlier   == [version |-> 4, whole |-> TRUE,         \* a project of another day
              core |-> [p \in Params |-> CASE p = "Gain" -> 2
                                           [] p \in {"PanAz", "Order", "Mute"} -> 1
                                           [] OTHER -> 0]]

ASSUME AutomatedAssumption == Automated \subseteq Params
ASSUME DamageAssumption == Damage \subseteq SUBSET Params

\* The nearest value in range.
Clamped(v) == IF v < 0 THEN 0 ELSE IF v > 2 THEN 2 ELSE v

VARIABLES
    norm,       \* the processor's norm_values_
    ctl,        \* the controller's norm_values_
    engine,     \* obj_cache_
    fifo,       \* cmd_fifo_: commands on their way to the object table
    fromOsc,    \* osc_cmd_ring_
    edits,      \* param_edit_ring_
    todo,       \* the host's changes for the next block
    batch,      \* the changes of the block that runs
    audio,      \* where process() is: a phase or the parameter it dispatches
    ui,         \* where setState is: what is left to store or dispatch
    file,       \* the state a project was saved with last
    active, connected,
    wired,      \* push_param_edit_ is set
    linked,     \* ghost: the host has synchronised the controller
    known,      \* ghost: fields whose last word for object 0 is a parameter's
    edited,     \* ghost: parameters changed by a reverse edit only
    lost,       \* ghost: a command or an edit found its ring full
    fresh,      \* ghost: the whole file is loaded and nothing has changed since
    ops         \* ghost

hostVars    == <<todo, file, linked, edited>>
lifeVars    == <<active, connected, wired>>
pluginGhosts == <<known, lost, fresh, ops>>
pluginVars  == <<norm, ctl, engine, fifo, fromOsc, edits, batch, audio, ui, hostVars, lifeVars, pluginGhosts>>

\* The processor's values start at zero, the controller's at the defaults.
PluginInit ==
    /\ norm = [p \in Params |-> 0] /\ ctl = Default
    /\ engine = [o \in Objects |-> AtRest]
    /\ fifo = <<>> /\ fromOsc = <<>> /\ edits = <<>>
    /\ todo = NoChange /\ batch = NoChange /\ audio = "idle" /\ ui = <<>>
    /\ file \in {<<>>, Earlier}
    /\ active = FALSE /\ connected \in BOOLEAN /\ wired = FALSE
    /\ linked = FALSE /\ known = {} /\ edited = {} /\ lost = FALSE /\ fresh = FALSE /\ ops = 0

Loading == ui # <<>>
HostMay == ops < MaxOps /\ ops' = ops + 1 /\ ~Loading

-------------------------------------------------------------------------------
(* dispatchParamChange: a parameter becomes a command for object 0          *)

\* A command names an object and what it sets of it.
Move(tag, o, az, el) ==
    [tag |-> tag, obj |-> o, set |-> [PanAz |-> az, PanEl |-> el, Active |-> 1]]
Set(tag, o, field, v) == [tag |-> tag, obj |-> o, set |-> [f \in {field} |-> v]]

\* What the engine makes of a parameter's value: below the range silence, for
\* the order the nearest; everything else as it comes.
Sounds(p, v) == CASE p = "Order"        -> Clamped(v)
                  [] p = "Gain" /\ v < 0 -> 0
                  [] OTHER               -> v

TagOf == [Width |-> "ObjDsp", Gain |-> "ObjGain", Order |-> "SysAmbiOrder"]

\* Mutant of CommandOf: the other coordinate of a move is the default.
CommandOfLevel(p, v) ==
    CASE p = "PanAz" -> <<Move("ObjMove", 0, v, 1)>>
      [] p = "PanEl" -> <<Move("ObjMove", 0, 1, v)>>
      [] p \in DOMAIN TagOf -> <<Set(TagOf[p], 0, p, Sounds(p, v))>>
      [] OTHER -> <<>>

\* A move takes the other coordinate from norm_values_; room, bypass and mute
\* are no business of the engine.
CommandOf(p, v) ==
    CASE p = "PanAz" -> <<Move("ObjMove", 0, v, norm["PanEl"])>>
      [] p = "PanEl" -> <<Move("ObjMove", 0, norm["PanAz"], v)>>
      [] p \in DOMAIN TagOf -> <<Set(TagOf[p], 0, p, Sounds(p, v))>>
      [] OTHER -> <<>>

Fit(s, n) == SubSeq(s, 1, IF Len(s) <= n THEN Len(s) ELSE n)

\* The engine's sink pushes to cmd_fifo_ and ignores that it is full.
Enqueue(cmds) ==
    /\ fifo' = fifo \o Fit(cmds, FifoCap - Len(fifo))
    /\ lost' = (lost \/ Len(fifo) + Len(cmds) > FifoCap)

FieldsOf(cmds) == {p \in Params : \E i \in DOMAIN cmds : p \in DOMAIN cmds[i].set}

\* audioCommandToParamEdit and its caller: what a command edits of the
\* parameters, whichever object it is for.  A position in space, a width that
\* comes as ObjDsp and the rest edit nothing.
EditsOf(c) ==
    CASE c.tag = "ObjMove"  -> <<<<"PanAz", Clamped(c.set["PanAz"])>>,
                                 <<"PanEl", Clamped(c.set["PanEl"])>>>>
      [] c.tag = "ObjGain"  -> <<<<"Gain", Clamped(c.set["Gain"])>>>>
      [] c.tag = "ObjWidth" -> <<<<"Width", Clamped(c.set["Width"])>>>>
      [] c.tag = "SysAmbiOrder" -> <<<<"Order", Clamped(c.set["Order"])>>>>
      [] c.tag = "ObjMute"  -> <<<<"Mute", 2 * (1 - c.set["Active"])>>>>
      [] OTHER -> <<>>

\* Fields of object 0 that commands set without a word to the parameters.
Unechoed(cmds) ==
    {p \in Params : \E i \in DOMAIN cmds :
        cmds[i].obj = 0 /\ p \in DOMAIN cmds[i].set /\ EditsOf(cmds[i]) = <<>>}

-------------------------------------------------------------------------------
(* process(), on the audio thread                                           *)

\* Mutant of BeginBlock: a block without news returns early.
BeginBlockOnNews ==
    /\ audio = "idle" /\ (Loading => LoadsWhileAudio)
    /\ todo # NoChange \/ fromOsc # <<>>
    /\ Enqueue(fromOsc) /\ fromOsc' = <<>>
    /\ batch' = todo /\ todo' = NoChange
    /\ audio' = "changes"
    /\ known' = known \ Unechoed(fromOsc)
    /\ UNCHANGED <<norm, ctl, engine, edits, ui, file, linked, edited, lifeVars, fresh, ops>>

\* The block takes what OSC brought, then the host's changes.
BeginBlock ==
    /\ audio = "idle" /\ (Loading => LoadsWhileAudio)
    /\ Enqueue(fromOsc) /\ fromOsc' = <<>>
    /\ batch' = todo /\ todo' = NoChange
    /\ audio' = "changes"
    /\ known' = known \ Unechoed(fromOsc)
    /\ UNCHANGED <<norm, ctl, engine, edits, ui, file, linked, edited, lifeVars, fresh, ops>>

\* The last point of each queue; the host orders the queues as it likes.
StoreChange ==
    /\ audio = "changes"
    /\ \E p \in Params :
        /\ batch[p] # None
        /\ norm' = [norm EXCEPT ![p] = batch[p]]
        /\ audio' = p
    /\ UNCHANGED <<ctl, engine, fifo, fromOsc, edits, batch, ui, hostVars, lifeVars, pluginGhosts>>

DispatchChange ==
    /\ audio \in Params
    /\ LET cmds == CommandOf(audio, batch[audio])
       IN  /\ Enqueue(cmds)
           /\ known' = known \cup FieldsOf(cmds)
    /\ batch' = [batch EXCEPT ![audio] = None]
    /\ audio' = "changes"
    /\ UNCHANGED <<norm, ctl, engine, fromOsc, edits, ui, hostVars, lifeVars, fresh, ops>>

On(p) == norm[p] >= 1
Rendering == active /\ ~On("Mute") /\ ~On("Bypass")

Apply(table, c) ==
    [table EXCEPT ![c.obj] =
        [f \in DOMAIN table[c.obj] |-> IF f \in DOMAIN c.set THEN c.set[f] ELSE table[c.obj][f]]]

\* Muted, the buses are cleared; bypassed, the input is copied; only a block
\* that renders runs the engine, whose first act is to drain its FIFO.  A host
\* that only flushes parameters passes no samples and renders nothing.
Render ==
    /\ audio = "changes" /\ batch = NoChange
    /\ audio' = IF Rendering THEN "drain" ELSE "idle"
    /\ UNCHANGED <<norm, ctl, engine, fifo, fromOsc, edits, batch, ui, hostVars, lifeVars, pluginGhosts>>

\* Commands are popped until there is none.
DrainCommand ==
    /\ audio = "drain" /\ fifo # <<>>
    /\ engine' = Apply(engine, Head(fifo)) /\ fifo' = Tail(fifo)
    /\ UNCHANGED <<norm, ctl, fromOsc, edits, batch, audio, ui, hostVars, lifeVars, pluginGhosts>>

EndBlock ==
    /\ audio = "drain" /\ fifo = <<>>
    /\ audio' = "idle"
    /\ UNCHANGED <<norm, ctl, engine, fifo, fromOsc, edits, batch, ui, hostVars, lifeVars, pluginGhosts>>

-------------------------------------------------------------------------------
(* The host: automation, lifecycle                                          *)

\* The host shows a change on the controller and queues it for the block.
Automate ==
    /\ HostMay
    /\ \E p \in Automated, v \in {0, 1} :
        /\ todo' = [todo EXCEPT ![p] = v]
        /\ ctl' = [ctl EXCEPT ![p] = v]
        /\ edited' = edited \ {p}
    /\ fresh' = FALSE
    /\ UNCHANGED <<norm, engine, fifo, fromOsc, edits, batch, audio, ui, file, linked,
                   lifeVars, known, lost>>

\* setActive(true) starts the OSC receiver; the reverse path is wired to the
\* controller that is connected now, or not at all.
Activate ==
    /\ ~Loading /\ ~active /\ audio = "idle"
    /\ active' = TRUE /\ wired' = connected
    /\ UNCHANGED <<norm, ctl, engine, fifo, fromOsc, edits, batch, audio, ui, hostVars,
                   connected, known, lost, fresh, ops>>

\* setActive(false) and terminate: the receiver ends, the engine is released.
Deactivate ==
    /\ ~Loading /\ active /\ audio = "idle"
    /\ active' = FALSE /\ wired' = FALSE
    /\ UNCHANGED <<norm, ctl, engine, fifo, fromOsc, edits, batch, audio, ui, hostVars,
                   connected, known, lost, fresh, ops>>

Connect ==
    /\ ~Loading /\ ~active
    /\ connected' = ~connected
    /\ UNCHANGED <<norm, ctl, engine, fifo, fromOsc, edits, batch, audio, ui, hostVars,
                   active, wired, known, lost, fresh, ops>>

-------------------------------------------------------------------------------
(* State files: a version and the core parameters, whole or cut off.  The   *)
(* sections behind them carry paths and the binaural mode (BinauralModes).  *)

Versions == 1 .. 5        \* 1 to 3: the old framing; 4: sections; 5: a later one

Saved == [version |-> 4, core |-> norm, whole |-> TRUE]

\* The host saves the project; getState writes all sections or fails.
Save ==
    /\ HostMay
    /\ file' = Saved
    /\ UNCHANGED <<norm, ctl, engine, fifo, fromOsc, edits, batch, audio, ui, todo, linked,
                   edited, lifeVars, known, lost, fresh>>

\* What an older version would have saved, or what is left of a damaged file:
\* cut short, or with values out of range.
Damaged(core) == {[p \in Params |-> IF p \in D THEN v ELSE core[p]] : D \in Damage, v \in {-1, 3}}
Variants(f) == [version : Versions, core : {f.core} \cup Damaged(f.core), whole : BOOLEAN]

Readable(f) == f.version <= 4 /\ f.whole

\* Versions 1 and 2 end before bypass or mute, which are then off.
CoreOf(f) == [p \in Params |-> CASE p = "Bypass" /\ f.version = 1       -> 0
                                 [] p = "Mute" /\ f.version \in {1, 2}  -> 0
                                 [] OTHER                               -> f.core[p]]

\* Mutant of SetComponentState: the controller forgets the old versions.
SetComponentStateRaw(f) == IF Readable(f) THEN [p \in Params |-> Clamped(f.core[p])] ELSE ctl

\* Mutant of SetComponentState: the controller takes a value as it stands.
SetComponentStateVerbatim(f) == IF Readable(f) THEN CoreOf(f) ELSE ctl

\* The controller reads the core for itself and brings each value into range,
\* which the processor does not.
SetComponentState(f) == IF Readable(f) THEN [p \in Params |-> Clamped(CoreOf(f)[p])] ELSE ctl

\* setState stores each parameter and dispatches it before the next one.
BeginLoad ==
    /\ HostMay /\ file # <<>> /\ todo = NoChange /\ (audio = "idle" \/ LoadsWhileAudio)
    /\ \E f \in Variants(file) :
        /\ ui' = IF Readable(f) THEN [i \in 1 .. 8 |-> <<"store", Core[i], CoreOf(f)[Core[i]]>>]
                 ELSE <<>>
        /\ ctl' = SetComponentState(f)
        /\ edited' = IF Readable(f) THEN {} ELSE edited
        /\ fresh' = (f = file)
    /\ UNCHANGED <<norm, engine, fifo, fromOsc, edits, batch, audio, todo, file, linked, lifeVars, known, lost>>

\* Mutant of StoreLoaded: the last parameter of the block is left out.
StoreLoadedSeven ==
    /\ Loading /\ ui[1][1] = "store"
    /\ norm' = IF Len(ui) > 1 THEN [norm EXCEPT ![ui[1][2]] = ui[1][3]] ELSE norm
    /\ ui' = [ui EXCEPT ![1][1] = "dispatch"]
    /\ UNCHANGED <<ctl, engine, fifo, fromOsc, edits, batch, audio, hostVars, lifeVars, pluginGhosts>>

StoreLoaded ==
    /\ Loading /\ ui[1][1] = "store"
    /\ norm' = [norm EXCEPT ![ui[1][2]] = ui[1][3]]
    /\ ui' = [ui EXCEPT ![1][1] = "dispatch"]
    /\ UNCHANGED <<ctl, engine, fifo, fromOsc, edits, batch, audio, hostVars, lifeVars, pluginGhosts>>

DispatchLoaded ==
    /\ Loading /\ ui[1][1] = "dispatch"
    /\ LET cmds == CommandOf(ui[1][2], ui[1][3])
       IN  /\ Enqueue(cmds)
           /\ known' = known \cup FieldsOf(cmds)
    /\ ui' = Tail(ui)
    /\ UNCHANGED <<norm, ctl, engine, fromOsc, edits, batch, audio, hostVars, lifeVars, fresh, ops>>

\* The host hands the component's state to the controller after creating both.
Synchronise ==
    /\ ~linked /\ ~Loading
    /\ linked' = TRUE
    /\ ctl' = [p \in Params |->
                IF todo[p] = None /\ batch[p] = None THEN Clamped(norm[p]) ELSE ctl[p]]
    /\ UNCHANGED <<norm, engine, fifo, fromOsc, edits, batch, audio, ui, todo, file, edited,
                   lifeVars, known, lost, fresh, ops>>

-------------------------------------------------------------------------------
(* OSC: the receiver thread, and the controller's message thread            *)

\* What the receiver decodes and the audio callback dispatches, as far as it
\* sets any of the fields; no position is derived of a point at the origin.
Positions(o) == {Move("ObjMove", o, 3, 2), Move("ObjXYZ", o, 2, 1), Set("ObjXYZ", o, "Active", 1)}
Levels(o) == {Set("ObjGain", o, "Gain", 3), Set("ObjWidth", o, "Width", 1),
              Set("ObjDsp", o, "Width", 2)}
Switches(o) == {Set(tag, o, "Active", x) : tag \in {"ObjActive", "ObjActiveAdm", "ObjMute"},
                                          x \in {0, 1}}
Packets ==
    {c \in (UNION {Positions(o) \cup Levels(o) \cup Switches(o) : o \in Objects})
             \cup {Set("SysAmbiOrder", 0, "Order", 1)} : c.tag \in Tags}

\* The command for the audio callback first, then its edits; each ring may be
\* full.  Without a controller nothing tells the host.
Receive ==
    /\ active /\ ops < MaxOps /\ ops' = ops + 1
    /\ \E c \in Packets :
        LET back == EditsOf(c)
            kept == IF wired THEN Fit(back, RingCap - Len(edits)) ELSE <<>>
        IN  /\ fromOsc' = IF Len(fromOsc) < RingCap THEN Append(fromOsc, c) ELSE fromOsc
            /\ edits' = edits \o kept
            /\ lost' = (lost \/ Len(fromOsc) = RingCap \/ kept # back)
            /\ fresh' = FALSE
    /\ UNCHANGED <<norm, ctl, engine, fifo, batch, audio, ui, hostVars, lifeVars, known>>

\* notify: drain the ring into performEdit.  The host plays the edit back to
\* the processor; nobody sets the controller's own value.
DrainEdits ==
    /\ edits # <<>>
    /\ todo' = [p \in Params |->
                  LET mine == {i \in DOMAIN edits : edits[i][1] = p}
                  IN  IF mine = {} THEN todo[p]
                      ELSE edits[Max(mine)][2]]
    /\ edited' = edited \cup {edits[i][1] : i \in DOMAIN edits}
    /\ edits' = <<>> /\ fresh' = FALSE
    /\ UNCHANGED <<norm, ctl, engine, fifo, fromOsc, batch, audio, ui, file, linked, lifeVars,
                   known, lost, ops>>

-------------------------------------------------------------------------------
Process == BeginBlock \/ StoreChange \/ DispatchChange \/ Render \/ DrainCommand \/ EndBlock
Load    == StoreLoaded \/ DispatchLoaded

PluginNext ==
    \/ Process
    \/ Automate \/ Activate \/ Deactivate \/ Connect
    \/ Save \/ BeginLoad \/ Load \/ Synchronise
    \/ Receive \/ DrainEdits

\* The host calls process() for ever, and a call of setState returns.
PluginSpec == PluginInit /\ [][PluginNext]_pluginVars /\ WF_pluginVars(Process) /\ WF_pluginVars(Load)

-------------------------------------------------------------------------------
(* Properties *)

\* Nothing is on its way from the parameters or OSC to the object table.
Quiet == /\ audio = "idle" /\ ~Loading /\ todo = NoChange
         /\ fifo = <<>> /\ fromOsc = <<>> /\ edits = <<>>

\* Through blocks that render and blocks that do not, automation, loaded
\* projects and OSC with its echo through the host, object 0 ends where the
\* parameters say, for the fields of which they had the last word, unless a
\* full ring lost something.  A command that is not echoed takes its fields
\* from the parameters until one of them is dispatched again.
EngineFollows == Quiet /\ ~lost => \A p \in known : engine[0][p] = Sounds(p, norm[p])

\* Once synchronised, processor and controller differ at most by a reverse
\* edit, or by what the controller brought into range.
ControllerAgrees ==
    linked /\ Quiet => \A p \in Params \ edited : ctl[p] = Clamped(norm[p])

\* Loading a project and saving it again gives the same file.
ReloadKeeps == fresh /\ ~Loading /\ audio = "idle" /\ todo = NoChange => Saved = file

\* Of every file, old, damaged or from a later version, the processor, the
\* controller and the next save make the same, whatever automation and OSC did
\* in between, but for values out of range: these the processor and the next
\* save keep and the controller shows as the nearest in range.
FilesAgree == ControllerAgrees /\ ReloadKeeps

\* What is in the FIFO reaches the engine as long as blocks render.
Heard == fifo # <<>> ~> (fifo = <<>> \/ ~Rendering)

===============================================================================
