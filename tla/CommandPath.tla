----------------------------- MODULE CommandPath -----------------------------
(***************************************************************************)
(* The way of a command from a datagram to the loudspeakers: the OSC       *)
(* thread decodes it and its sink queues it, the audio thread drains the   *)
(* queue at the start of a block and renders, the control loop rebuilds    *)
(* the Ambisonic decoder when a command changed its type, and the backend  *)
(* starts and stops the two threads.                                       *)
(*                                                                         *)
(* Two things are built outside the audio thread and handed to it: the     *)
(* delay lines of the WFS renderer, by the sink before the first command   *)
(* that routes an object to WFS is queued, and the decoder's matrices, in  *)
(* two slots of which the audio thread uses the active one for a block.    *)
(* The ring is never emptied: what a stop leaves in it is drained after    *)
(* the next start.                                                         *)
(***************************************************************************)
EXTENDS CommandFifo, CommandWire

CONSTANTS
    Packets,     \* the datagrams that may arrive
    MaxObjects,  \* MAX_OBJECTS
    Channels,    \* the channels of the layout
    Cadence,     \* a block is shorter than the second between two rebuilds
    MaxStarts    \* bound: starts of the backend

VARIABLES
    main,      \* the control loop and what it does to the backend
    osc,       \* the OSC thread, outside the ring's push
    audio,     \* the audio thread, outside the ring's pop
    mix,       \* what the audio thread has been told
    ready,     \* ready_ of the WFS renderer
    applied,   \* applied_decoder_type_
    active,    \* active_slot_
    mats,      \* decode_matrices_: the type each slot was built for
    pin,       \* the slot this block decodes with
    straddle,  \* the block that decoded at the last publish is still running
    starts,
    asked,     \* history: what the accepted commands asked for last
    left       \* history: a switch to WFS was left in the ring by a stop

rig == <<main, osc, audio, mix, ready, applied, active, mats, pin, straddle, starts,
         asked, left>>

pathVars == <<vars, rig>>

Unbuilt == -1

-----------------------------------------------------------------------------
(* The sink: which commands are queued, and as what.                       *)

EngineTags == {"SysReset", "SysAmbiOrder", "SysAmbiDecoderType", "SysLtcChase", "ReverbSelect",
               "TransportPlay", "TransportStop"}

QueuedTags == ObjectTags \cup AdmTags \cup ChannelTags \cup EngineTags

\* Whatever is not about an object carries object 0.
Queued(c) ==
    [tag |-> c.tag,
     obj |-> IF c.tag \in ObjectTags \cup AdmTags THEN c.p[1] ELSE 0,
     p   |-> IF c.tag = "ObjMute" THEN <<c.p[1], ~c.p[2]>> ELSE c.p]

\* What the datagrams mean.
Received == {Decode(pkt) : pkt \in Packets}

Elements == {Queued(c) : c \in {d \in Received : d.tag \in QueuedTags}}

ASSUME PathAssumption ==
    /\ Commands = Elements
    /\ \A pkt \in Packets : pkt.n \in Int
    /\ MaxObjects \in Nat \ {0} /\ MaxStarts \in Nat /\ Cadence \in BOOLEAN

-----------------------------------------------------------------------------
(* The drain: what a queued command does.                                  *)

\* An object's parameters: EQ gains 0 to 3, delay 4, HF rolloff 5 (in
\* halves), reverb send 6, width 7.
ObjCache ==
    [place |-> <<"polar", 0, 0, 1>>, active |-> FALSE, algo |-> "VBAP", gain |-> 1,
     dsp |-> [k \in 0 .. 7 |-> IF k = 5 THEN 1 ELSE 0]]

Quiet == [pink |-> FALSE, gain |-> -60]

Desk ==
    [objs |-> [o \in 0 .. MaxObjects - 1 |-> ObjCache],
     noise |-> [ch \in Channels |-> Quiet], trim |-> [ch \in Channels |-> 0],
     limit |-> [ch \in Channels |-> 0],
     play |-> TRUE, reverb |-> 0, order |-> 1, type |-> 0, chase |-> FALSE]

Clamp(x, lo, hi) == IF x < lo THEN lo ELSE Least(x, hi)

\* Cartesian coordinates are turned into polar ones, for which their triple
\* stands here; the origin has no direction and moves nothing.
MoveTo(obj, q) ==
    CASE q.tag = "ObjMove" ->
            [obj EXCEPT !.place = <<"polar", q.p[2], q.p[3], q.p[4]>>, !.active = TRUE]
      [] q.tag = "ObjXYZ" ->
            IF <<q.p[2], q.p[3], q.p[4]>> = <<0, 0, 0>>
            THEN [obj EXCEPT !.active = TRUE]
            ELSE [obj EXCEPT !.place = <<"cartesian", q.p[2], q.p[3], q.p[4]>>, !.active = TRUE]

ApplyToObject(obj, q) ==
    CASE q.tag \in {"ObjMove", "ObjXYZ"} -> MoveTo(obj, q)
      [] q.tag = "ObjGain" -> [obj EXCEPT !.gain = q.p[2]]
      [] q.tag \in {"ObjActive", "ObjMute", "ObjActiveAdm"} -> [obj EXCEPT !.active = q.p[2]]
      [] q.tag = "ObjAlgo" -> [obj EXCEPT !.algo = q.p[2]]
      [] q.tag = "ObjDsp" -> [obj EXCEPT !.dsp[q.p[2]] = q.p[3]]
      [] q.tag = "ObjWidth" -> [obj EXCEPT !.dsp[7] = q.p[2]]
      [] q.tag = "ObjName" -> obj

\* Channels the layout does not have are dropped.
ApplyToChannel(d, q) ==
    LET ch == q.p[1]
    IN  CASE ch \notin Channels -> d
          [] ch \in Channels /\ q.tag = "NoiseType" -> [d EXCEPT !.noise[ch].pink = q.p[2]]
          [] ch \in Channels /\ q.tag = "NoiseGain" ->
                [d EXCEPT !.noise[ch].gain = IF q.p[2] <= -60 THEN -60 ELSE q.p[2]]
          [] ch \in Channels /\ q.tag = "OutputGain" -> [d EXCEPT !.trim[ch] = q.p[2]]
          [] ch \in Channels /\ q.tag = "OutputLimit" -> [d EXCEPT !.limit[ch] = q.p[2]]

SetDecoderType(d, type) == [d EXCEPT !.type = IF type \in 0 .. 4 THEN type ELSE 0]

ApplyToEngine(d, q) ==
    CASE q.tag = "SysReset" -> [d EXCEPT !.objs = Desk.objs]
      [] q.tag = "TransportPlay" -> [d EXCEPT !.play = TRUE]
      [] q.tag = "TransportStop" -> [d EXCEPT !.play = FALSE]
      [] q.tag = "ReverbSelect" -> [d EXCEPT !.reverb = q.p[1]]
      [] q.tag = "SysAmbiOrder" -> [d EXCEPT !.order = Clamp(q.p[1], 1, 3)]
      [] q.tag = "SysAmbiDecoderType" -> SetDecoderType(d, q.p[1])
      [] q.tag = "SysLtcChase" -> [d EXCEPT !.chase = q.p[1]]

Apply(d, q) ==
    CASE q.obj < MaxObjects /\ q.tag \in ObjectTags \cup AdmTags ->
            [d EXCEPT !.objs[q.obj] = ApplyToObject(@, q)]
      [] q.obj < MaxObjects /\ q.tag \in ChannelTags -> ApplyToChannel(d, q)
      [] q.obj < MaxObjects /\ q.tag \in EngineTags -> ApplyToEngine(d, q)
      [] OTHER -> d

\* Mutant of Prepared: everything is set up afresh.
PreparedAfresh(d) == Desk

\* What prepareToPlay makes of the desk: the channels are set up afresh, the
\* objects stay.
Prepared(d) == [d EXCEPT !.noise = Desk.noise, !.trim = Desk.trim, !.limit = Desk.limit]

RoutedToWfs(d) == \E o \in DOMAIN d.objs : d.objs[o].algo = "WFS"

\* The renderers an object may be handed to; any other number means VBAP.
Renderers == {"WFS", "DBAP", "Ambisonic", "VBAP"}

\* What a block hands to each renderer: an object goes to one.
Handed(d) ==
    [r \in Renderers |-> {o \in DOMAIN d.objs :
        r = IF d.objs[o].algo \in Renderers THEN d.objs[o].algo ELSE "VBAP"}]

IsWfsSwitch(q) == q.tag = "ObjAlgo" /\ q.p[2] = "WFS"

-----------------------------------------------------------------------------
PathInit ==
    /\ Init
    /\ main = [at |-> "stopped", type |-> Unbuilt]
    /\ osc = [at |-> "down", cmd |-> None] /\ audio = "down"
    /\ mix = Desk /\ ready = FALSE
    /\ applied = 0 /\ active = 0 /\ mats = [s \in 0 .. 1 |-> Unbuilt]
    /\ pin = 0 /\ straddle = FALSE
    /\ starts = 0 /\ asked = [algo |-> [o \in 0 .. MaxObjects - 1 |-> "VBAP"], type |-> 0] /\ left = FALSE

\* In the ring or taken from it but not yet acted upon.
Pending == (IF popper.at = "release" THEN <<popper.out>> ELSE <<>>) \o Stored

\* start: prepareToPlay on a silent device, then the OSC thread, then the
\* device.  WFS storage is kept only if an object is routed there.  The
\* decoder is built for a pending type first, and once more in any case.
Start ==
    /\ main.at = "stopped" /\ starts < MaxStarts
    /\ starts' = starts + 1
    /\ main' = [main EXCEPT !.at = "loop"]
    /\ osc' = [osc EXCEPT !.at = "idle"] /\ audio' = "idle"
    /\ mix' = Prepared(mix)
    /\ ready' = RoutedToWfs(mix)
    /\ left' = (~RoutedToWfs(mix) /\ \E i \in DOMAIN Pending : IsWfsSwitch(Pending[i]))
    /\ IF mix.type # applied
       THEN mats' = [s \in 0 .. 1 |-> mix.type] /\ active' = active
       ELSE mats' = [mats EXCEPT ![1 - active] = applied] /\ active' = 1 - active
    /\ applied' = mix.type
    /\ UNCHANGED <<vars, pin, straddle, asked>>

\* The OSC thread: receive, decode, sink.  Storage for WFS is allocated
\* before the command is queued, whatever object it names.
Receive ==
    /\ osc.at = "idle" /\ pusher.at = "idle"
    /\ \E q \in Elements :
        IF IsWfsSwitch(q) /\ ~ready
        THEN osc' = [at |-> "allocate", cmd |-> q] /\ UNCHANGED vars
        ELSE PushBegin /\ pusher'.cmd = q /\ UNCHANGED osc
    /\ UNCHANGED <<main, audio, mix, ready, applied, active, mats, pin, straddle, starts,
                   asked, left>>

\* A packet that does not decode, or whose command is not for the ring.
ReceiveOther ==
    /\ osc.at = "idle" /\ pusher.at = "idle"
    /\ \E c \in Received : c.tag \notin QueuedTags
    /\ UNCHANGED pathVars

\* Mutant of Allocate: the command is queued first.
AllocateLate ==
    /\ osc.at = "allocate"
    /\ UNCHANGED <<ready, left>>
    /\ PushBegin /\ pusher'.cmd = osc.cmd
    /\ osc' = [at |-> "idle", cmd |-> None]
    /\ UNCHANGED <<main, audio, mix, applied, active, mats, pin, straddle, starts, asked>>

Allocate ==
    /\ osc.at = "allocate"
    /\ ready' = TRUE /\ left' = FALSE
    /\ PushBegin /\ pusher'.cmd = osc.cmd
    /\ osc' = [at |-> "idle", cmd |-> None]
    /\ UNCHANGED <<main, audio, mix, applied, active, mats, pin, straddle, starts, asked>>

\* What a client expects of a command it has sent.
Asking(a, q) ==
    CASE q.tag = "ObjAlgo" /\ q.obj < MaxObjects -> [a EXCEPT !.algo[q.obj] = q.p[2]]
      [] q.tag = "SysReset" -> [a EXCEPT !.algo = [o \in DOMAIN a.algo |-> "VBAP"]]
      [] q.tag = "SysAmbiDecoderType" -> [a EXCEPT !.type = q.p[1]]
      [] OTHER -> a

PushStep == (PushCheck \/ PushWrite) /\ UNCHANGED rig

Accept ==
    /\ PushPublish
    /\ asked' = Asking(asked, pusher.cmd)
    /\ UNCHANGED <<main, osc, audio, mix, ready, applied, active, mats, pin, straddle, starts,
                   left>>

\* The device asks for block after block until it is told to stop.
DeviceRuns == audio = "idle" /\ main.at \in {"loop", "build"}

\* The audio thread: drain, then WFS, then the decoder.  A block begins with
\* its first look into the ring; when it finds the ring empty it renders, from
\* here on with the slot that is active now.
DrainCheck ==
    /\ DeviceRuns \/ audio = "drain"
    /\ PopCheck
    /\ IF popper'.at = "read"
       THEN audio' = "drain" /\ UNCHANGED pin
       ELSE audio' = "render" /\ pin' = active
    /\ UNCHANGED <<main, osc, mix, ready, applied, active, mats, straddle, starts, asked,
                   left>>

DrainRead == PopRead /\ UNCHANGED rig

DrainApply ==
    /\ PopRelease
    /\ mix' = Apply(mix, popper.out)
    /\ UNCHANGED <<main, osc, audio, ready, applied, active, mats, pin, straddle, starts,
                   asked, left>>

EndBlock ==
    /\ audio = "render"
    /\ audio' = "idle" /\ pin' = 0 /\ straddle' = FALSE
    /\ UNCHANGED <<vars, main, osc, mix, ready, applied, active, mats, starts, asked, left>>

\* Mutant of Build: in the slot in use.
BuildInPlace ==
    /\ main.at = "loop" /\ mix.type # applied
    /\ Cadence => ~straddle
    /\ main' = [at |-> "build", type |-> mix.type]
    /\ mats' = [mats EXCEPT ![active] = Unbuilt]
    /\ UNCHANGED <<vars, osc, audio, mix, ready, applied, active, pin, straddle, starts,
                   asked, left>>

\* The control loop: applyPendingDecoderTypeChange, once a second.
Build ==
    /\ main.at = "loop" /\ mix.type # applied
    /\ Cadence => ~straddle
    /\ main' = [at |-> "build", type |-> mix.type]
    /\ mats' = [mats EXCEPT ![1 - active] = Unbuilt]
    /\ UNCHANGED <<vars, osc, audio, mix, ready, applied, active, pin, straddle, starts,
                   asked, left>>

Publish ==
    /\ main.at = "build"
    /\ main' = [at |-> "loop", type |-> Unbuilt]
    /\ mats' = [mats EXCEPT ![1 - active] = main.type]
    /\ active' = 1 - active /\ applied' = main.type
    /\ straddle' = (audio = "render")
    /\ UNCHANGED <<vars, osc, audio, mix, ready, pin, starts, asked, left>>

\* stop: the device's thread is joined, then the OSC thread; until then it
\* still queues.
StopDevice ==
    /\ main.at = "loop" /\ audio = "idle"
    /\ main' = [main EXCEPT !.at = "stopping"] /\ audio' = "down"
    /\ UNCHANGED <<vars, osc, mix, ready, applied, active, mats, pin, straddle, starts,
                   asked, left>>

Release ==
    /\ main.at = "stopping" /\ osc.at = "idle" /\ pusher.at = "idle"
    /\ main' = [main EXCEPT !.at = "stopped"] /\ osc' = [osc EXCEPT !.at = "down"]
    /\ UNCHANGED <<vars, audio, mix, ready, applied, active, mats, pin, straddle, starts,
                   asked, left>>

See == (SeeTail \/ SeeHead) /\ UNCHANGED rig

PathNext ==
    \/ Start \/ Receive \/ ReceiveOther \/ Allocate \/ PushStep \/ Accept
    \/ DrainCheck \/ DrainRead \/ DrainApply \/ EndBlock
    \/ Build \/ Publish \/ StopDevice \/ Release \/ See

PathSpec == PathInit /\ [][PathNext]_pathVars

-----------------------------------------------------------------------------
(* Properties.                                                             *)

\* A command that the program itself hands to a running backend reaches the
\* sink as it was, but for what the dialect has no word for: no field is
\* dropped, shifted into its neighbour, clamped or turned into another command
\* by being written as a packet and read back.
WireFaithful == osc.at # "down" => EveryCommandCarried

\* The last word counts: when the ring is drained each object is routed as
\* the last accepted switch or reset said, and the decoder's type is the one
\* asked for last.  A full ring, a restart between acceptance and drain, and
\* the set-up for the next session lose none of it.
LastWordCounts ==
    Pending = <<>> =>
        /\ mix.type = asked.type
        /\ \A o \in 0 .. MaxObjects - 1 : mix.objs[o].algo = asked.algo[o]

\* No block is rendered with what another thread has not finished: an object
\* routed to WFS finds its delay lines, unless the switch was left in the
\* ring by a stop, and the matrices a block decodes with are those of one
\* build.  Between two builds the matrices in use are of the type that the
\* loop believes in.
BlockRendersWhole ==
    /\ audio = "render" /\ Handed(mix)["WFS"] # {} => ready \/ left
    /\ audio = "render" => mats[pin] # Unbuilt
    /\ main.at = "loop" => mats[active] = applied

=============================================================================
