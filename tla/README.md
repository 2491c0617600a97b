# TLA+ models of spatial_engine

spatial_engine is a real-time object-based audio renderer: a daemon receives OSC
commands, keeps a table of sound objects, renders audio blocks to loudspeakers or
headphones, and plays a show from a cue list.  Its difficult part is not the signal
processing but the traffic between its threads, which share only atomics, bounded
rings and double buffers because the audio callback may neither lock nor allocate.
The modules here model that traffic, and the few pure algorithms whose boundary cases it
depends on; TLC checks them on small instances, and TLAPS proves most of their safety
properties for every instance: of the object table's hand-over, the command ring and what
it delivers, the cue transport and the way of its frames to the table, the HRTF swap, the
scene library, the reply ring, the binaural modes, the shared-memory ring, the echo
subscribers, the plug-in and the registry of its instances, the gain cache, time code and
numbered commands.

Paths below are relative to `src/core/src/` unless they start with `src/`.

## 1. Inventory

### Threads

| thread | runs | code |
|---|---|---|
| OSC thread | decodes a datagram, queues transport and scene commands, executes the others in the sink, forwards the outbound mailbox; wakes at least every 100 ms | `ipc/OSCBackend.cpp:206-262`, `core/SpatialEngine.cpp:19-313` |
| reply drain thread | sends replies from a 16-slot ring | `ipc/OSCBackend.cpp:267` |
| control loop | about every 50 ms: applies queued commands, ticks the cue engine; every second applies pending decoder and HRTF changes, emits metrics | `bin/spatial_engine_core.cpp:660 ff.` |
| audio thread | per block: drains `cmd_fifo_`, publishes the object table, renders | `core/SpatialEngine.cpp`, `audioBlock` |

### Components

| component | state | operations | interacts with | hard | correct means |
|---|---|---|---|---|---|
| object-table snapshot | `obj_cache_`, three buffers, published and claimed index | publish after a dirty drain; `snapshotObjects` | audio thread to control loop (scene save) | two atomics without joint order, non-atomic copies | no copy races, a save is one drain's table and not stale |
| `CommandFifo` | slots, head, tail | `push`, `pop` | OSC to audio thread; both mailboxes | stale indices, int wrap-around | a bounded FIFO queue, never torn |
| `CueEngine` + `SceneCrossfade` | cue list, index, generation, baseline frame, fade clock, dwell latch | `go`, `next`, `prev`, `stop`, `tick` | loads through `SceneController`, emits into the outbound mailbox | load failures, a wall clock that jumps, a latch against late dwells | index, fade and baseline agree with what was emitted; only a justified dwell advances; fades end |
| control plane | two mailboxes, `cmd_fifo_`, drop counters | receive, forward, apply, post, drain | all threads but the reply drain | three threads, three bounded queues, split emission | the table ends as the engine believes; nothing stays in transit |
| live HRTF swap | pending path and flag, two tables, two virtual-speaker banks, last-consumed slots, block tick | select, apply, wait, load, publish, rebuild; read and report by the block | OSC thread, control loop, audio thread | reuse of a slot that may still be read, partial loads, bounded spin | no slot in use is overwritten, a whole set is live, a selection is not lost, a swap ends |
| scene library (`SceneController`, `SceneSnapshot`) | scene files, `index.json`, last loaded scene | save, load, list, rename, duplicate, delete, meta, rescan | control loop; cue engine | crash or disk-full between two writes | index and files agree; no scene is lost |
| OSC replies | 16 slots claimed by CAS, last peer | `sendReply`, drain, start, stop | OSC thread, control loop, audio thread, drain thread | several producers, slot reuse, a lost notification | each reply is sent or counted as dropped once, in the order of the claims |
| binaural demotion, mode crossfade, CPU probe | strikes, demoted flag, cooldown, requested and effective mode, ramp | timing record, reset, mode request, probe, ramp step, heartbeat | audio thread, OSC thread, control loop, host heartbeat | unsynchronised updates of several atomics | the output never jumps; a demotion is heard and reported with its own figures; the user's last request counts |
| shared-memory backend | ring, indices and consumer lock in shared memory; level `shm_producer_alive` | attach, lock, resynchronise, pump, stop; telemetry | player process, other engines | crash of any of them at any step, an overrun ring | one consumer; whole blocks in order; the player's death is told |
| EchoPlane | subscriber table, dirty bits, tokens | handshake, refresh, evict, mark, flush | OSC thread, subscribers | time-outs, a rate guard that drops | a slot each; no echo is lost silently |
| player watchdog | time of the last ping, latch, time of the last warning | ping, check | OSC thread against control loop | two pairs of non-atomic steps | a silent player is told, once per silence |
| plug-in registry | a JSON file of instances and ports | register, sweep, unregister | hosts of plug-ins, daemon | kills, reboots, reused pids, overlapping updates | what runs is listed, what does not run is not written |
| VST3 plug-in | `norm_values_` of processor and of controller, the engine's table, two rings, state files | process, setState, getState, setComponentState, OSC, reverse edits, activation, heartbeat | host threads, OSC thread, audio thread | two copies of each value, commands without an echo, versions of files and values out of range, mute and bypass | the engine follows the parameters that had the last word; the controller shows what the processor holds |
| command path: `CommandDecoder`, sink, drain, WFS storage, Ambisonic decoder | packets, `cmd_fifo_`, the desk in `obj_cache_` and channels, `ready_`, two slots of matrices | decode, encode, queue, apply, allocate, rebuild, start, stop | OSC thread, audio thread, control loop, backend | two dialects and optional numbers in a packet; storage and matrices built outside the audio thread; commands that outlive a stop | nothing is lost or changed by being written as a packet; the last accepted word counts; no block uses what is being built |
| VBAP gain cache | open-addressing table, order of insertion | lookup, insert, evict | audio thread only | eviction leaves holes in probe chains | the right gains always, hits once a scene is still |
| LTC chase | ring of samples, bit register, frame | push, take, decode | audio thread to control thread | dropped samples, switching off and on | a frame is made of bits as they came |
| per-object crossfade (Direct mode) | two convolver slots, front index, ramp, tails | set direction, render | audio thread | a fade is restarted before it ends | level kept; no jump (it is not: see `object_fade`) |
| nearest position (`KdTree3D`) | tree of positions | build, search | `HrtfLookup` on the audio thread | pruning at equal distance, fixed stack | the nearest is found |
| text of scene, cue and index files | | write, read | scene library, cue engine | no escapes, a file cut short | what is read is what was written, or a first part of it |
| StateModel | object state by sequence number, times of the last drops | `apply`, `reset` | tests; the sink (name of the data set) | loss, doubling, overtaking | the newest command is in effect, bursts are told |
| HeartbeatPublisher, HeartbeatMonitor | peers | | none: only tests construct them | | |
| renderers, DSP, reverbs, layouts, inputs, meters | mostly none shared | pure or per-thread computations | | floating point | out of TLC's reach |
| Python bridge, user interfaces, tools | | clients of the engine | | | |

`PROJECT.json` repeats the list with the status of each component, and lists under
`hazards` what in this code is hard to test, line by line, with the properties that
cover it.

## 2. Plan

| step | modules | state |
|---|---|---|
| 1 | `AtomicSnapshot`, `SnapshotBuffer` | done, proved |
| 2 | `BoundedQueue`, `CommandFifo` | done, proved |
| 3 | `CueEngine` | done, safety proved |
| 4 | `CuePlane`, extending the engine with the queues and the table | done, safety proved |
| 5 | `SofaSwap` | done, safety proved |
| 6 | `SceneLibrary`: files and index with crashes, failing writes and restart | done, proved |
| 7 | `ReplyQueue`, `ReplyRing`: CAS ring of replies, refining a queue of reservations | done, safety proved |
| 8 | `BinauralModes`: strikes, demotion, reset, mode requests, probe, crossfade, heartbeat | done, safety proved |
| 9 | `SharedRing`: shared-memory ring and its lock | done, proved |
| 10 | `PeerPlane`: echo subscribers and the player watchdog | done, proved |
| 11 | `PluginHost`, `PluginRegistry`: the plug-in and the file its instances share | done, safety proved |
| 12 | `CommandWire`, `CommandPath`: packets, sink, drain, decoder's double buffer, WFS storage | done, path and packets proved |
| 13 | `ShmTelemetry`: what a client is told of the shared ring | done |
| 14 | `GainCache`, `LtcChase`, `ObjectFade`: structures of the audio thread | done, safety proved |
| 15 | `KdTree`, `SceneText`: search and text formats | done |
| 16 | `StateModel`: numbered commands | done, proved |
| 17 | the device layer of the Dante backend, which re-prepares the engine on its own | open |

The proofs are in `AudioThreadProofs` (steps 1, 14 and 16), `CommandPathProofs` (2 and 12),
`CueEngineProofs` (3 and 4), `ControlLoopProofs` (5 and 6), `ReplyRingProofs`, `BinauralProofs`
(8 and the fade of step 14), `SharedRingProofs` and `PeerPlaneProofs` (10 and 11).

## 3. Modules

### SnapshotBuffer, AtomicSnapshot

`SnapshotBuffer` is `audioBlock`'s publish (`core/SpatialEngine.cpp:689-696`) against
`snapshotObjects` (328-373).  `wpc`/`rpc` are program counters, `wpub`, `w`, `idx`,
`out` the locals; `Drain` is a FIFO drain that popped something, `LoadPublished`,
`LoadBusy`, `CopyObject`, `Publish` follow the writer, `Call`, `Claim`, `ConfirmAgain`,
`Confirm`, `ReadObject`, `Release` the reader.  Data is the number of dirty drains a
slot has seen.  The claim is a release store followed by an acquire load of another
atomic; neither C++ nor x86 keeps that order, so stores to the claim go through
`delayed` and reach the writer at `BecomeVisible`.  `Lag` is how many publishes a claim
may miss.  The header (`core/SpatialEngine.h:426-437`) assumes that the claim is seen
"within ~1 publish cadence": `Lag = 0`.  `Lag = 1` is the "pathological" claim that stays
unseen for two consecutive dirty blocks, which the header admits as a hole: there the
race exists.

`AtomicSnapshot` is the promise: the table is replaced in one step and a call returns
one table that was current between call and return.

### CommandFifo, BoundedQueue

`push` and `pop` (`util/CommandFifo.h:58-75`) step by step.  `seenTail` and `seenHead`
are what the next acquire load returns.  Indices are ints of `Width` values.
`BoundedQueue` is what the two sides may rely on; a rejection needs only that the
producer *knows* of no room.

### CueEngine

The engine is the record `eng`, its methods operators on it: `Go`, `GoNext`, `GoPrev`,
`Freeze` (stop) and `StepFade`, `AutoAdvance` (the halves of `tick`), over `Start`,
`Advance`, `Blend` of `SceneCrossfade`.  An iteration of the loop is `Wake` (read the
clock), any number of commands, `Tick`.  A scene load succeeds or fails freely; the
clock stands still, jumps or is set back.  Conversions are kept: milliseconds to samples
with truncation, and the cast to `int`, undefined beyond `IntMax`.

### CuePlane

Extends `CueEngine` and adds the OSC thread (`Receive`, `ReceiveNothing`,
`Forward`, `ForwardDone`), the mailboxes, the sink and the audio thread's drain.  An
emission is posted command by command (`Post`): `toPost` is what the scan of `emitObject` has
left of the frame, object by object, `part` where it is within an object.  Two of the six commands of
`emitObject` are modelled, the two that interfere: `ObjMove` also sets `active`.
The three queues are the atomic queues that `CommandFifo` implements.  `touched` are
the objects commanded directly since the last emission; about these the engine knows
nothing, by design.

### SofaSwap

The OSC thread assigns the path and raises the flag (`core/SpatialEngine.cpp:199-214`);
the control loop takes it (1159-1171), waits (`output_backend/BinauralMonitor.cpp:389-430`),
loads (`hrtf/HrtfLookup.h:88-95`, `hrtf/SofaBinReader.cpp`), publishes and rebuilds the
bank; a block reads any sequence of table slots and at most one bank, then reports.
A copy of the path during its assignment is a data race and may yield anything
(`Garbage`).  A slot's content is the path it was loaded from, or `Partial`.
At this commit nothing in the daemon fills `hrtf_catalog_`, so there a selection
resolves to nothing; `Catalog` stands for a loaded catalogue.

### SceneLibrary

The directory is `disk`, a content per file; `index` is `index_.scenes`; `pc` is where
the control loop stands.  `SaveOpen` and `SaveWrite` are `saveToDisk` and the rest of
`SceneSave` (`SaveRecorded` decides whether the index changes), `Rename`,
`DuplicateOpen`/`DuplicateWrite`, `Delete` and `SetMeta` the library operations, each
followed by `IndexOpen` and `IndexWrite` (`persistIndex`).  A file is torn from its
opening to its write.  Writes fail (`SaveFails`, noticed or not, `DuplicateFails`,
`IndexFails`, a file that cannot be removed), and `Crash` may hit between any two steps.
`RestartFromIndex` and `RestartFromFiles` are the constructor's two ways.  `ReadBack` is
what the parser makes of a note with a closing brace: nothing.  A torn index is taken not
to parse; the parser asks that the file end in `]}`, which a cut-off index does only if a
note contains that text.  `diverged` is a history
variable: a write failed or was cut short since the last rescan; `IndexAgrees` (the index in
memory, the index on disk and the files) holds while it is false, `NothingLost` always.

### ReplyRing, ReplyQueue

`sendReply` (`ipc/OSCBackend.cpp:496-548`) step by step: load the head, compare it with
the tail, compare-and-swap, fill the slot, raise its flag, notify.  The drain thread
looks, sleeps, wakes by a notification, by its one-second limit or not at all, sends and
frees; `Stop` and `Start` are the object's.  A notification given between the drain
thread's look and its wait is lost, since it is given without the mutex.  `ReplyQueue` is
the promise: a sender reserves the last place, fills it later, and places leave from the
front.  `moved` counts how far the ring went while a sender stood between load and swap;
`MayLap = FALSE` excludes a whole turn.  `Send` has the two ways of `outboundDrainLoop`:
`HandOver` gives the slot to the socket and passes an empty one over, `NoSocket` is the end of
the loop after `stop()` has closed the socket and no other is to be had, where a drop is counted
whatever the slot holds.  The sender of an empty slot has counted it already: `doubled` keeps the
number of these, and `CountedOnce` says that calls and `doubled` together are what is under
way, sent and dropped.

### BinauralModes

The shared flags of `BinauralMonitor` one atomic access per step:
`setRequestedMode`, `runThroughputProbe`, the sink's enable, the user's reset and its clear,
`recordB2BlockTiming` with its strikes on the audio thread, the clear after an HRTF swap on
the control loop, the plug-in's heartbeat, which `setActive` starts and stops and which
drains the warnings, and the crossfade of two blocks with its re-arming, unheard while
binaural is disabled.  `level` is what
was heard at the end of the last block; `asked`, `told` and `lifted` are histories that
the properties need.  `Prompt` says that a control-side clear does not stay between its two stores
while the audio thread demotes again.

### PluginHost

The host automates (`todo`, `batch`), loads, saves, activates and mutes; `process()` takes
the OSC ring (`BeginBlock`), goes parameter by parameter
(`src/vst3/SpatialEngineProcessor.cpp:785 ff.`) pushing to the engine's FIFO (`StoreChange`,
`DispatchChange`), and, unless it is muted or bypassed (`Render`), has the engine pop the commands
one by one (`DrainCommand`, `EndBlock`); the OSC receiver echoes to the controller by the reverse
path (`src/vst3/SpatialEngineController.cpp:706 ff.`).  Values are counted in halves of the range 0 to 2;
-1 and 3 stand for what lies outside.

A command carries the tag by which `audioCommandToParamEdit` decides on its echo
(`src/vst3/SpatialEnginePluginUdp.cpp:170-229`): `EditsOf` echoes `ObjMove`, `ObjGain`, `ObjWidth`,
`SysAmbiOrder` and `ObjMute`, each value brought into range, and nothing else.  A position in space
(`ObjXYZ`) and a width sent as `ObjDsp` reach the engine and never the parameters.  `known` are the
fields of object 0 of which the parameters had the last word: a dispatch puts its fields in,
a block that takes over a command without echo takes them out (`Unechoed`), and `EngineFollows` is about
the fields in `known`.  What such a command leaves is listed in section 6.

State files carry a version, may end early and may hold values out of range (`Damage`).  The processor
and the controller each parse them: both read the same fields and the same defaults for old versions
(`CoreOf`), the processor stores and dispatches the values as they stand, the controller brings each
into range (`SetComponentState`, `Clamped`).  So `ControllerAgrees` compares the controller's value
with the processor's brought into range, and `ReloadKeeps` says that a file comes back from a save as it
was, values out of range included.  `Sounds` is what the engine makes of a value: silence for a
gain below the range (`gainNormToLinear`), the nearest of the three for the order, any other as it is.

### SharedRing

Each engine's `start()` reads header and indices, checks geometry, takes the lock with a
compare-and-swap, takes it over from a holder whose process is gone, resynchronises an
overrun ring; the worker copies whole player blocks into whole engine blocks and stores
the read index; the player writes frame by frame and may die; an engine may die at any
step.  Frames are numbered, which is how `FramesInOrder` can see a tear or a repetition.

### PluginRegistry

An instance binds a port, reads the file, sweeps entries whose process does not exist
(pid, start time and boot must agree), locks the file it opened, writes a new one and
renames it; so does one that stops.  Process ids are few and come again, a reboot resets
start times, a host is killed with its instances at any step, writes fail.  `raced`
records that two updates have overlapped: the list is read before the lock is taken, and
the lock is on a file that the rename replaces, so that it protects nothing then.

### PeerPlane

`EchoPlane::addSubscriber`, `touchSubscriberHb`, `evictStale`, the marks, `flush` and
`allowSend` (`ipc/EchoSubscriber.cpp`, `.h`), as the OSC thread calls them; the watchdog's
check (`core/SpatialEngine.cpp:1205-1234`) is two steps of the control loop, a ping two
steps of the OSC thread.  Time is counted in seconds; a time-out of `Ttl` stands for 30 of
them.

### CommandWire, CommandPath

`CommandWire` is `CommandDecoder`: `Decode` of a packet (address, type tags, values),
`Encode` of a command in one of the two dialects, each with the cases the code
distinguishes: the prefix of sequence number and id, numbers inside an address, defaults
for what is missing, conversions of angle and distance, limits of names.  `AllCommands` is a
list of commands with all kinds and boundary values; `EveryCommandCarried` compares
what is read back with `Carried`, what the dialect can say.

`CommandPath` extends it and `CommandFifo`: `Receive`, `Allocate`, `PushStep`, `Accept` are
the sink (`core/SpatialEngine.cpp:19-313`), `DrainCheck`, `DrainRead`, `DrainApply`,
`EndBlock` the audio thread (537-672), `Build` and `Publish` the control loop's rebuild of
the decoder, `Start`, `StopDevice`, `Release` the backend with `prepareToPlay` and
`releaseResources`.  `mix` is what the audio thread has been told (objects, channels,
transport, reverb, order and type of the decoder); `pin` is the slot a block decodes with.
`asked` is a history of what clients asked for; `left` says that a stop left a switch to WFS
in the ring.  The decoder's double buffer asks nobody whether the slot it builds in is
still read: `Cadence` states that a block is shorter than the second between two rebuilds.

### GainCache, LtcChase, StateModel, MCAudioThread

`GainCache` is the lookup of `render/VBAPRenderer.cpp`: `Probe`, `Stops`, `Found` are the
search, `Hit`, `Miss`, `Evicted` its outcomes.  Gains are the key they were computed for, so
that `GainsOfTheBin` can compare.  Only the low bits of the hash count, so the home slot is
the width's bin: keys collide.

`LtcChase` is `push` and `pop` of `util/SpscRing.h` step by step, `pushSamples`, and the
register of `sync/LTCDecoder.cpp`.  A sample is a bit and its place on the line; the sync
word is recognised by its place.  `TimecodeTrue`: a frame that is believed consists of
the bits of one frame as they came, unless samples were missing inside it.

`StateModel` is `ipc/StateModel.cpp`: `Arrive` delivers any command of `Stream` at any time,
so that commands get lost, doubled and overtaken.  A field holds the number of the command
that set it.  `heard` and `lateAt` are histories from which the properties say what should
be in effect and which drops should have raised the alert.

The three and `SnapshotBuffer` share no state.  `MCAudioThread` runs them in one run with a
variable `focus`: each behaviour exercises one, the others rest, so that the states add up
and do not multiply.  `MCBinaural`, `MCPlugin`, `MCSharedMemory` and `MCSceneLibrary` do the
same for the modules of their part of the system.

### ObjectFade

`setDirection` and `render` of one object in Direct mode
(`output_backend/BinauralMonitor.cpp:100-260`): the slot in front, the one that fades out,
their gains in quarters at the boundaries of blocks, and the tail that a convolver keeps of
what it rendered last (`hrtf/OlaConvolver.cpp`).  `ended` is what was heard at the end of
the last block.

### ShmTelemetry

One pass a second of the control loop: `poll_diagnostics` of `audio_io/SharedRingBackend.cpp`
and `tick` of `bin/ShmTelemetryEmitter.h`, against a player that writes, is late, dies and
comes back, a worker that counts underruns and overruns, and a client that is heard at last.
Of a counter it is kept whether it is above the value last reported.

### KdTree

`hrtf/KdTree3D.cpp`: `build` as a recursive operator, `nearest` one visited node per step, with
its stack, over points with small integer coordinates.  `NearestFound` compares the result
with the minimum over all positions.

### SceneText

What `ipc/SceneSnapshot.cpp`, `ipc/SceneController.cpp` and `scene/CueList.cpp` write and
read, as sequences of tokens: `SaveToDisk` writes a document, `CutShort` leaves a beginning
of the text, `LoadFromDisk` reads it the way the code does, by keys, the first closing
brace and the next quote; `Recall` makes a scene that was read the one that is saved next,
which shows whether values drift.  `TextFaithful`
says what must come back, and what a brace in a name or note costs.

## 4. Runs

| run | module | shows | bounds |
|---|---|---|---|
| `audio_thread` | `MCAudioThread` | consistent and fresh snapshots without a race, refinement of `AtomicSnapshot`; right gains and a cache that settles; true time codes; the newest command wins and bursts are told | 2 objects (a copy can tear), 5 dirty drains (every buffer is reused while claimed), 2 claims on their way; 4 cache slots, 6 bins of which 3 share a home slot, 5 moves; a ring of 3 samples, frames of 3 bits, 10 samples; 7 arrivals out of 9 numbers, a window of 4 times, a burst of 3 |
| `command_path` | `MCCommandPath` | the ring implements `BoundedQueue` whatever stale index each side sees; the last word counts; blocks render whole; commands survive the wire | 2 slots, 8 int values (indices wrap several times); 6 packets (WFS switch, reset, decoder types in and out of range, one that is not queued, one that does not parse), 2 starts; all kinds of command in both dialects |
| `cue_engine` | `MCCueEngine` | `Coherent` (index and target, baseline and output), justified advance, dwell ends | three lists (empty; fade, fade, snap; snap, fade), 2 objects, 1.5 samples per ms (truncation), `IntMax` 3 (a jump of 3 ms overflows), time to 10 ms, one step back, 3 commands |
| `cue_plane` | `MCCuePlane` | the table follows the engine; nothing stays in transit | queues of 4 (an emission fills one), 2 packets, 2 objects, 3 ms |
| `sofa_swap` | `SofaSwap` | a whole set is live and no slot in use is overwritten; selection taken; swap ends | 2 data sets, 2 selections (each with its swap back: four swaps in a row), up to 2 objects per block, one device stop, `Patience` 2 |
| `scene_library` | `MCSceneLibrary` | index, its file and the scenes agree; no scene lost; texts are read as written | 2 names (a rename or copy needs a second), 2 saves (a new scene and a saved one), notes with and without a brace, 1 failing write, 2 crashes (one may hit the recovery from the other), any files and a torn or no index at first; documents of up to two objects, cues or entries with odd names, every cut |
| `reply_ring` | `ReplyRing` | each reply is sent or counted once; the ring implements `ReplyQueue`; what was claimed leaves although a notification is lost | 2 senders, 3 slots (two usable) and 4 replies (more than once around), one stop and restart, during which there may be no socket |
| `binaural` | `MCBinaural` | no jump between modes, warnings kept and with the figures of their event, the last request counts, a demotion is heard; an object keeps its level; the nearest position is found | one commanding thread beside audio thread, control loop and heartbeat; 2 strikes, a crossfade of 2 blocks as in the code, 4 operations (demote, reset, demote again, request); 3 directions, 6 blocks; trees of up to 7 positions (three levels, coinciding points), 36 queries, a stack of 3 |
| `object_fade` | `ObjectFade` | expected to fail: an object's fade is not continuous | 3 directions, 6 blocks |
| `plugin` | `MCPlugin` | the engine follows the parameters that had the last word, the controller shows the processor's values brought into range, files come back; a parameter is heard; what runs is listed, only what runs is written | one coordinate and mute automated, commands of four kinds (`Tags`: a move with its echo, a position without one and a width without one, mute), files whole, cut off or with three values too low or too high (`Damage`), 2 objects, a FIFO of 6 (a whole state does not fit), rings of 2, 2 operations of the host or OSC; 3 instances in 2 hosts, 1 port in the range (the second and third fall back), 2 pids, 2 launches, 2 boots, 3 starts |
| `shared_memory` | `MCSharedMemory` | one consumer, whole blocks in order, underruns and death told | 3 engines, an earlier one that may have died with the lock, player blocks of 2 and engine blocks of 4 frames, 4 player blocks (the ring is overrun), regions new, left behind, overrun and corrupt, six geometries; warnings every second pass, 3 blocks |
| `peer_plane` | `MCPeerPlane` | one slot each and no silent gap, a silent player told, a pinging subscriber stays | 2 peers at one address for 2 slots, 2 dirty bits, 1 echo per second, 2 messages per second, time-outs of 1 s, warning interval 2 s |

`Tags` has one of each shape of command: several fields with an echo and without, one field without an
echo, a switch with its echo on another parameter.  A gain, a width as `ObjWidth` and an order differ
from a move only in that they carry one field; the theorem is for any `Tags` and any `Damage`.

The third engine of `shared_memory` is there for the take-over of the lock: two rivals that
have both seen the same dead holder need a third that has come and gone in between.

Deadlock is checked in every run but `reply_ring`, `plugin`, `shared_memory` and
`peer_plane`: there everything may have stopped, or the bounds are used up.

**Fairness.**  The control loop keeps running (it is a `while` with a sleep); the OSC
thread returns from `recvfrom` after 100 ms; a running device keeps calling for blocks and
a block ends.  In `CueEngine` the wall clock may show the same millisecond any number of
times and may be set back, but infinitely often it advances (strong fairness).  In
`SofaSwap` the spin budget is finite: if it can run out again and again it does (strong
fairness on `GiveUp`); the device need not be restarted.  In `ReplyRing` the drain thread
keeps running and its wait ends after a second; senders finish their calls.  In
`BinauralModes` blocks keep coming and the control loop finishes a clear.  In `PluginHost`
the host keeps calling `process()` and a `setState` ends.  In `ShmTelemetry` the loop keeps
passing.  In `GainCache` blocks keep looking up.  `SnapshotBuffer`, `CommandPath`,
`SharedRing`, `SceneLibrary`, `PluginRegistry`, `PeerPlane`, `StateModel`, `ObjectFade` and
`KdTree` are checked for safety only and assume none; `LtcChase` could not, since no program
of the repository calls the reading side.

**What the constants leave out.**  Some settings exclude a hazard the code really has.
They are constants, so that a reader can let TLC show it:

| constant | the run's value | with the other value |
|---|---|---|
| `Lag` of `SnapshotBuffer` | 0 | 1: `ConsistentSnapshot` fails by a race, the claim stays unseen for two dirty blocks |
| `MayLap` of `ReplyRing` | `FALSE` | `CountedOnce` fails: the swap succeeds on a head that went once around |
| `Users` of `BinauralModes` | `{osc}` | `{osc, ui}`: `RequestHonoured` fails, two threads set requested and effective mode in opposite orders |
| `Cadence` of `CommandPath` | `TRUE` | `FALSE`: `BlockRendersWhole` fails, the decoder is rebuilt in the slot a block still decodes with |
| `Prompt` of `BinauralModes` | `TRUE` | `FALSE`: `DemotionTold` fails, a clear wipes the warning of a later demotion |
| `LoadsWhileAudio` of `PluginHost` | `FALSE` | `TRUE`: `EngineFollows` fails, `setState` and `process()` both push to `cmd_fifo_` |
| `MayStall` of `SharedRing` | `FALSE` | `TRUE`: `FramesInOrder` fails, `start()` uses indices read before it had the lock |
| `IndexName` in `Arguments` of `SceneLibrary` | left out | `IndexAgrees` fails, a scene named `index` replaces `index.json` |

`RegistryTrue` has such a premise in its statement (`raced`), `IndexAgrees` too
(`diverged`), `TableFollowsEngine` excepts dropped commands, `BlockRendersWhole` the block
after a switch to WFS that a stop left in the ring (`left`).

**The bounds on behaviour.**  `MaxVersion`, `MaxTime`, `MaxStepsBack`, `MaxGeneration`,
`MaxPackets`, `MaxSelects`, `MaxStops`, `MaxSaves`, `MaxFaults`, `MaxCrashes`,
`MaxReplies`, `MaxOps`, `MaxFrames`, `MaxLaunches`, `MaxBoots`, `MaxStarts`, `MaxBurst`,
`MaxMoves`, `MaxSamples`, `MaxBlocks`, `MaxArrivals`, `MaxClock` and `StoreDepth` bound
counters and are conjuncts of guards; liveness properties say where a bound rather than the code ends a behaviour.

## 5. Proofs

The proofs hold for every value of the constants that satisfies the assumptions named in
the module that declares them.  Where a theorem has a hypothesis of its own, the
hypothesis is the setting under which the run checks the property; the table in section 4
says what fails without it.  The argument is an inductive invariant, checked by TLC before it
was proved, with a lemma per action; packets have no state, only cases.

| theorem | states | hypothesis |
|---|---|---|
| `AudioThreadProofs!TypeCorrect` | types of the hand-over | none |
| `AudioThreadProofs!HandOverInvariant`, `SnapshotsConsistent`, `Refinement` | `HandOver`, `ConsistentSnapshot`, `ImplementsAtomicSnapshot` | `Lag = 0` |
| `AudioThreadProofs!NewestInEffect`, `BurstsAlwaysTold` | `NewestWins`, `BurstTold` | none |
| `AudioThreadProofs!TimecodeAlwaysTrue` | `TimecodeTrue` | none |
| `AudioThreadProofs!CacheAlwaysSound` | `CacheSound`, the safety half of `CacheServes` | none |
| `CommandPathProofs!FifoTypeCorrect`, `FifoImplementsQueue`, `PathImplementsQueue` | types of the ring, `ImplementsQueue` of the ring alone and in the engine | none |
| `CommandPathProofs!LastWordAlwaysCounts` | `LastWordCounts` | none |
| `CommandPathProofs!BlockAlwaysRendersWhole` | `BlockRendersWhole` | `Cadence` |
| `CommandPathProofs!WellFormedCarried`, `WireAlwaysFaithful` | every command with any values in its fields; `WireFaithful` | fields of their types, for ADM angles and distances its units carry; none |
| `CueEngineProofs!AlwaysCoherent`, `AdvanceAlwaysJustified` | `Coherent`, `AutoAdvanceJustified` | none |
| `CueEngineProofs!PlaneDrivesEngine`, `TableAlwaysFollows` | the plane implements the engine's specification; `TableFollowsEngine` | none |
| `ControlLoopProofs!TypeCorrect`, `LiveSetAlwaysWhole` | types; `LiveSetWhole` | none; `Patience >= 1` |
| `ControlLoopProofs!LibraryAlwaysAgrees`, `NothingEverLost` | `IndexAgrees`, `NothingLost` | `IndexName \notin Arguments` |
| `ReplyRingProofs!AlwaysCountedOnce`, `ImplementsReplies` | `CountedOnce`, `ImplementsReplyQueue` | `~MayLap` |
| `BinauralProofs!NeverJumps`, `LevelAlwaysKept` | `NoJump`, `LevelKept` | none |
| `BinauralProofs!RequestAlwaysHonoured`, `DemotionAlwaysTold` | `RequestHonoured`, `DemotionTold` | `Alone` (at most one thread commands); `Prompt` |
| `SharedRingProofs!LockAlwaysTrue`, `FramesAlwaysInOrder` | `LockTrue`, `FramesInOrder` | none; `~MayStall` |
| `PeerPlaneProofs!StaleAlwaysTold`, `GapNeverSilent`, `PingingAlwaysStays` | `StaleTold`, `NoSilentGap`, `PingingStays` | none |
| `PeerPlaneProofs!RegistryAlwaysTrue` | `RegistryTrue` | none |
| `PeerPlaneProofs!EngineAlwaysFollows`, `FilesAlwaysAgree` | `EngineFollows`, `FilesAgree` | `~LoadsWhileAudio` |

**Object table.**  `TypeCorrect` rests on `FreeBufferExists`: of three buffers two are
forbidden, so the writer's search ends inside the array.  `NoDataRace` alone is not
inductive: one needs to know that the published buffer holds one drain (`PublishedTable`),
that the writer stays away from it (`WriterAway`), that the reader's newest claim is the
one it relies on and that the claimed buffer is still published as long as no publish has
passed the claim (`ClaimStands`), and that what has been read is one drain (`ReadTable`).
The case that uses `Lag = 0` is `LoadBusy`: every claim older than the current publish is
visible, so either the writer sees the claim or the claimed buffer is the published one;
it avoids both.  In `Refinement`, `Publish` is the replacement of the table and `Confirm` the
instant the call takes its value.

**Numbered commands.**  `NewestWins` speaks of histories and fields; `Watermark` adds what the code
decides by: an entry is valid exactly if something has arrived for it, and its number is
the largest of what has.  `BurstTold` compares a count over the whole history with one over
a ring of `WINDOW_SIZE` times.  `WindowTrue` says that the ring holds the last times, in
order; `RingCounts` is the combinatorial core: the recent drops are a final segment of the
history, so either all of them are still in the ring, and correspond to places of it one to
one, or the ring is full of them, and both counts are a burst.

**Time code.**  `RingTrue` relates the stale views of both sides to the indices by distances
round the ring, and `Chained` says of the register, the ring and the line together that from
one bit to the next only missed samples lie between.

**Gain cache.**  A search ends because the order names the slots in use, each once
(`OrderTrue`), and is shorter than the table, so that some slot is empty, which the probes
reach.  A hole left by an eviction may hide an entry from its search; it is then stored a second
time, and a hit is still an entry for the key looked up.

**Command ring.**  Indices are compared only as `Span`s modulo the width of an int, so the
wrap after 2^31 pushes is covered, for every ring size that divides the width.  `StepsTrue` says
that neither view is ahead of the truth, so that a slot is written only when it is free and
read only when it is full.  The whole path implements the queue because each of its steps is a
step of the ring or leaves it alone.

**Last word.**  `LastWordInv` says that acting upon everything that waits would take each
part (an object's route, the decoder's type) from what is in effect to what was asked for.
A publish appends to what waits and to what was asked; an application takes the first off and acts on it.

**Whole blocks.**  `WfsTrue`: without storage nothing is routed to WFS, nothing that says so waits,
and the sink, which allocates before it pushes, is not about to add it, unless a stop left
it.  `RigTrue`: from a start on the active matrices are whole and of the type the loop believes
in, and a running block decodes with them unless a publish came in between, for which the next
build waits under `Cadence`.

**Packets.**  `ArgumentsTaken` says what the parser makes of the arguments of a packet: those of one type,
wherever they stand, in their order.  Hence the two leading ints of the legacy dialect are the
numbers and `GetInt` counts from behind them (`PrefixedReads`), while the ADM dialect shifts nothing (`AdmReads`).
`ComesBack` reduces a command to what its address makes of its arguments, which is then settled family
by family; no two families have a tag or an address in common.  `WellFormedCarried` covers any
number, length of text and flag of the payload's types, where the run lists a few; `OnGrid` keeps to angles and
distances that survive a division by the model's units, since the rounding of floats is not modelled.

**Cues.**  A method of the engine is a sequence of changes to one record, so the invariant
`Sound` is stated of a record together with the frame emitted last: types, `Tracks` (index, target,
progress, baseline and output agree) and `Latched` (the dwell latch is set only for the current
cue, at its deadline).  Each change is shown to keep it, for truncating conversions and the
undefined cast as well; the clock may do anything.

**The cues' way to the table.**  Each step of the plane is a step of the engine or leaves it alone
(`PlaneStepIsEngineStep`), so that `Sound` holds in the plane.  `TableTrue` says, per object and
separately of its position and of its flag, that unless the scan has yet to emit a command for
it (`MoveDue`, `ActiveDue`) the last such command on its way, or without one the table, has the value
sent last.  The two are separate because a move sets the flag too: between the two commands of an object
its flag is wrong in the table and the command that sets it right is due or on its way.

**HRTF swap.**  Once the control loop has seen a block end since the last publish
(`TableFree`, `VsFree`), the audio thread reads only active slots (`ReadsActive`), and
`SlotsTrue` says what each slot holds at each point of a swap.  With `Patience = 0`, a spin that
gives up before any block has ended, TLC finds a slot overwritten in use.

**Scene library.**  `IndexAgrees` speaks of the moments between two commands.  `IndexFollows` says what holds
within one: while a scene or a copy is being written the index names all the others, from there to the
write of `index.json` memory and directory agree and the file is behind, and when the process is
down a file that parses names the scenes.  `Writing` says that the file being written is torn already,
so that writing it costs no scene, and that a copy reads another one.

**Replies.**  `RingInv`: the age that a sender has counted for its copy of the head is the
distance to the head, so that under `~MayLap` a swap that succeeds has compared the right lap
(`ClaimsTrue`); the slots from tail to head are ready or held by exactly one sender, and no
other is either (`SlotsTrue`).  `CountedOnce` follows by counting slots and then mapping places of the
queue to slots one to one (`QueueCounts`).  In the refinement a successful swap is the reservation,
raising the flag fills the place, and the drain thread's clearing of the flag lets it go; `Joined`
is needed because a start would otherwise forget a slot that was cleared and not yet passed.
The invariant of the counters has `doubled` beside the calls, since the step without a socket adds a drop to
an empty slot that already counts as one.

**Binaural.**  `MixInv` ties the level heard last to the start of the next block through the phases of a
ramp; `RequestInv` says what is left to do of the operation the one commanding thread is in;
`ToldInv` what a demotion has stored that nobody has yet taken away; `FadeInv` that a fade has just begun
while a block is rendered and is half over between blocks.

**Shared memory.**  `LockInv`: the lock word names an engine exactly while it is past the gate or
crashed there.  `FrameInv` adds that the ring holds the frame whose turn it is wherever the writer
has not passed (`RingTrue`), that an engine about to become the consumer begins with the
right index (`SeedTrue`), and where the consumer stands (`PumpTrue`); a region that gate 4 refuses never
has a consumer.

**Peers.**  `TableInv`: types, a slot each, the time kept for a subscriber is that since its address was
heard (`QuietTrue`), and what it lacks it has been told of or will be (`GapTold`).  `WatchInv` says how old
a warning may be once the check of a second is over.

**Registry.**  `Apart`, as long as no two updates have overlapped: processes that run differ in process
id and start time, entries of instances that run in port and, within a process, in id.  `Faithful` says
of a list of entries, the file's and the one an update is going to write, that none is of a
time to come, that one whose process is alive is of an instance that is known, that no port is there twice
and that whoever runs is there.  A process id that comes again cannot bring an old entry to
life, because the start time of the new process is later than all in the list and a reboot makes
their boot an earlier one; taking an entry out by id and process id removes no other, because only one
process that runs has the id.  The port of a start is free because there are more to try than sockets.

**Plug-in.**  A parameter that has been changed is `Awaited`, that is, its change waits in the reverse edits, the
host's queue, the block that runs or the load, or it is `Settled`: the last command in the FIFO that sets its
field of object 0 has what the parameter's value sounds as, or there is none and the engine has it.  The commands of
OSC break this when a block takes them over, unless the host plays their edits back: hence the rest of `EngineInv`,
that each command in the ring that sets a parameter of object 0 has its edit waiting or has none at all, in which case
its fields leave `known` with the block (`EditsType` shows that there is no third kind).  A move for one coordinate carries the
other from `norm_values_`, so it settles that too, which is why `Phases` asks that a parameter be stored before it
is dispatched.  With `LoadsWhileAudio` a block comes between store and dispatch and the commands arrive in the
opposite order.  `ControllerInv` and `ReloadInv` say of each parameter which of its waiting values is the one the
controller, brought into range, or the file, has.

Only model-checked: all liveness (`SceneSettles` of `CacheServes`, `Delivered`,
`DwellEnds`, `Settles`, `SelectionTaken`, `SwapEnds`, `DemotionHeard`, `Heard`, `TroubleTold`), for which
it lacks `ENABLED`; `NearestFound` and `TextFaithful`, whose modules declare recursive operators;
`TransitionsContinuous`, which is false.

## 6. Where code and documents disagree

One run expects a violation.  `object_fade` shows that the fade of an object in Direct mode
is not continuous: `core/SpatialEngine.cpp:1003` sets the direction of every sounding object
in every block, so the fade over two blocks is restarted half-way and the slot that is
still heard is loaded anew.  `src/core/tests/core_unit/test_p_binaural_chained_crossfade.cpp:3-6`
says that chained transitions stay C0-continuous, and
`src/.omc/plans/spatial-engine-v2-architect-r2-amendments.md:362-373` that the old slot fades
out "without being reclaimed".  A slot that was cut off also keeps its tail and replays it when
the object sounds again.

What follows was met while modelling too; the properties are stated so that they hold of the
code as it is.

Cues, scenes, HRTF:

* A `go` during a fade starts from the scene before it, not from what is heard
  (`scene/CueEngine.cpp:168`; the plan, `src/.omc/plans/spatial-engine-v0.9-laneE-scene-cue.md:211`, wants the latter).
* A listed-but-muted object can sound for a block, because `ObjMove` activates it and the
  `ObjActive` that follows may be drained a block later.
* A dropped final or snap frame is not emitted again.
* A selected data set is replaced by the start-up one within the same call
  (`core/SpatialEngine.cpp:1170`), although the changelog (`src/CHANGELOG.md:58`) describes selection as live.
* The spin bound of the swap counts rounds, not time; it is reached with a running audio thread.
* After a crash inside `rename` the index stays at odds with the scene files: the
  constructor believes an index that parses.
* `src/docs/SCENE_AND_CUE_WORKFLOW.md:145` says `/cue/stop` leaves the crossfade intact;
  `CueEngine::stop` freezes it, as its header says.
* `pending_binaural_sofa_path_` is described as one thread's (`core/SpatialEngine.h:539-543`)
  but is assigned on the OSC thread and copied by the control loop.
* `HrtfLookup.h:60-61` says the active slot is loaded once per block; `setDirection`
  loads it per object.
* `SpatialEngine.cpp:341-343` calls the confirmed read race-free outright; the note at
  `SpatialEngine.h:426-437` rightly says that this rests on when the claim is seen.
* `src/docs/SCENE_AND_CUE_WORKFLOW.md:38-41` says every mutating operation writes the index
  and returns `false` if that fails; saving an existing scene does not write it, and every
  caller ignores the result of `persistIndex`.
* The name `index` is accepted for a scene; saving it twice replaces `index.json`.  With
  `IndexName` among `Arguments` TLC finds `IndexAgrees` violated; the runs leave it out.
* The guide says of both rings that a full one counts its drops; the push to `cmd_fifo_`
  (`core/SpatialEngine.cpp:300`) ignores its result.
* A scene's name may hold `}` or `"` (`isSafeSceneName` refuses only `/`, `\`, `.` and NUL).
  Such a scene is gone from the index after a restart, since the index parses and nothing is
  rescanned, a cue that names it is dropped, and a name with a quote is read up to the quote.
* A scene file cut short loads as a shorter scene without an error; numbers keep six digits.

Commands and rendering:

* `/obj/dsp ,iif`, `/obj/active ,ii`, `/obj/algo ,ii` and `/sys/handshake ,ii`, documented in
  `ipc/Command.h` without the prefix, are read as sequence number and id (`ipc/CommandDecoder.cpp:293`).
* A switch to WFS that a stop leaves in the ring renders the object silent until it is switched
  again: `prepareToPlay` has released the storage, although its comment
  (`core/SpatialEngine.cpp:399-404`) calls itself the safety net.
* `/sys/algo_swap` is decoded and dropped by the sink.
* The Dante backend calls `releaseResources` twice when it stops, and re-prepares the engine
  when the device restarts, beside the control loop.
* The override of the reply port lasts until the next datagram, which replaces the peer's
  whole address (`ipc/OSCBackend.cpp:231-236, 357-369`).
* A hole left by the cache's eviction hides younger entries of that width, which are stored a
  second time; a miss probes the whole chain.
* Once the LTC chase is switched on nobody calls `updateLtcChase()` (`core/SpatialEngine.h:286`):
  the ring fills in 1.36 s and drops for ever.
* `StateModel` keeps one number per object for all kinds of command: a move that a later gain
  overtakes is dropped although nothing has replaced it; a client that starts again at one
  is not heard until a reset.

Replies, modes, plug-in:

* `sendReply`'s swap compares an index only: a sender that stalls while the ring goes
  round may claim a slot past an unread tail.
* A reply that did not encode is counted by its sender (`ipc/OSCBackend.cpp:545`) and left as an empty slot; if
  the drain thread gets to it after `stop()` has closed the socket and cannot open another, it counts the
  same reply again (`:819-821`, against the comment at `:815-817`).  Sent and dropped replies are then more than calls, where
  `src/core/tests/core_unit/test_osc_outbound_multi_producer.cpp:11-12` asks for "exactly, no double-counted".
* `setRequestedMode` stores requested then effective mode; two calling threads can leave the older request effective.
* `output_backend/BinauralMonitor.h:699-700` calls a demotion sticky; a swap, a reset and a mode request end it.
* `norm_values_` of the processor starts at zero (`src/vst3/SpatialEngineProcessor.hpp:137`), the
  controller at the defaults (`src/vst3/SpatialEngineController.cpp:92`): the first move of one
  coordinate sends zero for the other.
* `setState` pushes to `cmd_fifo_` from the host's thread, beside the audio callback (`src/vst3/SpatialEngineProcessor.cpp:424`).
* The reverse path ignores the object's number, and `drainParamEdits` tells the host but never sets the controller's own values.
* `ObjXYZ` and the width of `ObjDsp` are dispatched to the engine (`src/vst3/SpatialEngineProcessor.cpp:842-845`,
  `:866-869`, `core/SpatialEngine.cpp:635`, `:646-660`) and have no echo (`src/vst3/SpatialEnginePluginUdp.cpp:226`):
  the object is then elsewhere than host, controller and saved project say, until the parameter is next
  dispatched; and since a move of one coordinate takes the other from `norm_values_`, turning one knob throws
  the other coordinate back.
* A value out of range in a project is shown as the nearest in range by the controller
  (`src/vst3/SpatialEngineController.cpp:387-388`, `:422-423`, `:439-440`, `:455-456`), while the processor
  keeps, dispatches and saves it as it stands (`src/vst3/SpatialEngineProcessor.cpp:432`, `:500`, `:518`, `:539`):
  what is heard is not what is shown.
* In the plug-in an `ObjAlgo` is dispatched on the audio thread (`src/vst3/SpatialEngineProcessor.cpp:834`), where
  WFS allocates although `core/SpatialEngine.cpp:58-64` says this runs on a non-RT thread.
* The plug-in applies a pending decoder type only through `prepareToPlay`: a decoder type waits for the next set-up.

Shared memory, registry, peers:

* `shm_attached_no_data` is never emitted: `poll_diagnostics` counts before the telemetry takes its
  first values (`bin/spatial_engine_core.cpp:750-751`, `src/docs/ipc_schema.md:259`).
* `shm_producer_pacing` compares the times of two passes a second apart with the length of one
  block (`audio_io/SharedRingBackend.cpp:537-558`, `src/docs/ipc_schema.md:258`): a healthy player
  is warned about every five seconds.  A player that was late before the start is first warned
  about after 30 s.
* Attaching to a region that has been created and not yet sized maps nothing and faults
  (`audio_io/SharedRingBackend.cpp:52`); the size is checked before the second mapping only.
* `underrun_warnings_` is a plain integer that two threads use.
* The plug-in's engine is built with port 0 (`src/vst3/SpatialEngineProcessor.cpp:42`), so that no
  warning of its heartbeat (`no_sofa_loaded`, `src/docs/USER_GUIDE.md:17`) leaves it.
* Nothing checks that the unread frames do not exceed the capacity after the start.
* The registry's lock is taken after the read and on a file the rename replaces, so it does not give
  what ADR 0011 calls surviving concurrent writers; a failed write is ignored.
* The daemon's forwarder reads the registry every 5 s, but `forward_to_instances` is never called.
* `ipc/EchoSubscriber.h:29` has `flush` at the end of each invocation; without subscribers it is
  skipped, and the marks of that time are replayed to the next subscriber.
* `evictStale` runs only on a ping; a full table of silent subscribers refuses a newcomer.
* `touch` goes by address, so a ping keeps dead ports of the same host.
* The stale warning is given "at most once per 30 s" (`core/SpatialEngine.h:234`), but each ping
  re-arms it; a ping that races with the check can leave the latch set for a live player, and a
  wall clock set back silences the watchdog.

## 7. Not modelled, and why

Signal processing, panning, the entries of decoder matrices and HRTF interpolation are
floating-point computations without shared control state; the 5360 lines of
`AllRADTDesigns.cpp` are tables of numbers.  The bytes and the rounding of packets, `AllRADDecoder`,
`EPADDecoder`, convolution and reverbs are left to unit tests.  Sockets and devices are I/O:
of the backends, the start, the block loop and the stop are in `CommandPath`; the Dante
backend is compiled with JUCE only and its device layer is not modelled.
`HeartbeatPublisher` and `HeartbeatMonitor` are constructed by tests only.  `CpuMeter` and the
counters are statistics that nothing reads back.  Layout files, synthesised and file inputs
are read at start-up.  Of the plug-in, bus arrangements and the text of parameters are left
out.  The bridge and the user interfaces are clients.  In `SofaSwap`, a block that stalls for
the whole spin budget is excluded by `Patience`.
