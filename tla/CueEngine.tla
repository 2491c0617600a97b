------------------------------ MODULE CueEngine ------------------------------
(***************************************************************************)
(* The cue transport: CueEngine with the SceneCrossfade it owns, driven by *)
(* the control loop of spatial_engine_core.                                *)
(*                                                                         *)
(* An iteration of the loop reads the wall clock once, applies any number  *)
(* of queued transport commands at that time and ticks the engine.  The    *)
(* engine is one object with no internal concurrency, so it is one record, *)
(* a method is an operator from engine to engine, and an action is a       *)
(* method call of the loop.                                                *)
(*                                                                         *)
(* A frame gives each object its interpolated scalars, abstracted to one   *)
(* integer `pos', and its discrete fields, abstracted to `active'.         *)
(***************************************************************************)
EXTENDS Integers, Sequences, FiniteSetsExt

CONSTANTS
    Objects,            \* object ids below MAX_OBJECTS
    SceneFrame,         \* scene name -> frame, see snapshotToFrames
    CueLists,           \* the cue lists the daemon may find on disk
    RateNum, RateDen,   \* the sample rate: samples per millisecond
    IntMax,             \* the largest int
    ClockSteps,         \* how far the wall clock moves between iterations
    Indices,            \* arguments of /cue/go
    MaxTime,            \* bound: the wall clock
    MaxStepsBack,       \* bound: times the wall clock is set back
    MaxGeneration       \* bound: a command needs generation_ below it

NoDwell == -1

Frames == [Objects -> [pos : Int, active : BOOLEAN]]
Neutral == [o \in Objects |-> [pos |-> 0, active |-> FALSE]]

ASSUME CueAssumption ==
    /\ SceneFrame \in [DOMAIN SceneFrame -> Frames]
    /\ \A list \in CueLists :
          /\ list \in Seq([scene : DOMAIN SceneFrame, fade : Nat,
                           dwell : Nat \cup {NoDwell}])
    /\ {RateNum, RateDen, IntMax} \subseteq Nat \ {0}
    /\ ClockSteps \subseteq Int /\ Indices \subseteq Int
    /\ {MaxTime, MaxStepsBack, MaxGeneration} \subseteq Nat

VARIABLES
    cues,       \* cues_, set once at start-up
    eng,        \* the engine's other members
    pc,         \* the control loop: "sleep" or "drain"
    now,        \* now_unix_ms of this iteration
    stepsBack,  \* how often the clock has been set back
    burst,      \* the frames the last call emitted, in order
    sent,       \* ghost: the frame emitted last
    held        \* ghost: the operator's last command started no cue

vars == <<cues, eng, pc, now, stepsBack, burst, sent, held>>

-----------------------------------------------------------------------------
(* SceneCrossfade.                                                         *)

Samples(ms) == Max({1, (ms * RateNum) \div RateDen})

Start(from, to, ms) ==
    [from |-> from, to |-> to, elapsed |-> 0,
     total |-> IF ms > 0 THEN Samples(ms) ELSE 0, active |-> ms > 0]

\* What tick passes to advance: the conversion to int is undefined beyond
\* IntMax; x86 makes it negative, hence 1, and ARM saturates.
TickSamples(ms) == IF Samples(ms) <= IntMax THEN {Samples(ms)} ELSE {1, IntMax}

Advance(x, n) ==
    IF x.active
    THEN [x EXCEPT !.elapsed = IF x.elapsed + n >= x.total THEN x.total ELSE @ + n,
                   !.active  = x.elapsed + n < x.total]
    ELSE x

\* currentObject: scalars move linearly, discrete fields snap at the midpoint.
Blend(x) ==
    [o \in Objects |->
        [pos    |-> IF x.total = 0 THEN x.to[o].pos
                    ELSE x.from[o].pos
                         + ((x.to[o].pos - x.from[o].pos) * x.elapsed) \div x.total,
         active |-> IF 2 * x.elapsed < x.total THEN x.from[o].active
                                               ELSE x.to[o].active]]

-----------------------------------------------------------------------------
(* CueEngine.                                                              *)

\* Mutant of Cancel: a manual action leaves the pending dwell alone.
CancelNothing(e) == e

\* ++generation_ and the dwell latch.
Cancel(e) == [e EXCEPT !.generation = @ + 1, !.armed = FALSE]

LastIndex == Len(cues) - 1

Clamp(i) == IF i < 0 THEN 0 ELSE IF i > LastIndex THEN LastIndex ELSE i

\* The part of go that follows a successful load of cue i at time t.
Fire(e, i, t) ==
    LET cue    == cues[i + 1]
        target == SceneFrame[cue.scene]
        fade   == Start(e.frame, target, cue.fade)
        end    == t + cue.fade
        dwells == cue.dwell # NoDwell
    IN  [e EXCEPT
            !.xf         = fade,
            !.index      = i,
            !.lastTick   = t,
            !.inProgress = fade.active,
            !.end        = end,
            !.frame      = IF fade.active THEN @ ELSE target,
            !.emitted    = IF fade.active THEN @ ELSE Append(@, target),
            !.armed      = dwells,
            !.deadline   = IF dwells THEN end + cue.dwell ELSE @,
            !.dwellGen   = IF dwells THEN e.generation ELSE @]

\* `loads' tells whether SceneLoad finds a readable scene file.
Go(e, i, t, loads) ==
    IF cues = <<>> \/ ~loads THEN Cancel(e) ELSE Fire(Cancel(e), Clamp(i), t)

GoNext(e, t, loads) ==
    IF cues = <<>> THEN e
    ELSE IF e.index >= LastIndex THEN Cancel(e) ELSE Go(e, e.index + 1, t, loads)

GoPrev(e, t, loads) ==
    IF cues = <<>> THEN e
    ELSE IF e.index <= 0 THEN Cancel(e) ELSE Go(e, e.index - 1, t, loads)

\* Mutant of Freeze: the baseline stays where the fade began.
FreezeStale(e) == [Cancel(e) EXCEPT !.inProgress = FALSE]

\* stop: the baseline becomes the interpolated state.
Freeze(e) ==
    [Cancel(e) EXCEPT !.inProgress = FALSE,
                      !.frame = IF e.inProgress THEN Blend(e.xf) ELSE @]

\* The first half of tick: advance the fade by the wall time that has passed.
StepFade(e, t) ==
    IF ~e.inProgress THEN {e}
    ELSE IF t - e.lastTick <= 0 THEN {[e EXCEPT !.lastTick = t]}
    ELSE LET After(x) == [e EXCEPT !.lastTick   = t,
                                   !.xf         = x,
                                   !.emitted    = Append(@, Blend(x)),
                                   !.inProgress = x.active,
                                   !.frame      = IF x.active THEN @ ELSE x.to]
         IN  {After(Advance(e.xf, n)) : n \in TickSamples(t - e.lastTick)}

\* Mutant of DwellDue: due only at the very millisecond of the deadline.
DwellDueAtDeadline(e, t) ==
    e.armed /\ ~e.inProgress /\ t = e.deadline /\ e.dwellGen = e.generation

DwellDue(e, t) ==
    /\ e.armed
    /\ ~e.inProgress
    /\ t >= e.deadline
    /\ e.dwellGen = e.generation

\* The second half of tick.
AutoAdvance(e, t, loads) ==
    IF DwellDue(e, t) THEN GoNext([e EXCEPT !.armed = FALSE], t, loads) ELSE e

-----------------------------------------------------------------------------
(* The control loop.                                                       *)

Init ==
    /\ cues \in CueLists
    /\ eng = [index |-> -1, generation |-> 0, frame |-> Neutral,
              xf |-> [from |-> Neutral, to |-> Neutral, elapsed |-> 0, total |-> 0,
                      active |-> FALSE],
              inProgress |-> FALSE, end |-> 0, lastTick |-> 0,
              armed |-> FALSE, deadline |-> 0, dwellGen |-> 0, emitted |-> <<>>]
    /\ pc = "sleep" /\ now = 0 /\ stepsBack = 0
    /\ burst = <<>> /\ sent = Neutral /\ held = TRUE

\* The next iteration: system_clock may also have been set back.
Wake ==
    /\ pc = "sleep"
    /\ pc' = "drain"
    /\ \E d \in ClockSteps :
          /\ now + d \in 0 .. MaxTime
          /\ d < 0 => stepsBack < MaxStepsBack
          /\ now' = now + d
          /\ stepsBack' = IF d < 0 THEN stepsBack + 1 ELSE stepsBack
    /\ UNCHANGED <<cues, eng, burst, sent, held>>

\* A method of the engine returns e; its emissions leave through emit_.
Run(e) ==
    /\ eng' = [e EXCEPT !.emitted = <<>>]
    /\ burst' = e.emitted
    /\ sent' = IF e.emitted = <<>> THEN sent ELSE e.emitted[Len(e.emitted)]
    /\ UNCHANGED <<cues, now, stepsBack>>

Command(e, starts) ==
    /\ pc = "drain"
    /\ eng.generation < MaxGeneration
    /\ Run(e)
    /\ held' = ~starts
    /\ UNCHANGED pc

CueGoTo(i) == \E loads \in BOOLEAN :
                 Command(Go(eng, i, now, loads), loads /\ cues # <<>>)

CueGo == \E i \in Indices : CueGoTo(i)

CueNext == \E loads \in BOOLEAN :
              Command(GoNext(eng, now, loads), loads /\ eng.index < LastIndex)

CuePrev == \E loads \in BOOLEAN :
              Command(GoPrev(eng, now, loads), loads /\ eng.index > 0)

CueStop == Command(Freeze(eng), FALSE)

Tick ==
    /\ pc = "drain"
    /\ pc' = "sleep"
    /\ \E loads \in BOOLEAN, e \in StepFade(eng, now) : Run(AutoAdvance(e, now, loads))
    /\ UNCHANGED held

Next == Wake \/ CueGo \/ CueNext \/ CuePrev \/ CueStop \/ Tick

Spec == Init /\ [][Next]_vars

\* The loop runs for ever, and however often it reads the same millisecond
\* again the wall clock moves on.
FairSpec == Spec /\ WF_vars(Tick) /\ SF_vars(Wake /\ now' > now)

-----------------------------------------------------------------------------
(* Properties.                                                             *)

\* The reported cue is the one being faded to or heard: go moves the index
\* and the fade target together or, when the scene cannot be loaded, neither.
IndexNamesTarget ==
    eng.index # -1 => eng.xf.to = SceneFrame[cues[eng.index + 1].scene]

\* The baseline the next fade starts from is tracked without reading the
\* audio thread's cache, so it must agree with what has been emitted: at rest
\* it is where the last fade stands, and a fade that has moved at all, or
\* snapped, was emitted exactly as it stands.
BaselineTracksOutput ==
    /\ ~eng.inProgress => eng.frame = Blend(eng.xf)
    /\ eng.xf.elapsed > 0 \/ eng.xf.total = 0 => sent = Blend(eng.xf)

\* Index, fade and baseline hold together after any sequence of commands,
\* failed loads among them.
Coherent == IndexNamesTarget /\ BaselineTracksOutput

\* The dwell latch: the engine advances by itself only when the operator's
\* last command started a cue, the current cue has a dwell that has run out,
\* and that cue's scene has been emitted in full, at the latest by this tick.
AutoAdvanceJustified ==
    [][Tick /\ eng'.index # eng.index =>
          LET cue    == cues[eng.index + 1]
              target == SceneFrame[cue.scene]
          IN  /\ ~held
              /\ cue.dwell # NoDwell /\ now >= eng.end + cue.dwell
              /\ target \in {sent} \cup {burst'[i] : i \in DOMAIN burst'}
              /\ eng'.index = eng.index + 1]_vars

\* A fade that starts never leaves the scene half way: unless a command or a
\* further cue intervenes it ends on its target and the dwell after it ends
\* too.  The sample count of a tick is at least half the exact one, so time
\* for twice the fade is enough.
DwellEnds ==
    \A g \in 1 .. MaxGeneration + 2 :
        (/\ eng.generation = g /\ eng.armed
         /\ eng.deadline + 2 * eng.xf.total <= MaxTime)
            ~> (eng.generation > g)

=============================================================================
