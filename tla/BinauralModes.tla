---------------------------- MODULE BinauralModes -----------------------------
(***************************************************************************)
(* Which binaural mode is heard: Direct (B1) or AmbiVS (B2), the requested *)
(* and the effective mode, the CPU probe, the two-block crossfade between  *)
(* modes, the demotion of B2 by the audio thread after over-budget blocks, *)
(* the user's reset with its cooldown, the clear that follows an HRTF swap *)
(* and the heartbeat that drains the warnings.                             *)
(*                                                                         *)
(* Every atomic access of the shared flags is a step.  An HRTF is loaded,  *)
(* so b2_initialized_ holds; the swap itself is SofaSwap.  A level counts  *)
(* halves of AmbiVS in the mix at a block boundary.                        *)
(***************************************************************************)
EXTENDS Naturals

CONSTANTS
    Users,        \* threads that issue mode, probe and reset commands
    StrikeLimit,  \* effective_strikes
    XfadeBlocks,  \* kXfadeBlocksDefault
    MaxOps,       \* bound: operations of the users and HRTF swaps
    Prompt        \* see Undisturbed

ASSUME StrikeAssumption == StrikeLimit \in Nat \ {0} /\ MaxOps \in Nat
ASSUME XfadeAssumption == XfadeBlocks = 2
ASSUME PromptAssumption == Prompt \in BOOLEAN

Modes == {"Direct", "AmbiVS"}
Silent == XfadeBlocks + 1          \* a level nothing was heard at

VARIABLES
    requested, effective,      \* requested_mode_, effective_mode_
    warn,                      \* probe_warning_set_
    strikes, demoted,          \* runtime_demote_strikes_, runtime_demoted_
    warning,                   \* runtime_demote_warning_pending_
    snapshot,                  \* the three ..._at_event_ values are set
    cooling, coolWarned,       \* last reset under 60 s ago, its warning was armed
    accepted, refused,         \* reset_demote_accepted_, ..._cooldown_pending_
    truncated,                 \* xfade_truncated_pending_
    enabled,                   \* binaural_enabled_
    fast, untimed,             \* steady_clock_fast_, rt_timing_unavailable_pending_
    pc,                        \* where each user is
    ctl,                       \* where the control loop's clear is
    hb,                        \* where the heartbeat is
    audio, on,                 \* where the audio block is; it renders binaural
    prev, outgoing, incoming,  \* the audio thread's crossfade
    remaining, total,
    level,                     \* ghost: AmbiVS at the end of the last block
    asked,                     \* ghost: AmbiVS made effective since the demotion
    told,                      \* ghost: the demotion's warning was drained
    lifted,                    \* ghost: a reset or clear began since it
    ops                        \* ghost: operations begun

modeVars   == <<requested, effective, warn>>
demoteVars == <<strikes, demoted, warning, snapshot>>
resetVars  == <<cooling, coolWarned, accepted, refused>>
xfadeVars  == <<prev, outgoing, incoming, remaining, total>>
audioVars  == <<audio, on, xfadeVars, level, truncated>>
ghostVars  == <<asked, told, lifted, ops>>
settings   == <<enabled, fast, untimed>>
vars == <<modeVars, demoteVars, resetVars, audioVars, settings, pc, ctl, hb, ghostVars>>

Init ==
    /\ requested = "Direct" /\ effective = "Direct" /\ warn = FALSE
    /\ strikes = 0 /\ demoted = FALSE /\ warning = FALSE /\ snapshot = FALSE
    /\ cooling = FALSE /\ coolWarned = FALSE /\ accepted = FALSE /\ refused = FALSE
    /\ truncated = FALSE /\ enabled \in BOOLEAN
    /\ fast \in BOOLEAN /\ untimed = ~fast
    /\ pc = [u \in Users |-> "idle"] /\ ctl = "idle" /\ hb = "down"
    /\ audio = "idle" /\ on = FALSE
    /\ prev = "Direct" /\ outgoing = "Direct" /\ incoming = "Direct"
    /\ remaining = 0 /\ total = 0
    /\ level = Silent /\ asked = FALSE /\ told = FALSE /\ lifted = FALSE /\ ops = 0

Demoting == audio \in {"demote", "snapshot", "latch", "clamp"}

\* With Prompt nobody begins an operation while the audio thread is inside
\* the few stores of a demotion, and no block runs during the clear.
Undisturbed == Prompt => ~Demoting

-------------------------------------------------------------------------------
(* The users: setRequestedMode, runThroughputProbe                          *)

At(u, l) == pc[u] = l
Goto(u, l) == pc' = [pc EXCEPT ![u] = l]

Begin(u) == At(u, "idle") /\ ops < MaxOps /\ ops' = ops + 1 /\ Undisturbed

RequestDirect(u) ==
    /\ Begin(u)
    /\ requested' = "Direct"
    /\ Goto(u, "direct")
    /\ UNCHANGED <<effective, warn, demoteVars, resetVars, audioVars, settings, ctl, hb, asked, told, lifted>>

RequestAmbiVS(u) ==
    /\ Begin(u)
    /\ requested' = "AmbiVS"
    /\ Goto(u, "ambi")
    /\ UNCHANGED <<effective, warn, demoteVars, resetVars, audioVars, settings, ctl, hb, asked, told, lifted>>

LoadWarn(u) ==
    /\ At(u, "ambi")
    /\ Goto(u, IF warn THEN "refuse" ELSE "promote")
    /\ UNCHANGED <<modeVars, demoteVars, resetVars, audioVars, settings, ctl, hb, ghostVars>>

\* Mutant of StoreDirect: the refusal leaves the effective mode alone.
StoreDirectNot(u) ==
    /\ pc[u] \in {"direct", "refuse"}
    /\ Goto(u, IF At(u, "direct") THEN "unwarn" ELSE "idle")
    /\ UNCHANGED <<modeVars, demoteVars, resetVars, audioVars, settings, ctl, hb, ghostVars>>

StoreDirect(u) ==
    /\ pc[u] \in {"direct", "refuse"}
    /\ effective' = "Direct"
    /\ Goto(u, IF At(u, "direct") THEN "unwarn" ELSE "idle")
    /\ UNCHANGED <<requested, warn, demoteVars, resetVars, audioVars, settings, ctl, hb, ghostVars>>

StoreAmbiVS(u) ==
    /\ At(u, "promote")
    /\ effective' = "AmbiVS" /\ asked' = TRUE
    /\ Goto(u, "idle")
    /\ UNCHANGED <<requested, warn, demoteVars, resetVars, audioVars, settings, ctl, hb, told, lifted, ops>>

Unwarn(u) ==
    /\ At(u, "unwarn")
    /\ warn' = FALSE
    /\ Goto(u, "idle")
    /\ UNCHANGED <<requested, effective, demoteVars, resetVars, audioVars, settings, ctl, hb, ghostVars>>

\* The probe has measured: too slow for B2, or fast enough.
Probe(u) ==
    /\ Begin(u)
    /\ \E slow \in BOOLEAN :
        /\ warn' = slow
        /\ Goto(u, IF slow THEN "refuse" ELSE "wanted")
    /\ UNCHANGED <<requested, effective, demoteVars, resetVars, audioVars, settings, ctl, hb, asked, told, lifted>>

LoadRequested(u) ==
    /\ At(u, "wanted")
    /\ Goto(u, IF requested = "AmbiVS" THEN "promote" ELSE "idle")
    /\ UNCHANGED <<modeVars, demoteVars, resetVars, audioVars, settings, ctl, hb, ghostVars>>

Enable(u) ==
    /\ Begin(u)
    /\ enabled' = ~enabled
    /\ UNCHANGED <<modeVars, demoteVars, resetVars, audioVars, fast, untimed, pc, ctl, hb, asked, told, lifted>>

-------------------------------------------------------------------------------
(* resetRuntimeDemoteFromUser; not demoted, it does nothing                 *)

ResetBegin(u) ==
    /\ Begin(u) /\ demoted
    /\ lifted' = (lifted \/ ~cooling)
    /\ Goto(u, IF ~cooling THEN "telemetry" ELSE "reject")
    /\ UNCHANGED <<modeVars, demoteVars, resetVars, audioVars, settings, ctl, hb, asked, told>>

ResetReject(u) ==
    /\ At(u, "reject")
    /\ coolWarned' = TRUE
    /\ refused' = (refused \/ ~coolWarned)
    /\ Goto(u, "idle")
    /\ UNCHANGED <<modeVars, demoteVars, cooling, accepted, audioVars, settings, ctl, hb, ghostVars>>

ResetTelemetry(u) ==
    /\ At(u, "telemetry")
    /\ snapshot' = FALSE
    /\ Goto(u, "strikes")
    /\ UNCHANGED <<modeVars, strikes, demoted, warning, resetVars, audioVars, settings, ctl, hb, ghostVars>>

ResetStrikes(u) ==
    /\ At(u, "strikes")
    /\ strikes' = 0
    /\ Goto(u, "warning")
    /\ UNCHANGED <<modeVars, demoted, warning, snapshot, resetVars, audioVars, settings, ctl, hb, ghostVars>>

ResetWarning(u) ==
    /\ At(u, "warning")
    /\ warning' = FALSE
    /\ Goto(u, "demoted")
    /\ UNCHANGED <<modeVars, strikes, demoted, snapshot, resetVars, audioVars, settings, ctl, hb, ghostVars>>

ResetDemoted(u) ==
    /\ At(u, "demoted")
    /\ demoted' = FALSE
    /\ Goto(u, "accept")
    /\ UNCHANGED <<modeVars, strikes, warning, snapshot, resetVars, audioVars, settings, ctl, hb, ghostVars>>

ResetAccept(u) ==
    /\ At(u, "accept")
    /\ cooling' = TRUE /\ coolWarned' = FALSE /\ accepted' = TRUE
    /\ Goto(u, "idle")
    /\ UNCHANGED <<modeVars, demoteVars, refused, audioVars, settings, ctl, hb, ghostVars>>

CooledDown ==
    /\ cooling
    /\ cooling' = FALSE
    /\ UNCHANGED <<modeVars, demoteVars, coolWarned, accepted, refused, audioVars, settings, pc, ctl, hb, ghostVars>>

-------------------------------------------------------------------------------
(* The control loop: an HRTF swap ends by clearing the demotion, the flag    *)
(* before the warning; the cooldown goes on.                                 *)

ClearStrikes ==
    /\ ctl = "idle" /\ ops < MaxOps /\ ops' = ops + 1
    /\ Prompt => audio = "idle"
    /\ strikes' = 0 /\ lifted' = TRUE
    /\ ctl' = "demoted"
    /\ UNCHANGED <<modeVars, demoted, warning, snapshot, resetVars, audioVars, settings, pc, hb, asked, told>>

ClearDemoted ==
    /\ ctl = "demoted"
    /\ demoted' = FALSE
    /\ ctl' = "warning"
    /\ UNCHANGED <<modeVars, strikes, warning, snapshot, resetVars, audioVars, settings, pc, hb, ghostVars>>

ClearWarning ==
    /\ ctl = "warning"
    /\ warning' = FALSE
    /\ ctl' = "telemetry"
    /\ UNCHANGED <<modeVars, strikes, demoted, snapshot, resetVars, audioVars, settings, pc, hb, ghostVars>>

ClearTelemetry ==
    /\ ctl = "telemetry"
    /\ snapshot' = FALSE
    /\ ctl' = "idle"
    /\ UNCHANGED <<modeVars, strikes, demoted, warning, resetVars, audioVars, settings, pc, hb, ghostVars>>

\* initialize(), called by prepareToPlay with the audio stopped: the demotion
\* is lifted and the crossfade forgotten, the effective mode and the cooldown
\* stay.  The heartbeat has been stopped, and no command is under way.
Initialize ==
    /\ audio = "idle" /\ ctl = "idle" /\ hb = "down" /\ \A u \in Users : At(u, "idle")
    /\ ops < MaxOps /\ ops' = ops + 1
    /\ prev' = effective /\ outgoing' = effective /\ incoming' = effective
    /\ remaining' = 0 /\ total' = 0 /\ truncated' = FALSE
    /\ strikes' = 0 /\ demoted' = FALSE /\ warning' = FALSE
    /\ fast' \in BOOLEAN /\ untimed' = ~fast'        \* probeSteadyClockSpeed
    /\ level' = Silent /\ lifted' = TRUE
    /\ UNCHANGED <<modeVars, snapshot, resetVars, audio, on, enabled, pc, ctl, hb, asked, told>>

-------------------------------------------------------------------------------
(* The audio thread: observeAndArmXfade, one or two branches,               *)
(* recordB2BlockTiming, finalizeXfadeBlock                                  *)

\* One load of the effective mode per block; a flip during a ramp waits.
Observe ==
    /\ audio = "idle" /\ (Prompt => ctl = "idle")
    /\ on' = enabled
    /\ IF remaining = 0 /\ effective # prev
       THEN /\ outgoing' = prev /\ incoming' = effective
            /\ audio' = "arm"
       ELSE /\ audio' = "render"
            /\ UNCHANGED <<outgoing, incoming>>
    /\ UNCHANGED <<modeVars, demoteVars, resetVars, prev, remaining, total, level, truncated,
                   settings, pc, ctl, hb, ghostVars>>

\* A ramp armed while the probe warns is cut to one block.
Arm ==
    /\ audio = "arm"
    /\ total' = (IF warn THEN 1 ELSE XfadeBlocks)
    /\ remaining' = total'
    /\ truncated' = (truncated \/ warn)
    /\ audio' = "render"
    /\ UNCHANGED <<modeVars, demoteVars, resetVars, on, prev, outgoing, incoming, level,
                   settings, pc, ctl, hb, ghostVars>>

Branches == IF remaining > 0 THEN {outgoing, incoming} ELSE {prev}

\* AmbiVS in the mix after i of the ramp's blocks
Level(i) == LET in == (i * XfadeBlocks) \div total
            IN  IF remaining = 0 THEN IF prev = "AmbiVS" THEN XfadeBlocks ELSE 0
                ELSE IF incoming = "AmbiVS" THEN in
                ELSE XfadeBlocks - in
StartLevel == Level(total - remaining)
EndLevel   == Level(total - remaining + 1)

\* Both branches of a ramp are rendered; AmbiVS is timed unless it is demoted
\* or reading the clock is slow.
Render ==
    /\ audio = "render"
    /\ audio' = IF on /\ "AmbiVS" \in Branches /\ ~demoted /\ fast THEN "measure" ELSE "finish"
    /\ UNCHANGED <<modeVars, demoteVars, resetVars, on, xfadeVars, level, truncated,
                   settings, pc, ctl, hb, ghostVars>>

Measure ==
    /\ audio = "measure"
    /\ \/ /\ strikes' = 0 /\ audio' = "finish"                   \* in time
       \/ /\ strikes' = strikes + 1                              \* over budget
          /\ audio' = IF strikes' >= StrikeLimit THEN "demote" ELSE "finish"
    /\ UNCHANGED <<modeVars, demoted, warning, snapshot, resetVars, on, xfadeVars, level,
                   truncated, settings, pc, ctl, hb, ghostVars>>

\* A reset or a clear that was under way before a demotion lifts it too.
Lifting == \/ ctl = "demoted"
           \/ \E u \in Users : pc[u] \in {"telemetry", "strikes", "warning", "demoted"}

\* The compare-and-swap of the flag; only this thread raises it.
Demote ==
    /\ audio = "demote"
    /\ demoted' = TRUE
    /\ asked' = FALSE /\ told' = FALSE /\ lifted' = Lifting
    /\ audio' = "snapshot"
    /\ UNCHANGED <<modeVars, strikes, warning, snapshot, resetVars, on, xfadeVars, level,
                   truncated, settings, pc, ctl, hb, ops>>

\* Mutant of Snapshot: the values are not stored.
SnapshotNot ==
    /\ audio = "snapshot"
    /\ audio' = "latch"
    /\ UNCHANGED <<modeVars, demoteVars, resetVars, on, xfadeVars, level,
                   truncated, settings, pc, ctl, hb, ghostVars>>

Snapshot ==
    /\ audio = "snapshot"
    /\ snapshot' = TRUE
    /\ audio' = "latch"
    /\ UNCHANGED <<modeVars, strikes, demoted, warning, resetVars, on, xfadeVars, level,
                   truncated, settings, pc, ctl, hb, ghostVars>>

Latch ==
    /\ audio = "latch"
    /\ warning' = TRUE
    /\ audio' = "clamp"
    /\ UNCHANGED <<modeVars, strikes, demoted, snapshot, resetVars, on, xfadeVars, level,
                   truncated, settings, pc, ctl, hb, ghostVars>>

\* Mutant of Clamp: the demoted mode stays effective.
ClampNot ==
    /\ audio = "clamp"
    /\ audio' = "finish"
    /\ UNCHANGED <<modeVars, demoteVars, resetVars, on, xfadeVars, level,
                   truncated, settings, pc, ctl, hb, ghostVars>>

Clamp ==
    /\ audio = "clamp"
    /\ effective' = "Direct"
    /\ audio' = "finish"
    /\ UNCHANGED <<requested, warn, demoteVars, resetVars, on, xfadeVars, level,
                   truncated, settings, pc, ctl, hb, ghostVars>>

\* The limited mix of a block; disabled, the buffers are zeroed and the fade
\* goes on unheard.
Mixed == IF on THEN EndLevel ELSE Silent

\* Mutant of Finish: the mode that is effective now becomes the steady one.
FinishLatest ==
    /\ audio = "finish"
    /\ audio' = "idle"
    /\ level' = Mixed
    /\ remaining' = IF remaining > 0 THEN remaining - 1 ELSE 0
    /\ prev' = IF remaining = 1 THEN effective ELSE prev
    /\ UNCHANGED <<modeVars, demoteVars, resetVars, on, outgoing, incoming, total, truncated,
                   settings, pc, ctl, hb, ghostVars>>

Finish ==
    /\ audio = "finish"
    /\ audio' = "idle"
    /\ level' = Mixed
    /\ remaining' = IF remaining > 0 THEN remaining - 1 ELSE 0
    /\ prev' = IF remaining = 1 THEN incoming ELSE prev
    /\ UNCHANGED <<modeVars, demoteVars, resetVars, on, outgoing, incoming, total, truncated,
                   settings, pc, ctl, hb, ghostVars>>

-------------------------------------------------------------------------------
(* The heartbeat of the plug-in drains the latches; the replies may be lost. *)

\* Ten times a second, until it is told to stop.
Ticking == hb = "idle"

\* setActive; what is latched while the heartbeat is down waits.
StartHeartbeatTimer ==
    /\ hb = "down" /\ hb' = "idle"
    /\ UNCHANGED <<modeVars, demoteVars, resetVars, audioVars, settings, pc, ctl, ghostVars>>

StopHeartbeatTimer ==
    /\ Ticking /\ hb' = "down"
    /\ UNCHANGED <<modeVars, demoteVars, resetVars, audioVars, settings, pc, ctl, ghostVars>>

\* Mutant of DrainTruncated: it clears the neighbouring latch.
DrainTruncatedOther ==
    /\ Ticking /\ truncated
    /\ warning' = FALSE
    /\ UNCHANGED <<modeVars, strikes, demoted, snapshot, resetVars, audioVars,
                   settings, pc, ctl, hb, ghostVars>>

DrainTruncated ==
    /\ Ticking /\ truncated
    /\ truncated' = FALSE
    /\ UNCHANGED <<modeVars, demoteVars, resetVars, audio, on, xfadeVars, level,
                   settings, pc, ctl, hb, ghostVars>>

DrainDemoted ==
    /\ Ticking /\ warning
    /\ warning' = FALSE /\ told' = (audio \notin {"snapshot", "latch"})
    /\ hb' = "diag"
    /\ UNCHANGED <<modeVars, strikes, demoted, snapshot, resetVars, audioVars, settings, pc, ctl, asked, lifted, ops>>

\* /sys/binaural_diag with the three values, on the same pass
SendDiag ==
    /\ hb = "diag"
    /\ hb' = "idle"
    /\ UNCHANGED <<modeVars, demoteVars, resetVars, audioVars, settings, pc, ctl, ghostVars>>

DrainReset ==
    /\ Ticking /\ (accepted \/ refused)
    /\ accepted' = FALSE /\ refused' = FALSE
    /\ UNCHANGED <<modeVars, demoteVars, cooling, coolWarned, audioVars, settings, pc, ctl, hb, ghostVars>>

DrainUntimed ==
    /\ Ticking /\ untimed
    /\ untimed' = FALSE
    /\ UNCHANGED <<modeVars, demoteVars, resetVars, audioVars, enabled, fast, pc, ctl, hb, ghostVars>>

-------------------------------------------------------------------------------
ModeStep(u)  == LoadWarn(u) \/ StoreDirect(u) \/ StoreAmbiVS(u) \/ Unwarn(u) \/ LoadRequested(u)
ResetStep(u) == \/ ResetReject(u) \/ ResetTelemetry(u) \/ ResetStrikes(u)
                \/ ResetWarning(u) \/ ResetDemoted(u) \/ ResetAccept(u)
ClearStep    == ClearDemoted \/ ClearWarning \/ ClearTelemetry
AudioStep    == \/ Observe \/ Arm \/ Render \/ Measure
                \/ Demote \/ Snapshot \/ Latch \/ Clamp \/ Finish
Heartbeat    == \/ StartHeartbeatTimer \/ StopHeartbeatTimer
                \/ DrainTruncated \/ DrainDemoted \/ SendDiag \/ DrainReset \/ DrainUntimed

Next ==
    \/ \E u \in Users : \/ RequestDirect(u) \/ RequestAmbiVS(u) \/ Probe(u)
                        \/ Enable(u) \/ ResetBegin(u)
                        \/ ModeStep(u) \/ ResetStep(u)
    \/ ClearStrikes \/ ClearStep
    \/ Initialize \/ CooledDown
    \/ AudioStep \/ Heartbeat

\* Blocks keep coming; a thread inside an operation goes on.
Fairness == WF_vars(AudioStep) /\ WF_vars(ClearStep)

Spec == Init /\ [][Next]_vars /\ Fairness

-------------------------------------------------------------------------------
(* Properties *)

\* No click: whatever the modes do meanwhile, an audible block starts with the
\* mix the audible block before it ended with.
NoJump == audio = "finish" /\ on /\ level # Silent => StartLevel = level

\* While a demotion is in force that nobody has begun to lift, its warning waits
\* in the latch or has been drained, and the figures sent with it are its own.
DemotionTold ==
    demoted /\ ~lifted =>
        /\ audio \notin {"snapshot", "latch"} => warning \/ told
        /\ hb = "diag" /\ told => snapshot

\* A demotion is heard: the mix becomes Direct although a ramp may be under way
\* and defer it, unless B2 is asked for again or the demotion lifted.
DemotionHeard == (demoted /\ ~asked /\ ~lifted)
                    ~> (\/ prev = "Direct" /\ remaining = 0
                        \/ asked \/ lifted)

\* What is asked for is what is effective once nobody is inside an operation:
\* Direct always, AmbiVS unless the probe warns or a demotion forbade it.
RequestHonoured ==
    (\A u \in Users : At(u, "idle")) => (requested = "Direct" \/ warn => effective = "Direct")

===============================================================================
