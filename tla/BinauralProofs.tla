---------------------------- MODULE BinauralProofs ----------------------------
(***************************************************************************)
(* Proofs about the binaural monitor: the crossfade between the modes, the *)
(* user's request, the warning of a demotion, and the fades of one object  *)
(* in Direct mode, for any number of operations, blocks and directions.    *)
(*                                                                         *)
(* RequestHonoured is proved for at most one thread of commands, and       *)
(* DemotionTold for Prompt, the disciplines under which the run checks     *)
(* them: without them they are false.                                      *)
(***************************************************************************)
EXTENDS BinauralModes, ObjectFade, TLAPS

(* The mix *)

\* A ramp leads from the mode that was steady to another one.
RampTrue ==
    /\ {effective, prev, outgoing, incoming} \subseteq Modes
    /\ total \in 0 .. 2 /\ remaining \in 0 .. total
    /\ remaining > 0 \/ audio = "arm" => outgoing = prev /\ incoming # prev
    /\ audio = "arm" => remaining = 0

\* The mix begins at the level at which the last block was left.
MixInv == RampTrue /\ (level # Silent => level = StartLevel)

\* The levels of a ramp at its ends.
LEMMA RampEnds ==
    ASSUME RampTrue
    PROVE  /\ remaining = 0 => /\ StartLevel = EndLevel
                               /\ StartLevel = IF prev = "AmbiVS" THEN 2 ELSE 0
           /\ remaining = total /\ total > 0 =>
                 StartLevel = IF incoming = "AmbiVS" THEN 0 ELSE 2
           /\ remaining = 1 => EndLevel = IF incoming = "AmbiVS" THEN 2 ELSE 0
<1> USE XfadeAssumption DEF RampTrue, StartLevel, EndLevel, Level
<1>1. CASE remaining = 0
  BY <1>1
<1>2. CASE remaining = 1 /\ total = 1
  BY <1>2
<1>3. CASE remaining = 1 /\ total = 2
  BY <1>3
<1>4. CASE remaining = 2 /\ total = 2
  BY <1>4
<1> QED BY <1>1, <1>2, <1>3, <1>4

LEMMA InitMix == Init => MixInv
BY DEF Init, MixInv, RampTrue, Modes

\* Steps that leave the crossfade and the mix alone.
LEMMA QuietMix ==
    ASSUME MixInv, effective' \in Modes, UNCHANGED <<xfadeVars, level>>,
           audio' = "arm" => audio = "arm"
    PROVE  MixInv'
BY DEF MixInv, RampTrue, StartLevel, Level, xfadeVars, Silent

LEMMA StepMix ==
    ASSUME MixInv, [Next]_vars
    PROVE  MixInv'
<1> USE DEF modeVars, demoteVars, resetVars, xfadeVars, audioVars, ghostVars, settings
<1>0. {effective, prev, outgoing, incoming} \subseteq Modes
  BY DEF MixInv, RampTrue
<1>1. CASE UNCHANGED vars
  BY <1>0, <1>1, QuietMix DEF vars
<1>2. ASSUME NEW u \in Users,
             \/ RequestDirect(u) \/ RequestAmbiVS(u) \/ Probe(u) \/ Enable(u)
             \/ ResetBegin(u) \/ ModeStep(u) \/ ResetStep(u)
      PROVE  MixInv'
  <2>1. effective' \in Modes /\ UNCHANGED audioVars
    BY <1>0, <1>2 DEF Modes, RequestDirect, RequestAmbiVS, Probe, Enable, ResetBegin, ModeStep,
          LoadWarn, StoreDirect, StoreAmbiVS, Unwarn, LoadRequested, ResetStep,
          ResetReject, ResetTelemetry, ResetStrikes, ResetWarning, ResetDemoted, ResetAccept
  <2> QED BY <2>1, QuietMix
<1>3. CASE ClearStrikes \/ ClearStep \/ CooledDown \/ Heartbeat
  <2>1. UNCHANGED <<effective, audio, xfadeVars, level>>
    BY <1>3 DEF ClearStrikes, ClearStep, ClearDemoted, ClearWarning, ClearTelemetry,
          CooledDown, Heartbeat, StartHeartbeatTimer, StopHeartbeatTimer,
          DrainTruncated, DrainDemoted, SendDiag, DrainReset, DrainUntimed
  <2> QED BY <1>0, <2>1, QuietMix
<1>4. CASE Initialize
  BY <1>0, <1>4 DEF Initialize, MixInv, RampTrue, Silent
<1>5. CASE AudioStep
  <2>1. CASE Observe
    <3>1. RampTrue'
      BY <2>1 DEF Observe, MixInv, RampTrue, Modes
    <3>2. StartLevel' = StartLevel /\ level' = level
      BY <2>1 DEF Observe, MixInv, StartLevel, Level
    <3> QED BY <3>1, <3>2 DEF MixInv, Silent
  <2>2. CASE Arm
    <3>1. /\ remaining = 0 /\ remaining' = total' /\ total' \in {1, 2}
          /\ UNCHANGED <<effective, prev, outgoing, incoming, level>>
          /\ audio' = "render" /\ incoming # prev
      BY <2>2, XfadeAssumption DEF Arm, MixInv, RampTrue
    <3>2. RampTrue'
      BY <2>2, <3>1 DEF Arm, MixInv, RampTrue
    <3>3. StartLevel' = IF incoming = "AmbiVS" THEN 0 ELSE 2
      BY <3>1, XfadeAssumption DEF StartLevel, Level
    <3>4. StartLevel' = StartLevel
      BY <3>1, <3>3, <1>0, RampEnds DEF MixInv, Modes
    <3> QED BY <3>1, <3>2, <3>4 DEF MixInv, Silent
  <2>3. CASE Render \/ Measure \/ Demote \/ Snapshot \/ Latch \/ Clamp
    <3>1. /\ effective' \in Modes /\ UNCHANGED <<xfadeVars, level>>
          /\ audio' # "arm"
      BY <1>0, <2>3 DEF Render, Measure, Demote, Snapshot, Latch, Clamp, Modes
    <3> QED BY <3>1, QuietMix
  <2>4. CASE Finish
    <3> DEFINE after == IF remaining > 0 THEN remaining - 1 ELSE 0
    <3>1. /\ remaining' = after /\ audio' = "idle" /\ level' = Mixed
          /\ prev' = IF remaining = 1 THEN incoming ELSE prev
          /\ UNCHANGED <<effective, outgoing, incoming, total>>
      BY <2>4 DEF Finish
    <3>2. RampTrue'
      BY <3>1 DEF MixInv, RampTrue
    <3>3. StartLevel' = EndLevel
      <4>1. CASE remaining =< 1
        BY <3>1, <4>1, RampEnds, XfadeAssumption DEF MixInv, RampTrue, StartLevel, Level
      <4>2. CASE remaining = 2 /\ total = 2
        BY <3>1, <4>2, XfadeAssumption DEF StartLevel, EndLevel, Level
      <4> QED BY <4>1, <4>2 DEF MixInv, RampTrue
    <3> QED BY <3>1, <3>2, <3>3 DEF MixInv, Mixed, Silent
  <2> QED BY <1>5, <2>1, <2>2, <2>3, <2>4 DEF AudioStep
<1> QED BY <1>1, <1>2, <1>3, <1>4, <1>5 DEF Next

\* No click: an audible block starts with the mix the audible block before it
\* ended with, whatever the users, a demotion or the heartbeat do to the modes
\* meanwhile (observeAndArmXfade, finalizeXfadeBlock).
THEOREM NeverJumps == Spec => []NoJump
<1>1. MixInv => NoJump
  BY DEF MixInv, NoJump
<1> QED BY <1>1, InitMix, StepMix, PTL DEF Spec

-------------------------------------------------------------------------------
(* The request *)

ResetLabels == {"reject", "telemetry", "strikes", "warning", "demoted", "accept"}
Labels == {"idle", "direct", "unwarn", "ambi", "refuse", "promote", "wanted"} \cup ResetLabels

\* What is still to be done of the operation the one user is in.
RequestInv ==
    /\ effective \in Modes /\ requested \in Modes
    /\ \A u \in Users :
        /\ pc[u] \in {"idle"} \cup ResetLabels =>
              (requested = "Direct" \/ warn => effective = "Direct")
        /\ pc[u] \in {"direct", "unwarn"} => requested = "Direct"
        /\ pc[u] = "unwarn" => effective = "Direct"
        /\ pc[u] \in {"ambi", "promote"} => requested = "AmbiVS"
        /\ pc[u] \in {"promote", "wanted"} => ~warn
        /\ pc[u] = "wanted" /\ requested = "Direct" => effective = "Direct"

Alone == Users # {} /\ \A u, v \in Users : u = v

LEMMA StepRequest ==
    ASSUME Alone, pc \in [Users -> Labels], RequestInv, [Next]_vars
    PROVE  RequestInv' /\ pc' \in [Users -> Labels]
<1> USE DEF Alone, RequestInv, Labels, ResetLabels, Modes, At, Goto, Begin
<1> USE DEF modeVars, demoteVars, resetVars, xfadeVars, audioVars, ghostVars, settings
<1>1. CASE UNCHANGED vars
  BY <1>1 DEF vars
<1>2. ASSUME NEW u \in Users,
             \/ RequestDirect(u) \/ RequestAmbiVS(u) \/ Probe(u) \/ Enable(u)
             \/ ResetBegin(u) \/ ModeStep(u) \/ ResetStep(u)
      PROVE  RequestInv' /\ pc' \in [Users -> Labels]
  <2>1. CASE RequestDirect(u) \/ RequestAmbiVS(u)
    BY <2>1 DEF RequestDirect, RequestAmbiVS
  <2>2. CASE Probe(u)
    BY <2>2 DEF Probe
  <2>3. CASE Enable(u) \/ ResetBegin(u)
    BY <2>3 DEF Enable, ResetBegin
  <2>4. CASE ModeStep(u)
    BY <2>4 DEF ModeStep, LoadWarn, StoreDirect, StoreAmbiVS, Unwarn, LoadRequested
  <2>5. CASE ResetStep(u)
    BY <2>5 DEF ResetStep, ResetReject, ResetTelemetry, ResetStrikes,
                ResetWarning, ResetDemoted, ResetAccept
  <2> QED BY <1>2, <2>1, <2>2, <2>3, <2>4, <2>5
<1>3. CASE ClearStrikes \/ ClearStep \/ CooledDown \/ Heartbeat \/ Initialize
  <2>1. UNCHANGED <<modeVars, pc>>
    BY <1>3 DEF ClearStrikes, ClearStep, ClearDemoted, ClearWarning, ClearTelemetry,
          CooledDown, Heartbeat, StartHeartbeatTimer, StopHeartbeatTimer, Initialize,
          DrainTruncated, DrainDemoted, SendDiag, DrainReset, DrainUntimed
  <2> QED BY <2>1
<1>4. CASE AudioStep
  <2>1. UNCHANGED <<requested, warn, pc>> /\ effective' \in {effective, "Direct"}
    BY <1>4 DEF AudioStep, Observe, Arm, Render, Measure, Demote, Snapshot, Latch,
          Clamp, Finish
  <2> QED BY <2>1
<1> QED BY <1>1, <1>2, <1>3, <1>4 DEF Next

\* Direct is effective whenever it was asked for last or the probe warns, once
\* the commanding thread is outside setRequestedMode and runThroughputProbe;
\* the audio thread's clamp and the resets keep it so.
THEOREM RequestAlwaysHonoured ==
    ASSUME Alone
    PROVE  Spec => []RequestHonoured
<1> DEFINE Inv == RequestInv /\ pc \in [Users -> Labels]
<1>1. Init => Inv
  BY DEF Init, RequestInv, Modes, Labels, ResetLabels
<1>2. Inv /\ [Next]_vars => Inv'
  BY StepRequest
<1>3. Inv => RequestHonoured
  BY DEF RequestInv, RequestHonoured, At, Alone
<1> QED BY <1>1, <1>2, <1>3, PTL DEF Spec

-------------------------------------------------------------------------------
(* The warning of a demotion *)

Resetting == {"telemetry", "strikes", "warning", "demoted"}

\* Who is inside a reset or a clear has been recorded, and what a demotion
\* stores is there until one of them takes it away.
ToldInv ==
    /\ lifted \in BOOLEAN
    /\ ctl \in {"idle", "demoted", "warning", "telemetry"}
    /\ ctl # "idle" => audio = "idle"
    /\ ctl = "demoted" => lifted
    /\ ctl \in {"warning", "telemetry"} => ~demoted
    /\ \A u \in Users : pc[u] \in Resetting => lifted
    /\ audio \in {"snapshot", "latch"} => ~told
    /\ demoted /\ ~lifted /\ audio # "snapshot" => snapshot
    /\ demoted /\ ~lifted /\ audio \notin {"snapshot", "latch"} => warning \/ told

LEMMA StepTold ==
    ASSUME Prompt, pc \in [Users -> Labels], ToldInv, [Next]_vars
    PROVE  ToldInv' /\ pc' \in [Users -> Labels]
<1> USE DEF ToldInv, Resetting, Labels, ResetLabels, At, Goto, Begin
<1> USE DEF modeVars, demoteVars, resetVars, xfadeVars, audioVars, ghostVars, settings
<1>1. CASE UNCHANGED vars
  BY <1>1 DEF vars
<1>2. ASSUME NEW u \in Users,
             \/ RequestDirect(u) \/ RequestAmbiVS(u) \/ Probe(u) \/ Enable(u)
             \/ ResetBegin(u) \/ ModeStep(u) \/ ResetStep(u)
      PROVE  ToldInv' /\ pc' \in [Users -> Labels]
  <2>1. CASE RequestDirect(u) \/ RequestAmbiVS(u) \/ Probe(u) \/ Enable(u)
    BY <2>1 DEF RequestDirect, RequestAmbiVS, Probe, Enable
  <2>2. CASE ResetBegin(u)
    BY <2>2 DEF ResetBegin
  <2>3. CASE ModeStep(u)
    BY <2>3 DEF ModeStep, LoadWarn, StoreDirect, StoreAmbiVS, Unwarn, LoadRequested
  <2>4. CASE ResetStep(u)
    BY <2>4 DEF ResetStep, ResetReject, ResetTelemetry, ResetStrikes,
                ResetWarning, ResetDemoted, ResetAccept
  <2> QED BY <1>2, <2>1, <2>2, <2>3, <2>4
<1>3. CASE ClearStrikes
  BY <1>3 DEF ClearStrikes
<1>4. CASE ClearStep
  BY <1>4 DEF ClearStep, ClearDemoted, ClearWarning, ClearTelemetry
<1>5. CASE Initialize
  BY <1>5 DEF Initialize
<1>6. CASE CooledDown
  BY <1>6 DEF CooledDown
<1>7. CASE AudioStep
  <2>1. CASE Observe \/ Arm \/ Render \/ Measure \/ Finish
    BY <2>1 DEF Observe, Arm, Render, Measure, Finish
  <2>2. CASE Demote
    BY <2>2 DEF Demote, Lifting
  <2>3. CASE Snapshot \/ Latch \/ Clamp
    BY <2>3 DEF Snapshot, Latch, Clamp
  <2> QED BY <1>7, <2>1, <2>2, <2>3 DEF AudioStep
<1>8. CASE Heartbeat
  <2>1. CASE DrainDemoted
    <3>1. /\ UNCHANGED <<ctl, audio, lifted, demoted, snapshot, pc>>
          /\ audio \notin {"snapshot", "latch"} => told'
          /\ audio \in {"snapshot", "latch"} => ~told'
      BY <2>1 DEF DrainDemoted
    <3> QED BY <3>1
  <2>2. CASE Heartbeat /\ ~DrainDemoted
    <3>1. UNCHANGED <<ctl, audio, lifted, demoted, snapshot, pc, told, warning>>
      BY <2>2 DEF Heartbeat, StartHeartbeatTimer, StopHeartbeatTimer, DrainTruncated,
            SendDiag, DrainReset, DrainUntimed
    <3> QED BY <3>1
  <2> QED BY <1>8, <2>1, <2>2
<1> QED BY <1>1, <1>2, <1>3, <1>4, <1>5, <1>6, <1>7, <1>8 DEF Next

\* The warning of a demotion that nobody has begun to lift waits in its latch or
\* has been drained by the heartbeat, with the figures of that demotion, for
\* any number of users, when no block runs during the clear of a swap.
THEOREM DemotionAlwaysTold ==
    ASSUME Prompt
    PROVE  Spec => []DemotionTold
<1> DEFINE Inv == ToldInv /\ pc \in [Users -> Labels]
<1>1. Init => Inv
  BY DEF Init, ToldInv, Resetting, Labels
<1>2. Inv /\ [Next]_vars => Inv'
  BY StepTold
<1>3. Inv => DemotionTold
  BY DEF ToldInv, DemotionTold
<1> QED BY <1>1, <1>2, <1>3, PTL DEF Spec

-------------------------------------------------------------------------------
(* The fades of one object *)

FadeTypes ==
    /\ place \in Places /\ front \in Slots
    /\ ir \in [Slots -> Places \cup {Zeros}]
    /\ sounding \in BOOLEAN /\ fading \in BOOLEAN /\ primed \in BOOLEAN
    /\ stage \in {"idle", "render"}

\* While a block is rendered a fade has just begun, or none is under way;
\* between blocks a fade has come half way.
GainsTrue ==
    /\ stage = "render" => \/ ~fading /\ new = Fixed(Full)
                           \/ /\ fading /\ new = Toward(0, Full)
                              /\ old \in {Toward(Full, 0), Toward(2, 0)}
                              /\ ir[Back] \in Places
    /\ stage = "render" => ir[front] = place /\ primed
    /\ stage = "idle" /\ fading => new.now = 2
    /\ primed => ir[front] \in Places
    /\ ended # Nothing => \E d \in Places : ended[d] >= 2

FadeInv == FadeTypes /\ GainsTrue

LEMMA InitFade == FadeInit => FadeInv
BY DEF FadeInit, FadeInv, FadeTypes, GainsTrue, Slots

\* One block of a ramp that has just begun.
LEMMA FirstBlock ==
    /\ Advanced(Toward(0, Full)).now = 2
    /\ Advanced(Toward(0, Full)).left = 1
    /\ \A r \in {Toward(Full, 0), Toward(2, 0)} : Advanced(r).now \in {1, 2}
BY DEF Advanced, Toward, Full, FadeLen

\* The block that is rendered leaves one direction at half its level or more.
LEMMA RenderFade ==
    ASSUME FadeInv, RenderObject
    PROVE  FadeInv'
<1> USE DEF FadeInv, FadeTypes, GainsTrue, RenderObject, Slots
<1>1. /\ stage = "render" /\ stage' = "idle"
      /\ UNCHANGED <<place, sounding, front, ir, primed>>
      /\ ir[front] = place /\ place \in Places
  OBVIOUS
<1>2. FadeTypes'
  <2>1. fading' \in BOOLEAN
    OBVIOUS
  <2> QED BY <1>1, <2>1
<1>3. fading' => fading
  OBVIOUS
<1>4. fading => new'.now = 2 /\ new'.left = 1 /\ old'.now \in {1, 2} /\ fading'
  <2> SUFFICES ASSUME fading
               PROVE  new'.now = 2 /\ new'.left = 1 /\ old'.now \in {1, 2} /\ fading'
    OBVIOUS
  <2>1. new = Toward(0, Full) /\ old \in {Toward(Full, 0), Toward(2, 0)}
    OBVIOUS
  <2>2. new' = Advanced(new) /\ old' = Advanced(old)
    OBVIOUS
  <2>3. new'.now = 2 /\ new'.left = 1 /\ old'.now \in {1, 2}
    BY <2>1, <2>2, FirstBlock
  <2>4. fading' = (fading /\ (new'.left > 0 \/ old'.left > 0))
    BY DEF RenderObject
  <2>5. new'.left > 0
    BY <2>3
  <2>6. fading'
    <3> HIDE DEF FadeInv, FadeTypes, GainsTrue, RenderObject
    <3> QED BY <2>4, <2>5
  <2> QED BY <2>3, <2>6
<1>5. GainOf(place)' >= 2
  <2>1. CASE fading
    <3>1. SlotGain(front)' = 2
      BY <2>1, <1>1, <1>4 DEF SlotGain
    <3>2. \A s \in Slots : SlotGain(s)' \in {1, 2}
      BY <2>1, <1>1, <1>4 DEF SlotGain
    <3>3. /\ SlotGain(0)' \in {1, 2} /\ SlotGain(1)' \in {1, 2}
          /\ front = 0 => SlotGain(0)' = 2
          /\ front = 1 => SlotGain(1)' = 2
      BY <3>1, <3>2, <1>1
    <3> QED BY <3>3, <1>1 DEF GainOf
  <2>2. CASE ~fading
    <3>1. \A s \in Slots : SlotGain(s)' = IF s = front THEN Full ELSE 0
      BY <2>2, <1>1, <1>3 DEF SlotGain
    <3> QED BY <3>1, <1>1 DEF GainOf, Full
  <2> QED BY <2>1, <2>2
<1>6. ended'[place] >= 2
  BY <1>1, <1>5 DEF Heard
<1> QED BY <1>1, <1>2, <1>4, <1>3, <1>6

\* A block begins: the slot behind takes the response and comes to the front.
LEMMA DirectFade ==
    ASSUME FadeInv, SetDirection
    PROVE  FadeInv'
<1> USE DEF FadeInv, FadeTypes, GainsTrue, SetDirection, Slots
<1>1. /\ stage = "idle" /\ stage' = "render"
      /\ UNCHANGED <<place, sounding, ended>>
      /\ front' = Back /\ front' \in Slots /\ front' # front /\ Back' = front
      /\ ir' = [ir EXCEPT ![front'] = place]
  BY DEF LoadInto, Back
<1>2. ir'[front'] = place /\ ir'[Back'] = ir[front]
  BY <1>1
<1>3. CASE primed
  <2>1. fading' = TRUE /\ new' = Toward(0, Full) /\ primed'
    BY <1>3 DEF StartFade
  <2>2. old' \in {Toward(Full, 0), Toward(2, 0)}
    BY <1>1, <1>3 DEF StartFade
  <2> QED BY <1>1, <1>2, <1>3, <2>1, <2>2
<1>4. CASE ~primed
  <2>1. fading' = FALSE /\ new' = Fixed(Full) /\ primed' = TRUE
    BY <1>4 DEF Snap
  <2> QED BY <1>1, <1>2, <2>1
<1> QED BY <1>3, <1>4

LEMMA StepFade ==
    ASSUME FadeInv, [FadeNext]_fadeVars
    PROVE  FadeInv'
<1> USE DEF FadeInv, FadeTypes, GainsTrue, slotVars, Back
<1>1. CASE UNCHANGED fadeVars
  BY <1>1 DEF fadeVars, Nothing
<1>2. CASE MovePlace
  BY <1>2 DEF MovePlace, Nothing
<1>3. CASE SwitchSound
  BY <1>3 DEF SwitchSound, Nothing
<1>4. CASE SkipObject
  BY <1>4 DEF SkipObject, Nothing
<1>5. CASE PrimeAgain
  <2>1. primed' => ir'[front'] \in Places
    BY <1>5 DEF PrimeAgain, Slots
  <2>2. FadeTypes'
    BY <1>5 DEF PrimeAgain, Slots
  <2>3. stage' = "idle" /\ fading' = FALSE /\ ended' = Nothing
    BY <1>5 DEF PrimeAgain
  <2> QED BY <2>1, <2>2, <2>3 DEF Nothing
<1> HIDE DEF FadeInv
<1> QED BY <1>1, <1>2, <1>3, <1>4, <1>5, RenderFade, DirectFade DEF FadeNext

\* However often a fade is cut short by the next direction, the object is heard
\* at half to full level at every boundary of a block, and the slot in front
\* is the one of its last direction (BinauralMonitor's setDirection and ramps).
THEOREM LevelAlwaysKept == FadeSpec => []LevelKept
<1>1. FadeInv => LevelKept
  <2> SUFFICES ASSUME FadeInv PROVE LevelKept
    OBVIOUS
  <2> USE DEF FadeInv, FadeTypes, GainsTrue, Slots
  <2>1. ASSUME stage = "render" PROVE Loudness \in 2 .. Full
    <3>1. ir[front] # Zeros
      BY <2>1, PlacesAssumption
    <3>2. CASE ~fading
      BY <2>1, <3>1, <3>2 DEF Loudness, SlotGain, Full
    <3>3. CASE fading
      <4>1. /\ new.now = 0 /\ old.now \in {2, 4} /\ ir[Back] # Zeros
        BY <2>1, <3>3, PlacesAssumption DEF Toward, Fixed, Full
      <4> QED BY <3>1, <3>3, <4>1 DEF Loudness, SlotGain, Full, Back
    <3> QED BY <3>2, <3>3
  <2> QED BY <2>1 DEF LevelKept
<1> QED BY <1>1, InitFade, StepFade, PTL DEF FadeSpec

===============================================================================
