----------------------------- MODULE ShmTelemetry ------------------------------
(***************************************************************************)
(* What a client is told of the shared-memory ring: once a second the      *)
(* control loop polls the ring's header and the counters of the worker,    *)
(* and sends warnings for counters that have grown and levels that have    *)
(* changed.  What cannot be sent, because no client has been heard yet, is *)
(* kept.                                                                   *)
(*                                                                         *)
(* Time is counted in passes of the loop.  Blocks are numbered, and the    *)
(* number of the last one written stands for its presentation time.  Of a  *)
(* counter it is kept whether it is above the value the emitter has last   *)
(* reported.  The ring itself is SharedRing.                               *)
(***************************************************************************)
EXTENDS Naturals

CONSTANTS
    PlayerStates,  \* values of producer_state
    StaleLimit,    \* kStaleRateLimitMs, in seconds
    PacingLimit,   \* kPacingRateLimitMs, in seconds
    MaxBlocks      \* bound: blocks the player writes

ASSUME TelemetryAssumption == {StaleLimit, PacingLimit, MaxBlocks} \subseteq Nat

Levels == {"alive", "state", "locked"}    \* the keys of /sys/state
Unset  == MaxBlocks + 1

VARIABLES
    producer,    \* the player process: "alive" or "dead"
    late,        \* its heartbeat is older than kStaleThresholdMs
    pstate,      \* producer_state
    written,     \* the last block in the ring
    consumed,    \* the last block rendered
    grown,       \* codes whose counter is above its prev_
    seeded,
    noData,      \* attached_no_data_latched_
    prevPts,     \* prev_pts_ns_
    staleAgo,    \* since last_stale_warn_ms_
    pacingAgo,   \* since last_pacing_warn_ms_
    cached,      \* prev_producer_alive_, prev_producer_state_, prev_consumer_locked_
    pending,     \* the levels to be sent
    client,      \* a client has been heard
    up,          \* the loop runs
    owed,        \* ghost: an underrun since the first pass was not told
    shown        \* ghost: the levels the client was told last

ringState == <<producer, late, pstate, written, consumed>>
pollState == <<noData, prevPts, staleAgo, pacingAgo>>
emitState == <<seeded, cached, pending>>
telemetryVars ==
    <<ringState, grown, pollState, emitState, client, up, owed, shown>>

TelemetryInit ==
    /\ producer = "alive" /\ late = FALSE /\ pstate \in PlayerStates
    /\ written = 0 /\ consumed = 0
    /\ grown = {} /\ seeded = FALSE /\ noData = FALSE /\ prevPts = Unset
    /\ staleAgo = StaleLimit /\ pacingAgo = PacingLimit
    /\ cached = [k \in Levels |-> Unset] /\ pending = {}
    /\ client \in BOOLEAN /\ up = TRUE
    /\ owed = FALSE /\ shown = [k \in Levels |-> Unset]

-------------------------------------------------------------------------------
(* The player, the worker and the client                                    *)

PlayerWrites ==
    /\ producer = "alive" /\ written < MaxBlocks /\ written' = written + 1
    /\ UNCHANGED <<producer, late, pstate, consumed, grown, pollState, emitState, client, up,
                   owed, shown>>

PlayerMoves ==                                  \* idle, playing, paused, ...
    /\ producer = "alive" /\ pstate' \in PlayerStates \ {pstate}
    /\ UNCHANGED <<producer, late, written, consumed, grown, pollState, emitState, client, up,
                   owed, shown>>

PlayerStalls ==
    /\ producer = "alive" /\ ~late /\ late' = TRUE
    /\ UNCHANGED <<producer, pstate, written, consumed, grown, pollState, emitState, client, up,
                   owed, shown>>

PlayerBeats ==
    /\ producer = "alive" /\ late /\ late' = FALSE
    /\ UNCHANGED <<producer, pstate, written, consumed, grown, pollState, emitState, client, up,
                   owed, shown>>

PlayerEnds ==                                   \* its heartbeat ages at once
    /\ producer = "alive" /\ producer' = "dead" /\ late' = TRUE
    /\ UNCHANGED <<pstate, written, consumed, grown, pollState, emitState, client, up, owed,
                   shown>>

\* A block from the ring, or silence and a count.  Counts before the first pass
\* are part of the baseline seed() takes.
PumpCounted ==
    /\ up
    /\ \/ /\ consumed < written /\ consumed' = consumed + 1
          /\ UNCHANGED <<grown, owed>>
       \/ /\ consumed = written /\ UNCHANGED consumed
          /\ grown' = IF seeded THEN grown \cup {"underrun"} ELSE grown
          /\ owed' = (owed \/ seeded)
    /\ UNCHANGED <<producer, late, pstate, written, pollState, emitState, client, up, shown>>

ClientHeard ==
    /\ ~client /\ client' = TRUE
    /\ UNCHANGED <<ringState, grown, pollState, emitState, up, owed, shown>>

Quit ==
    /\ up /\ up' = FALSE
    /\ UNCHANGED <<ringState, grown, pollState, emitState, client, owed, shown>>

-------------------------------------------------------------------------------
(* poll_diagnostics(): the counters that grow in this pass                   *)

AttachedNoData == ~noData /\ written = 0 /\ consumed = 0
StaleCounted   == late /\ staleAgo >= StaleLimit

\* The presentation time has moved by more than a block, since the last pass.
PacingCounted  == prevPts \notin {Unset, written} /\ written - prevPts > 1
                  /\ pacingAgo >= PacingLimit

Polled == {c \in {"no_data", "stale", "pacing"} :
             \/ c = "no_data" /\ AttachedNoData
             \/ c = "stale"   /\ StaleCounted
             \/ c = "pacing"  /\ PacingCounted}

Ago(n, limit, reset) == IF reset THEN 1 ELSE IF n >= limit THEN limit ELSE n + 1

PollDiagnostics ==
    /\ noData' = (noData \/ AttachedNoData)
    /\ prevPts' = written
    /\ staleAgo' = Ago(staleAgo, StaleLimit, StaleCounted)
    /\ pacingAgo' = Ago(pacingAgo, PacingLimit, PacingCounted)

-------------------------------------------------------------------------------
(* ShmTelemetryEmitter::tick()                                               *)

\* Mutant of Kept: what was tried counts as told.
KeptNever(S) == {}

\* What was not sent is kept for the next pass.
Kept(S) == IF client THEN {} ELSE S

\* The first pass takes the counters as they are for its baseline.
Warnings == IF seeded THEN grown \cup Polled ELSE {}

EmitWarnings ==
    /\ grown' = Kept(Warnings)
    /\ owed' = (owed /\ ~("underrun" \in Warnings /\ client))

ProducerAlive  == IF late THEN 0 ELSE 1
ConsumerLocked == 1                             \* by this process, while it runs
Level == [k \in Levels |-> CASE k = "alive"  -> ProducerAlive
                             [] k = "state"  -> pstate
                             [] k = "locked" -> ConsumerLocked]

\* The first pass sends every level.
Changed == {k \in Levels : ~seeded \/ Level[k] # cached[k]}

EmitState ==
    /\ cached' = Level
    /\ pending' = Kept(pending \cup Changed)
    /\ shown' = [k \in Levels |-> IF client /\ k \in pending \cup Changed THEN Level[k]
                                  ELSE shown[k]]

\* The loop polls before it ticks.
TelemetryPass ==
    /\ up
    /\ PollDiagnostics /\ EmitWarnings /\ EmitState /\ seeded' = TRUE
    /\ UNCHANGED <<ringState, client, up>>

-------------------------------------------------------------------------------
TelemetryNext ==
    \/ PlayerWrites \/ PlayerMoves \/ PlayerStalls \/ PlayerBeats \/ PlayerEnds
    \/ PumpCounted \/ ClientHeard \/ TelemetryPass \/ Quit

\* The loop passes as long as it runs; nobody else has to do anything.
TelemetrySpec == TelemetryInit /\ [][TelemetryNext]_telemetryVars /\ WF_telemetryVars(TelemetryPass)

-------------------------------------------------------------------------------
(* Properties *)

\* An underrun after the first pass and the death of the player are told to a
\* client, also to one that is heard only later (ShmTelemetryEmitter.h:122, 208).
TroubleTold ==
    /\ owed /\ client ~> ~owed \/ ~up
    /\ producer = "dead" /\ client ~> shown["alive"] = 0 \/ ~up
===============================================================================
