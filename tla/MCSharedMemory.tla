---------------------------- MODULE MCSharedMemory ----------------------------
(***************************************************************************)
(* The shared-memory backend: the ring between the processes, and what a   *)
(* client is told of it.  They share no state (the telemetry counts blocks *)
(* where the ring counts frames), so each behaviour exercises one of them  *)
(* and leaves the other at rest.                                           *)
(***************************************************************************)
EXTENDS SharedRing, ShmTelemetry

VARIABLE focus
allVars == <<vars, telemetryVars, focus>>

Geometry(channels, capacity, block, rate) ==
    [magic |-> TRUE, channels |-> channels, capacity |-> capacity, block |-> block,
     rate |-> rate, short |-> FALSE]
MCGood == Geometry(2, 4, 2, 48000)

\* Two blocks fit; the others are refused for channels, capacity, divisor, rate
\* and size.
MCHeaders == {MCGood, Geometry(65, 4, 2, 48000), Geometry(2, 3, 2, 48000),
              Geometry(2, 4, 3, 48000), Geometry(2, 4, 2, 0),
              [MCGood EXCEPT !.short = TRUE]}

\* A new region, one left with a block unread, one overrun, one corrupted.
MCBacklogs == {<<0, 0>>, <<0, 2>>, <<0, 6>>, <<4, 2>>}

RingAtRest == life = "absent" /\ hdr = MCGood
TellAtRest == client = FALSE /\ pstate = CHOOSE s \in PlayerStates : TRUE

FocusInit ==
    /\ Init /\ TelemetryInit
    /\ \/ focus = "ring" /\ TellAtRest
       \/ focus = "telemetry" /\ RingAtRest

OnRing(A)      == focus = "ring" /\ A /\ UNCHANGED <<telemetryVars, focus>>
OnTelemetry(A) == focus = "telemetry" /\ A /\ UNCHANGED <<vars, focus>>

FocusNext == OnRing(Next) \/ OnTelemetry(TelemetryNext)

FocusSpec == FocusInit /\ [][FocusNext]_allVars /\ WF_allVars(OnTelemetry(TelemetryPass))
===============================================================================
