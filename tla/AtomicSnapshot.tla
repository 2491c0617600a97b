--------------------------- MODULE AtomicSnapshot ---------------------------
(***************************************************************************)
(* What SpatialEngine promises to whoever saves a scene: the audio thread  *)
(* replaces the whole object table at once, and a snapshot call returns    *)
(* one table that was the current one at some instant between the call and *)
(* its return.  No buffers, no claims, no per-object copies: this is the   *)
(* specification that SnapshotBuffer is shown to implement.                *)
(***************************************************************************)
EXTENDS Naturals

CONSTANT Objects       \* the slots of the object table (0..MAX_OBJECTS-1)

VARIABLES
    latest,            \* the table the audio thread published last
    call,              \* "idle", "open" (called) or "taken" (value fixed)
    result             \* the table the last finished call took

aVars == <<latest, call, result>>

Version(n) == [o \in Objects |-> n]

AInit ==
    /\ latest = Version(0)
    /\ call = "idle"
    /\ result = Version(0)

\* A dirty block: every slot moves to the next version in one step.
APublish ==
    /\ latest' = [o \in Objects |-> latest[o] + 1]
    /\ UNCHANGED <<call, result>>

AOpen ==
    /\ call = "idle"
    /\ call' = "open"
    /\ UNCHANGED <<latest, result>>

\* The linearization point: the value is fixed while the call is open.
ATake ==
    /\ call = "open"
    /\ call' = "taken"
    /\ result' = latest
    /\ UNCHANGED latest

AClose ==
    /\ call = "taken"
    /\ call' = "idle"
    /\ UNCHANGED <<latest, result>>

ANext == APublish \/ AOpen \/ ATake \/ AClose

ASpec == AInit /\ [][ANext]_aVars
=============================================================================
