----------------------------- MODULE MCAudioThread -----------------------------
(***************************************************************************)
(* Structures with one owner that share no state: the object table the     *)
(* audio thread hands over, the gain cache of its renderer, the samples of *)
(* the time code, and the object state kept by sequence number.  Each      *)
(* behaviour exercises one of them and leaves the others at rest.          *)
(***************************************************************************)
EXTENDS SnapshotBuffer, GainCache, LtcChase, StateModel

VARIABLE focus
allVars == <<vars, cacheVars, ltcVars, stateVars, focus>>

AtRest == [o \in 1 .. Active |-> CHOOSE k \in Keys : TRUE]

\* Two objects, one that does not exist, and commands about none.
Sent ==
    <<[tag |-> "ObjMove", obj |-> 0], [tag |-> "ObjGain", obj |-> 0],
      [tag |-> "ObjActive", obj |-> 1], [tag |-> "ObjMove", obj |-> 0],
      [tag |-> "SysReset"], [tag |-> "ObjAlgo", obj |-> 1],
      [tag |-> "ObjGain", obj |-> 2], [tag |-> "SysAlgoSwap"], [tag |-> "HbPing"]>>

FocusInit ==
    /\ focus \in {"table", "gains", "timecode", "numbers"}
    /\ Init /\ CacheInit /\ LtcInit /\ StateInit
    /\ focus # "gains" => scene = AtRest

OnTable(A)    == focus = "table" /\ A /\ UNCHANGED <<cacheVars, ltcVars, stateVars, focus>>
OnGains(A)    == focus = "gains" /\ A /\ UNCHANGED <<vars, ltcVars, stateVars, focus>>
OnTimecode(A) == focus = "timecode" /\ A /\ UNCHANGED <<vars, cacheVars, stateVars, focus>>
OnNumbers(A)  == focus = "numbers" /\ A /\ UNCHANGED <<vars, cacheVars, ltcVars, focus>>

FocusNext == OnTable(Next) \/ OnGains(CacheNext) \/ OnTimecode(LtcNext) \/ OnNumbers(StateNext)

FocusSpec ==
    /\ FocusInit /\ [][FocusNext]_allVars
    /\ WF_allVars(OnGains(Lookup))

\* The gains used are those of the object's bin, whatever is evicted, and once
\* nothing moves every object is rendered from the cache (VBAPRenderer.cpp:74).
CacheServes == focus = "gains" => []CacheSound /\ SceneSettles
===============================================================================
