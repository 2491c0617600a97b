------------------------------ MODULE MCBinaural ------------------------------
(***************************************************************************)
(* The binaural monitor: which mode is heard, and in Direct mode the       *)
(* search for the measured position nearest to an object and the fade from *)
(* one to the next.  They share no state, so each behaviour exercises one  *)
(* of the three and leaves the others at rest.                             *)
(***************************************************************************)
EXTENDS BinauralModes, ObjectFade, KdTree

VARIABLE focus
allVars == <<vars, fadeVars, treeVars, focus>>

\* Trees of three levels, with positions that coincide or share planes.
MCTables == {
    <<<<0, 0, 0>>, <<1, 0, 0>>, <<0, 1, 0>>, <<1, 2, 1>>, <<2, 1, 0>>, <<1, 1, 2>>, <<2, 0, 1>>>>,
    <<<<0, 0, 0>>, <<0, 0, 0>>, <<0, 2, 1>>, <<3, 1, 0>>, <<3, 1, 2>>, <<1, 3, 3>>>>,
    <<<<1, 1, 1>>>>}
MCQueries == (0 .. 3) \X (0 .. 2) \X (0 .. 2)

ModesAtRest == ~enabled /\ fast
FadeAtRest  == ~sounding /\ place = CHOOSE p \in Places : TRUE
TreeAtRest  == Len(positions) = 1

FocusInit ==
    /\ Init /\ FadeInit /\ TreeInit
    /\ \/ focus = "modes" /\ FadeAtRest /\ TreeAtRest
       \/ focus = "object" /\ ModesAtRest /\ TreeAtRest
       \/ focus = "lookup" /\ ModesAtRest /\ FadeAtRest

OnModes(A)  == focus = "modes" /\ A /\ UNCHANGED <<fadeVars, treeVars, focus>>
OnObject(A) == focus = "object" /\ A /\ UNCHANGED <<vars, treeVars, focus>>
OnLookup(A) == focus = "lookup" /\ A /\ UNCHANGED <<vars, fadeVars, focus>>

FocusNext == OnModes(Next) \/ OnObject(FadeNext) \/ OnLookup(TreeNext)

FocusSpec ==
    /\ FocusInit /\ [][FocusNext]_allVars
    /\ WF_allVars(OnModes(AudioStep)) /\ WF_allVars(OnModes(ClearStep))
===============================================================================
