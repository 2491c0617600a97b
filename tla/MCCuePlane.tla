----------------------------- MODULE MCCuePlane -----------------------------
(* Two objects, the second of them muted in both scenes; a cue that snaps,  *)
(* one that fades and, with a dwell, leads on.                              *)
EXTENDS CuePlane

Frame(p1, p2) ==
    [o \in Objects |-> IF o = 0 THEN [pos |-> p1, active |-> TRUE]
                               ELSE [pos |-> p2, active |-> FALSE]]

MCSceneFrame ==
    [s \in {"verse", "outro"} |-> IF s = "verse" THEN Frame(4, 2) ELSE Frame(2, 4)]

MCCueLists ==
    {<<[scene |-> "verse", fade |-> 1, dwell |-> 0],
       [scene |-> "outro", fade |-> 0, dwell |-> -1]>>}

MCClockSteps == {1}
MCIndices == {0, 1}

GoCue(i) == [tag |-> "go", index |-> i]
MCPackets == {GoCue(0), GoCue(1), ObjMove(0, 6), ObjActive(0, FALSE)}
=============================================================================
