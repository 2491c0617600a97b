----------------------------- MODULE MCCueEngine -----------------------------
(* A small show: three scenes of two objects, the second of which one scene *)
(* leaves out, and two cue lists.                                           *)
EXTENDS CueEngine

Frame(p1, a1, p2, a2) ==
    [o \in Objects |-> IF o = "obj1" THEN [pos |-> p1, active |-> a1]
                                     ELSE [pos |-> p2, active |-> a2]]

MCSceneFrame ==
    [s \in {"intro", "verse", "outro"} |->
        CASE s = "intro" -> Frame(0, TRUE, 6, TRUE)
          [] s = "verse" -> Frame(6, TRUE, 0, FALSE)
          [] s = "outro" -> Frame(2, FALSE, 2, TRUE)]

Cue(scene, fade, dwell) == [scene |-> scene, fade |-> fade, dwell |-> dwell]

MCCueLists ==
    {<<>>,
     <<Cue("intro", 2, 1), Cue("verse", 3, 0), Cue("outro", 0, 1)>>,
     <<Cue("verse", 0, 2), Cue("intro", 3, NoDwell)>>}

MCClockSteps == {-1, 0, 1, 3}
MCIndices == {-1, 1, 5}
==============================================================================
