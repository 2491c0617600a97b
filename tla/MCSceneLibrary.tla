---------------------------- MODULE MCSceneLibrary ----------------------------
(***************************************************************************)
(* The scene library: its operations on files, and the text of the files.  *)
(* They share no state, so each behaviour exercises one of them.           *)
(***************************************************************************)
EXTENDS SceneLibrary, SceneText

VARIABLE focus
allVars == <<libraryVars, textVars, focus>>

n == Word("n")
MCNames == {<<n>>, <<n, Close>>, <<n, Quote, n>>, <<n, Word(".")>>}
MCObjects == [id : {3}, az : {0, 1234567}, muted : BOOLEAN, width : {0, 42}]
MCCues == [scene : {<<n>>, <<n, Close>>}, fade : {-5, 1234567},
           dwell : {<<>>, Word("null"), Num(7), Num(-5)}]
MCEntries == [name : {<<n>>, <<n, Close>>}, tags : {<<>>, <<n, n>>}, note : {<<>>, <<n>>, <<n, Close>>}]
UpToTwo(S) == UNION {[1 .. k -> S] : k \in 0 .. 2}
MCDocuments ==
    [kind : {"scene"}, name : MCNames, objects : UpToTwo(MCObjects)]
    \cup [kind : {"cues"}, cues : UpToTwo(MCCues)]
    \cup [kind : {"index"}, entries : UpToTwo(MCEntries)]

\* An empty directory, and an empty cue list, at rest.
LibraryAtRest == \A f \in Names : disk[f] = Absent
TextAtRest == doc = [kind |-> "cues", cues |-> <<>>]

FocusInit ==
    /\ LibraryInit /\ TextInit
    /\ \/ focus = "library" /\ TextAtRest
       \/ focus = "text" /\ LibraryAtRest

FocusNext ==
    \/ focus = "library" /\ LibraryNext /\ UNCHANGED <<textVars, focus>>
    \/ focus = "text" /\ TextNext /\ UNCHANGED <<libraryVars, focus>>

FocusSpec == FocusInit /\ [][FocusNext]_allVars
===============================================================================
