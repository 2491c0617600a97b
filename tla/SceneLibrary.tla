----------------------------- MODULE SceneLibrary -----------------------------
(***************************************************************************)
(* SceneController and SceneSnapshot: a directory with one .json file per  *)
(* scene and index.json, which holds what the scene files do not: tags and *)
(* notes.  Every command runs on the control loop: it changes a scene      *)
(* file, then the index in memory, then writes index.json.  The program    *)
(* may die between any two of these, and a file that was opened for        *)
(* writing is empty until the write arrives.                               *)
(*                                                                         *)
(* A file's contents are what a reader can tell apart: absent, torn (empty *)
(* or cut off), the scene of a given save, or an index.  Any other .json   *)
(* file of the directory, cuelist.json for one, is listed like a scene.  A *)
(* note stands for the note and the tags; what the parser makes of a note  *)
(* is ReadBack.  Entries' times are left out, and so are operations the    *)
(* file system refuses before they change anything: they return false.     *)
(***************************************************************************)
EXTENDS Naturals, Sequences, FiniteSets, SequencesExt

CONSTANTS
    Scenes,      \* the scene names, without IndexName
    IndexName,   \* "index": the stem of index.json
    Arguments,   \* the names commands may carry
    NoNote,      \* the empty note
    Notes,       \* the notes /scene/meta may set
    Braced,      \* those with a closing brace
    MaxSaves, MaxFaults, MaxCrashes   \* bounds of a run

Names == Scenes \cup {IndexName}

ASSUME LibraryAssumption ==
    /\ IsFiniteSet(Scenes) /\ IndexName \notin Scenes /\ Arguments \subseteq Names
    /\ Braced \subseteq Notes /\ NoNote \notin Notes
    /\ {MaxSaves, MaxFaults, MaxCrashes} \subseteq Nat

VARIABLES
    disk,      \* the contents of each file
    index,     \* index_.scenes
    pc,        \* what the control loop does next
    source,    \* the scene last copied, IndexName at first
    target,    \* the scene last written, IndexName at first
    diverged,  \* a write failed or was cut short since the last rescan
    saves, faults, crashes

libraryVars == <<disk, index, pc, source, target, diverged, saves, faults, crashes>>

-----------------------------------------------------------------------------
Entry(n, note) == [name |-> n, note |-> note]
Entries == [name : Scenes, note : Notes \cup {NoNote}]

Absent == [kind |-> "absent"]
Torn == [kind |-> "torn"]
Scene(k) == [kind |-> "scene", save |-> k]
Index(s) == [kind |-> "index", entries |-> s]

Exists(n) == disk[n] # Absent
SceneFiles == {n \in Names \ {IndexName} : Exists(n)}
Indexed == {index[i].name : i \in DOMAIN index}

\* The note of the first entry of that name, as findEntry finds it.
At(n) == SelectInSeq(index, LAMBDA e : e.name = n)
NoteOf(n) == IF n \in Indexed THEN index[At(n)].note ELSE NoNote

\* An entry is read up to its first closing brace, which may be the note's;
\* a note that is cut off there is read as none.
ReadBack(s) ==
    [i \in DOMAIN s |-> IF s[i].note \in Braced THEN [s[i] EXCEPT !.note = NoNote] ELSE s[i]]

-----------------------------------------------------------------------------
LibraryInit ==
    /\ disk \in [Names -> {Absent, Torn, Scene(0)}]
    /\ disk[IndexName] # Scene(0)
    /\ index = <<>>
    /\ pc = "down"
    /\ source = IndexName /\ target = IndexName
    /\ diverged = FALSE
    /\ saves = 0 /\ faults = 0 /\ crashes = 0

\* A write that fails.
Fault ==
    /\ faults < MaxFaults
    /\ faults' = faults + 1
    /\ diverged' = TRUE

-----------------------------------------------------------------------------
\* saveToDisk: opening the stream truncates the file.
SaveOpen(n) ==
    /\ pc = "ready" /\ saves < MaxSaves
    /\ saves' = saves + 1
    /\ disk' = [disk EXCEPT ![n] = Torn]
    /\ pc' = "save" /\ target' = n
    /\ UNCHANGED <<index, source, diverged, faults, crashes>>

SaveRecordedAlways ==
    pc' = "index" /\ index' = Append(index, Entry(target, NoNote))

\* The rest of SceneSave: only a new scene changes the index, and writes it.
SaveRecorded ==
    IF target \in Indexed
    THEN pc' = "ready" /\ UNCHANGED index
    ELSE pc' = "index" /\ index' = Append(index, Entry(target, NoNote))

SaveWrite ==
    /\ pc = "save"
    /\ disk' = [disk EXCEPT ![target] = Scene(saves)]
    /\ SaveRecorded
    /\ UNCHANGED <<source, target, diverged, saves, faults, crashes>>

\* The write fails.  good() is asked before the stream is flushed, so a short
\* scene, still in the buffer, counts as written.
SaveFails ==
    /\ pc = "save"
    /\ Fault
    /\ \/ pc' = "ready" /\ UNCHANGED index
       \/ SaveRecorded
    /\ UNCHANGED <<disk, source, target, saves, crashes>>

-----------------------------------------------------------------------------
\* rename: fs::rename is atomic and would replace the destination.
Move(a, b) ==
    /\ disk' = [disk EXCEPT ![b] = disk[a], ![a] = Absent]
    /\ index' = IF a \in Indexed
                THEN [index EXCEPT ![At(a)].name = b]
                ELSE Append(index, Entry(b, NoNote))
    /\ pc' = "index"
    /\ UNCHANGED <<source, target, diverged, saves, faults, crashes>>

RenameOver(a, b) == pc = "ready" /\ Exists(a) /\ a # b /\ Move(a, b)

Rename(a, b) == pc = "ready" /\ Exists(a) /\ ~Exists(b) /\ Move(a, b)

\* duplicate: fs::copy_file creates the file and then fills it.
DuplicateOpen(a, b) ==
    /\ pc = "ready"
    /\ Exists(a) /\ ~Exists(b)
    /\ disk' = [disk EXCEPT ![b] = Torn]
    /\ pc' = "copy" /\ source' = a /\ target' = b
    /\ UNCHANGED <<index, diverged, saves, faults, crashes>>

DuplicateWrite ==
    /\ pc = "copy"
    /\ disk' = [disk EXCEPT ![target] = disk[source]]
    /\ index' = Append(index, Entry(target, NoteOf(source)))
    /\ pc' = "index"
    /\ UNCHANGED <<source, target, diverged, saves, faults, crashes>>

\* What was copied so far stays.
DuplicateFails ==
    /\ pc = "copy"
    /\ Fault
    /\ pc' = "ready"
    /\ UNCHANGED <<disk, index, source, target, saves, crashes>>

\* remove: the entry is dropped whether or not the file could be removed.
DropEntry(n) ==
    index' = IF n \in Indexed THEN RemoveAt(index, At(n)) ELSE index

Delete(n) ==
    /\ pc = "ready"
    /\ \/ /\ disk' = [disk EXCEPT ![n] = Absent]
          /\ UNCHANGED <<diverged, faults>>
       \/ Exists(n) /\ Fault /\ UNCHANGED disk
    /\ DropEntry(n)
    /\ pc' = "index"
    /\ UNCHANGED <<source, target, saves, crashes>>

\* setMeta makes an entry for a file that has none.
SetMetaUnsaved(n, note) ==
    /\ pc = "ready" /\ n \in Indexed
    /\ index' = [index EXCEPT ![At(n)].note = note]
    /\ UNCHANGED <<disk, pc, source, target, diverged, saves, faults, crashes>>

SetMeta(n, note) ==
    /\ pc = "ready"
    /\ n \in Indexed \/ Exists(n)
    /\ index' = IF n \in Indexed
                THEN [index EXCEPT ![At(n)].note = note]
                ELSE Append(index, Entry(n, note))
    /\ pc' = "index"
    /\ UNCHANGED <<disk, source, target, diverged, saves, faults, crashes>>

-----------------------------------------------------------------------------
\* persistIndex, whose result no caller looks at.
IndexOpen ==
    /\ pc = "index"
    /\ disk' = [disk EXCEPT ![IndexName] = Torn]
    /\ pc' = "indexing"
    /\ UNCHANGED <<index, source, target, diverged, saves, faults, crashes>>

IndexWrite ==
    /\ pc = "indexing"
    /\ disk' = [disk EXCEPT ![IndexName] = Index(index)]
    /\ pc' = "ready"
    /\ UNCHANGED <<index, source, target, diverged, saves, faults, crashes>>

\* The file cannot be opened, or its write fails.
IndexFails ==
    /\ pc \in {"index", "indexing"}
    /\ Fault
    /\ pc' = "ready"
    /\ UNCHANGED <<disk, index, source, target, saves, crashes>>

-----------------------------------------------------------------------------
\* The program ends, in the middle of an operation or not.
Crash ==
    /\ pc # "down" /\ crashes < MaxCrashes
    /\ crashes' = crashes + 1
    /\ diverged' = (diverged \/ pc # "ready")
    /\ index' = <<>>
    /\ pc' = "down"
    /\ UNCHANGED <<disk, source, target, saves, faults>>

\* The constructor.  An index file that parses is believed ...
RestartFromIndex ==
    /\ pc = "down"
    /\ disk[IndexName].kind = "index"
    /\ index' = ReadBack(disk[IndexName].entries)
    /\ pc' = "ready"
    /\ UNCHANGED <<disk, source, target, diverged, saves, faults, crashes>>

Listed == SceneFiles

RestartFromFiles ==
    /\ pc = "down"
    /\ disk[IndexName].kind # "index"
    /\ \E files \in SetToSeqs(Listed) :
          index' = [i \in DOMAIN files |-> Entry(files[i], NoNote)]
    /\ diverged' = FALSE
    /\ pc' = "index"
    /\ UNCHANGED <<disk, source, target, saves, faults, crashes>>

-----------------------------------------------------------------------------
LibraryNext ==
    \/ \E n \in Arguments :
          \/ SaveOpen(n)
          \/ Delete(n)
          \/ \E m \in Arguments : Rename(n, m) \/ DuplicateOpen(n, m)
          \/ \E note \in Notes : SetMeta(n, note)
    \/ SaveWrite \/ SaveFails
    \/ DuplicateWrite \/ DuplicateFails
    \/ IndexOpen \/ IndexWrite \/ IndexFails
    \/ Crash \/ RestartFromIndex \/ RestartFromFiles

LibrarySpec == LibraryInit /\ [][LibraryNext]_libraryVars

-----------------------------------------------------------------------------
\* The index in memory names each scene file once and nothing else.
IndexMatchesFiles == Indexed = SceneFiles /\ IsInjective([i \in DOMAIN index |-> index[i].name])

\* index.json reads back as the index in memory does.
IndexOnDisk ==
    /\ disk[IndexName].kind = "index"
    /\ ReadBack(disk[IndexName].entries) = ReadBack(index)

\* Between commands, as long as every write since the last rescan succeeded,
\* memory, index.json and directory agree through any sequence of saves,
\* renames, copies, deletions, notes and restarts: the index names exactly the
\* scenes of the directory, and "all operations that mutate the library call
\* persistIndex() before returning", so a restart loses no scene and no note
\* it can parse.
IndexAgrees == pc = "ready" /\ ~diverged => IndexMatchesFiles /\ IndexOnDisk

\* A whole scene file loses its contents only to a save or a deletion of that
\* name; any other step, whatever fails in it, leaves them in some file.
NothingLost ==
    [][\A n \in Scenes :
          disk[n].kind = "scene"
             => \/ \E m \in Scenes : disk'[m] = disk[n]
                \/ SaveOpen(n) \/ Delete(n)]_libraryVars

=============================================================================
