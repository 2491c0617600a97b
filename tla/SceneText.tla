------------------------------- MODULE SceneText -------------------------------
(***************************************************************************)
(* The text of the three files of the scenes directory: a scene, the cue    *)
(* list and the index.  They are written and read by hand, without escapes: *)
(* a value is found by its key, an object ends at the first closing brace,  *)
(* a string at the next quote.  A write that the program does not survive   *)
(* leaves the beginning of the text.                                        *)
(*                                                                         *)
(* A text is a sequence of tokens, a key with its quotes and colon being    *)
(* one.  A name or note is a sequence of tokens too, for nothing keeps a    *)
(* brace or a quote out of it.  Of an object's nine values one of each type *)
(* is kept and width_rad, of a cue's and an entry's all but the time.       *)
(***************************************************************************)
EXTENDS Integers, Sequences, SequencesExt

CONSTANTS
    Documents,   \* what is written first
    Digits       \* %.6g keeps numbers below Digits whole, others to tens

ASSUME DigitsAssumption == Digits \in Nat \ {0}

VARIABLES
    doc,         \* what the program holds
    text,        \* the file
    short,       \* the text was cut
    read,        \* what was read of it last, Unread before
    recalled     \* ghost: doc has been read from the file before

textVars == <<doc, text, short, read, recalled>>

Mark(c) == <<"mark", c>>
Key(k)  == <<"key", k>>
Word(w) == <<"word", w>>
Num(n)  == <<"num", n>>

Open == Mark("{")
Close == Mark("}")
Quote == Mark("quote")
Comma == Mark(",")
Begin == Mark("[")
End == Mark("]")

Unread  == [kind |-> "unread"]
Refused == [kind |-> "refused"]

-------------------------------------------------------------------------------
(* Writing *)

\* ftos: six significant digits.
Printed(n) == IF n < Digits THEN n ELSE ((n + 5) \div 10) * 10

Field(k, token) == <<Key(k), token>>
Quoted(k, s) == <<Key(k), Quote>> \o s \o <<Quote>>
Commas(texts) == FlattenSeq([i \in DOMAIN texts |-> IF i = 1 THEN texts[i] ELSE <<Comma>> \o texts[i]])
Braces(fields) == <<Open>> \o Commas(fields) \o <<Close>>
Brackets(k, texts) == <<Key(k), Begin>> \o Commas(texts) \o <<End>>

ObjectText(o) ==
    Braces(<<Field("id", Num(o.id)), Field("az_rad", Num(Printed(o.az))),
             Field("muted", Word(IF o.muted THEN "true" ELSE "false")),
             Field("width_rad", Num(Printed(o.width)))>>)

SceneToJson(s) ==
    Braces(<<Quoted("name", s.name),
             Brackets("objects", [i \in DOMAIN s.objects |-> ObjectText(s.objects[i])])>>)

\* A cue list may also be written by hand, with null for no dwell.
CueText(c) ==
    Braces(<<Quoted("scene", c.scene), Field("crossfade_ms", Num(Printed(c.fade)))>> \o
           CASE c.dwell = <<>> -> <<>>
             [] c.dwell = Word("null") -> <<Field("dwell_ms", c.dwell)>>
             [] OTHER -> <<Field("dwell_ms", Num(Printed(c.dwell[2])))>>)

CuesToJson(cues) == Braces(<<Brackets("cues", [i \in DOMAIN cues |-> CueText(cues[i])])>>)

EntryText(e) ==
    Braces(<<Quoted("name", e.name),
             Brackets("tags", [i \in DOMAIN e.tags |-> <<Quote, e.tags[i], Quote>>]),
             Quoted("note", e.note)>>)

IndexToJson(s) == Braces(<<Brackets("scenes", [i \in DOMAIN s |-> EntryText(s[i])])>>)

-------------------------------------------------------------------------------
(* Reading *)

Find(t, token, from) == SelectInSubSeq(t, from, Len(t), LAMBDA x : x = token)

\* jsonGet: what follows the key, up to the next quote or to , } or ].
Get(t, k) ==
    LET at == Find(t, Key(k), 1) + 1
        quote == Find(t, Quote, at + 1)
        end == SelectInSubSeq(t, at, Len(t), LAMBDA x : x \in {Comma, Close, End})
    IN  IF at = 1 \/ at > Len(t) THEN <<>>
        ELSE IF t[at] = Quote
        THEN IF quote = 0 THEN <<>> ELSE SubSeq(t, at + 1, quote - 1)
        ELSE SubSeq(t, at, IF end = 0 THEN Len(t) ELSE end - 1)

NumberOr(s, default) == IF s # <<>> /\ s[1][1] = "num" THEN s[1][2] ELSE default

\* Mutant of EndOf: an object that does not end is read to the end of the text.
EndOfText(t, open) == IF Find(t, Close, open) = 0 THEN Len(t) ELSE Find(t, Close, open)

EndOf(t, open) == Find(t, Close, open)

\* The objects from a position on, each from its brace to the first closing one.
RECURSIVE Blocks(_, _)
Blocks(t, from) ==
    LET open == Find(t, Open, from)
        close == EndOf(t, open)
    IN  IF open = 0 \/ close = 0 THEN <<>>
        ELSE <<SubSeq(t, open, close)>> \o Blocks(t, close + 1)

ObjectOf(b) ==
    [id |-> NumberOr(Get(b, "id"), 0), az |-> NumberOr(Get(b, "az_rad"), 0),
     muted |-> Get(b, "muted") = <<Word("true")>>, width |-> NumberOr(Get(b, "width_rad"), 0)]

\* A key counts only with the bracket that opens its array.
ArrayAt(t, k) == SelectInSubSeq([i \in 1 .. Len(t) - 1 |-> <<t[i], t[i + 1]>>], 1, Len(t) - 1,
                                LAMBDA x : x = <<Key(k), Begin>>)
Items(t, k) == IF ArrayAt(t, k) = 0 THEN <<>> ELSE Blocks(t, ArrayAt(t, k) + 2)

SceneFromJson(t) ==
    LET b == Items(t, "objects")
    IN  [kind |-> "scene", name |-> Get(t, "name"), objects |-> [i \in DOMAIN b |-> ObjectOf(b[i])]]

CueOf(b) ==
    LET dwell == Get(b, "dwell_ms")
        Clamped(n) == IF n < 0 THEN 0 ELSE n
    IN  [scene |-> Get(b, "scene"), fade |-> Clamped(NumberOr(Get(b, "crossfade_ms"), 0)),
         dwell |-> IF dwell \in {<<>>, <<Word("null")>>} THEN <<>>
                   ELSE Num(Clamped(NumberOr(dwell, 0)))]

CuesFromJson(t) ==
    LET b == Items(t, "cues")
        cues == [i \in DOMAIN b |-> CueOf(b[i])]
    IN  [kind |-> "cues", cues |-> SelectSeq(cues, LAMBDA c : c.scene # <<>>)]

\* parseStringArray: strings until the bracket closes.
RECURSIVE Strings(_, _)
Strings(t, from) ==
    LET q1 == Find(t, Quote, from)
        q2 == Find(t, Quote, q1 + 1)
    IN  IF q1 = 0 \/ q2 = 0 \/ q1 > Find(t, End, from) THEN <<>>
        ELSE <<t[q1 + 1]>> \o Strings(t, q2 + 1)

EntryOf(b) ==
    LET tags == ArrayAt(b, "tags")
    IN  [name |-> Get(b, "name"), tags |-> IF tags = 0 THEN <<>> ELSE Strings(b, tags + 2),
         note |-> Get(b, "note")]

\* loadIndexFromDisk: refused, and rebuilt, unless it ends as an index does.
IndexFromJson(t) ==
    LET b == Items(t, "scenes")
        entries == [i \in DOMAIN b |-> EntryOf(b[i])]
    IN  IF \/ ArrayAt(t, "scenes") = 0 \/ ~IsSuffix(<<End, Close>>, t)
           \/ \E i \in DOMAIN t : t[i] = Open /\ i > ArrayAt(t, "scenes") /\ EndOf(t, i) = 0
        THEN Refused
        ELSE [kind |-> "index", entries |-> SelectSeq(entries, LAMBDA e : e.name # <<>>)]

-------------------------------------------------------------------------------
TextInit ==
    /\ doc \in Documents
    /\ text = <<>> /\ short = FALSE /\ read = Unread /\ recalled = FALSE

\* isSafeSceneName
Safe(name) == name # <<>> /\ Word(".") \notin {name[i] : i \in DOMAIN name}

ToJson(d) ==
    CASE d.kind = "scene" -> SceneToJson(d)
      [] d.kind = "cues"  -> CuesToJson(d.cues)
      [] d.kind = "index" -> IndexToJson(d.entries)

FromJson(t) ==
    CASE doc.kind = "scene" -> SceneFromJson(t)
      [] doc.kind = "cues"  -> CuesFromJson(t)
      [] doc.kind = "index" -> IndexFromJson(t)

SaveToDisk ==
    IF doc.kind = "scene" /\ ~Safe(doc.name)
    THEN UNCHANGED textVars
    ELSE /\ text' = ToJson(doc) /\ short' = FALSE /\ read' = Unread
         /\ UNCHANGED <<doc, recalled>>

CutShort ==
    /\ text # <<>> /\ ~short
    /\ \E n \in 0 .. Len(text) - 1 : text' = SubSeq(text, 1, n)
    /\ short' = TRUE /\ read' = Unread
    /\ UNCHANGED <<doc, recalled>>

LoadFromDisk ==
    /\ text # <<>> \/ short
    /\ read' = FromJson(text)
    /\ UNCHANGED <<doc, text, short, recalled>>

\* The scene that was loaded is what the engine plays and will save again.
Recall ==
    /\ read.kind = "scene"
    /\ doc' = [doc EXCEPT !.objects = read.objects]
    /\ text' = <<>> /\ short' = FALSE /\ read' = Unread /\ recalled' = TRUE

TextNext == SaveToDisk \/ CutShort \/ LoadFromDisk \/ Recall

TextSpec == TextInit /\ [][TextNext]_textVars

-------------------------------------------------------------------------------
(* Properties *)

Has(s, token) == \E i \in DOMAIN s : s[i] = token

\* What is loaded is what was saved, to the digits printed, and does not drift
\* when it is saved again; of a text that was cut, it is the first objects.
SceneKept ==
    LET Kept(o) == [o EXCEPT !.az = Printed(@), !.width = Printed(@)]
        objects == [i \in DOMAIN doc.objects |-> Kept(doc.objects[i])]
    IN  /\ IsPrefix(read.objects, objects)
        /\ ~short => read.objects = objects
        /\ recalled => objects = doc.objects

\* A cue is lost if its scene's name holds a brace, and no other is harmed.
CuesKept ==
    LET whole == SelectSeq(doc.cues, LAMBDA c : ~Has(c.scene, Close))
        AtLeastZero(n) == IF n < 0 THEN 0 ELSE Printed(n)
        Kept(c) == [c EXCEPT !.fade = AtLeastZero(@),
                             !.dwell = IF @ \in {<<>>, Word("null")} THEN <<>> ELSE Num(AtLeastZero(@[2]))]
        cues == [i \in DOMAIN whole |-> Kept(whole[i])]
    IN  /\ IsPrefix(read.cues, cues)
        /\ ~short => read.cues = cues

\* An index is read whole or refused; a brace in a note costs the note, one in
\* a name the entry.
IndexKept ==
    LET whole == SelectSeq(doc.entries, LAMBDA e : ~Has(e.name, Close))
        Kept(e) == [e EXCEPT !.note = IF Has(@, Close) THEN <<>> ELSE @]
    IN  IF short THEN read = Refused
        ELSE read.entries = [i \in DOMAIN whole |-> Kept(whole[i])]

\* The files of the library are read as they were written, to the digits %.6g
\* prints, by a reader without escapes; of a file cut short by a crash a scene
\* or a cue list is its first part and never a mixture, and an index is refused,
\* so that it is rebuilt (SceneSnapshot.cpp:98, SceneController.cpp:177).
TextFaithful ==
    read # Unread =>
        CASE doc.kind = "scene" -> SceneKept
          [] doc.kind = "cues"  -> CuesKept
          [] doc.kind = "index" -> IndexKept
===============================================================================
