---------------------------- MODULE CueEngineProofs ----------------------------
(***************************************************************************)
(* Proofs about the cue transport, for every cue list, every set of scenes *)
(* and sample rate, and a wall clock that moves in any way.                *)
(*                                                                         *)
(* A method is a sequence of changes to one record.  What is invariant is  *)
(* therefore stated of a record, together with the frame that was emitted  *)
(* last, and each of those changes is shown to keep it.                    *)
(***************************************************************************)
EXTENDS CuePlane, SequenceTheorems, WellFoundedInduction, TLAPS

(* Fades *)

Fades == [from : Frames, to : Frames, elapsed : Nat, total : Nat, active : BOOLEAN]

LEMMA WholeQuotient ==
    ASSUME NEW a \in Int, NEW c \in Nat \ {0}
    PROVE  (a * c) \div c = a
OBVIOUS

LEMMA SamplesPositive ==
    ASSUME NEW ms \in Int
    PROVE  Samples(ms) \in Nat \ {0}
<1> DEFINE k == (ms * RateNum) \div RateDen
           S == {1, k}
<1>1. k \in Int
  BY CueAssumption
<1> HIDE DEF k
<1>2. \E m \in S : \A y \in S : m >= y
  BY <1>1
<1>3. Max(S) \in S /\ \A y \in S : Max(S) >= y
  BY <1>2 DEF Max
<1>4. Max(S) \in Nat \ {0}
  BY <1>1, <1>3
<1> QED BY <1>4 DEF Samples, k

\* A fade that is over, and a snap, stand at the target.
LEMMA BlendAtEnd ==
    ASSUME NEW x \in Fades, x.elapsed = x.total
    PROVE  Blend(x) = x.to
<1>1. ASSUME NEW o \in Objects
      PROVE  Blend(x)[o].pos = x.to[o].pos /\ Blend(x)[o].active = x.to[o].active
             /\ Blend(x)[o] = [pos |-> Blend(x)[o].pos, active |-> Blend(x)[o].active]
  <2>1. x.from[o].pos \in Int /\ x.to[o].pos \in Int /\ x.total \in Nat
    BY DEF Fades, Frames
  <2>2. CASE x.total = 0
    BY <2>1, <2>2 DEF Blend
  <2>3. CASE x.total # 0
    <3>1. PICK a \in Int : a = x.to[o].pos - x.from[o].pos
      BY <2>1
    <3>2. (a * x.total) \div x.total = a
      BY <2>1, <2>3, WholeQuotient
    <3>3. ~(2 * x.elapsed < x.total)
      BY <2>1
    <3> QED BY <2>1, <2>3, <3>1, <3>2, <3>3 DEF Blend
  <2> QED BY <2>2, <2>3
<1>2. x.to \in [Objects -> [pos : Int, active : BOOLEAN]]
  BY DEF Fades, Frames
<1>3. ASSUME NEW o \in Objects PROVE Blend(x)[o] = x.to[o]
  <2>1. x.to[o] = [pos |-> x.to[o].pos, active |-> x.to[o].active]
    BY <1>2
  <2> QED BY <1>1, <2>1
<1>4. DOMAIN Blend(x) = Objects /\ Blend(x) = [o \in Objects |-> Blend(x)[o]]
  BY DEF Blend
<1> QED BY <1>2, <1>3, <1>4

LEMMA BlendType ==
    ASSUME NEW x \in Fades
    PROVE  Blend(x) \in Frames
<1>1. ASSUME NEW o \in Objects
      PROVE  /\ (IF x.total = 0 THEN x.to[o].pos
                 ELSE x.from[o].pos + ((x.to[o].pos - x.from[o].pos) * x.elapsed) \div x.total)
                \in Int
             /\ (IF 2 * x.elapsed < x.total THEN x.from[o].active ELSE x.to[o].active) \in BOOLEAN
  <2>1. /\ x.from[o].pos \in Int /\ x.to[o].pos \in Int /\ x.total \in Nat /\ x.elapsed \in Nat
        /\ x.from[o].active \in BOOLEAN /\ x.to[o].active \in BOOLEAN
    BY DEF Fades, Frames
  <2> QED BY <2>1
<1> QED BY <1>1 DEF Blend, Frames

LEMMA StartIs ==
    ASSUME NEW from \in Frames, NEW to \in Frames, NEW ms \in Nat
    PROVE  /\ Start(from, to, ms) \in Fades
           /\ Start(from, to, ms).to = to /\ Start(from, to, ms).elapsed = 0
           /\ Start(from, to, ms).active => Start(from, to, ms).total > 0
           /\ ~Start(from, to, ms).active => Start(from, to, ms).total = 0
<1>1. CASE ms > 0
  <2>1. (ms > 0) = TRUE /\ Samples(ms) \in Nat \ {0}
    BY <1>1, SamplesPositive
  <2>2. Start(from, to, ms) =
          [from |-> from, to |-> to, elapsed |-> 0, total |-> Samples(ms), active |-> TRUE]
    BY <2>1 DEF Start
  <2> QED BY <2>1, <2>2 DEF Fades
<1>2. CASE ~(ms > 0)
  <2>1. (ms > 0) = FALSE
    BY <1>2
  <2>2. Start(from, to, ms) =
          [from |-> from, to |-> to, elapsed |-> 0, total |-> 0, active |-> FALSE]
    BY <2>1 DEF Start
  <2> QED BY <2>2 DEF Fades
<1> QED BY <1>1, <1>2

\* A step of a fade ends it exactly when it reaches its target.
LEMMA AdvanceIs ==
    ASSUME NEW x \in Fades, x.active, NEW n \in Nat \ {0}, x.elapsed < x.total
    PROVE  /\ Advance(x, n) \in Fades
           /\ Advance(x, n).to = x.to /\ Advance(x, n).total = x.total
           /\ Advance(x, n).elapsed > 0
           /\ Advance(x, n).active => Advance(x, n).elapsed < x.total
           /\ ~Advance(x, n).active => Advance(x, n).elapsed = x.total
<1> DEFINE Goes(k) == [x EXCEPT !.elapsed = k, !.active = TRUE]
           Ends(k) == [x EXCEPT !.elapsed = k, !.active = FALSE]
<1>1. x.elapsed \in Nat /\ x.total \in Nat
  BY DEF Fades
<1>2. ASSUME NEW k \in Nat
      PROVE  /\ Goes(k) \in Fades /\ Goes(k).to = x.to /\ Goes(k).total = x.total
             /\ Goes(k).elapsed = k /\ Goes(k).active
             /\ Ends(k) \in Fades /\ Ends(k).to = x.to /\ Ends(k).total = x.total
             /\ Ends(k).elapsed = k /\ ~Ends(k).active
  BY DEF Fades
<1> HIDE DEF Goes, Ends
<1>3. CASE x.elapsed + n >= x.total
  <2>1. (x.elapsed + n < x.total) = FALSE
    BY <1>1, <1>3
  <2>2. Advance(x, n) = Ends(x.total)
    BY <1>3, <2>1, Zenon DEF Advance, Ends
  <2>3. x.total > 0
    BY <1>1
  <2> QED BY <1>1, <1>2, <2>2, <2>3
<1>4. CASE ~(x.elapsed + n >= x.total)
  <2>1. (x.elapsed + n < x.total) = TRUE
    BY <1>1, <1>4
  <2>2. Advance(x, n) = Goes(x.elapsed + n)
    BY <1>4, <2>1, Zenon DEF Advance, Goes
  <2>3. x.elapsed + n \in Nat /\ x.elapsed + n > 0 /\ x.elapsed + n < x.total
    BY <1>1, <2>1
  <2> QED BY <1>2, <2>2, <2>3
<1> QED BY <1>3, <1>4

-------------------------------------------------------------------------------
(* The engine *)

Members == {"index", "generation", "frame", "xf", "inProgress", "end", "lastTick", "armed",
            "deadline", "dwellGen", "emitted"}

\* The frame the client heard last, when s was it before the call.
LastOf(e, s) == IF e.emitted = <<>> THEN s ELSE e.emitted[Len(e.emitted)]

EngineTyped(e) ==
    /\ DOMAIN e = Members
    /\ e.index \in -1 .. LastIndex /\ e.xf \in Fades /\ e.frame \in Frames
    /\ e.lastTick \in Int /\ e.emitted \in Seq(Frames)

\* Index, fade and baseline are those of what was emitted.
Tracks(e, s) ==
    /\ e.index # -1 => e.xf.to = SceneFrame[cues[e.index + 1].scene]
    /\ e.inProgress => e.xf.active /\ e.xf.elapsed < e.xf.total
    /\ ~e.inProgress => e.frame = Blend(e.xf)
    /\ e.xf.elapsed > 0 \/ e.xf.total = 0 => LastOf(e, s) = Blend(e.xf)

\* The latch is set only for the current cue, at its deadline, and once the
\* fade is over the cue's scene has been emitted.  h: the operator holds.
Latched(e, s, h) ==
    e.armed =>
        /\ ~h /\ e.index # -1
        /\ cues[e.index + 1].dwell # NoDwell
        /\ e.deadline = e.end + cues[e.index + 1].dwell
        /\ ~e.inProgress => LastOf(e, s) = e.xf.to

Sound(e, s, h) == EngineTyped(e) /\ Tracks(e, s) /\ Latched(e, s, h)

CuesTyped ==
    cues \in Seq([scene : DOMAIN SceneFrame, fade : Nat, dwell : Nat \cup {NoDwell}])

LEMMA CueIs ==
    ASSUME CuesTyped, NEW i \in 0 .. LastIndex
    PROVE  /\ SceneFrame[cues[i + 1].scene] \in Frames /\ cues[i + 1].fade \in Nat
           /\ LastIndex \in Int
<1>1. i + 1 \in 1 .. Len(cues)
  BY DEF CuesTyped, LastIndex
<1> DEFINE Cue == [scene : DOMAIN SceneFrame, fade : Nat, dwell : Nat \cup {NoDwell}]
<1>2. cues[i + 1] \in Cue
  <2>1. cues \in Seq(Cue)
    BY DEF CuesTyped
  <2> HIDE DEF Cue
  <2> QED BY <1>1, <2>1
<1> QED BY <1>2, CueAssumption DEF CuesTyped, LastIndex

LEMMA CancelKeeps ==
    ASSUME NEW e, NEW s, NEW h, NEW g, Sound(e, s, h)
    PROVE  /\ Sound(Cancel(e), s, g)
           /\ ~Cancel(e).armed /\ Cancel(e).emitted = e.emitted
           /\ Cancel(e).index = e.index /\ Cancel(e).xf = e.xf /\ Cancel(e).frame = e.frame
           /\ Cancel(e).inProgress = e.inProgress
<1> DEFINE c == Cancel(e)
<1>1. /\ DOMAIN c = Members /\ ~c.armed
      /\ c.index = e.index /\ c.xf = e.xf /\ c.frame = e.frame /\ c.emitted = e.emitted
      /\ c.inProgress = e.inProgress /\ c.lastTick = e.lastTick
  BY DEF Cancel, Sound, EngineTyped, Members
<1> HIDE DEF c
<1>2. EngineTyped(c)
  BY <1>1 DEF Sound, EngineTyped
<1>3. Tracks(c, s)
  BY <1>1 DEF Sound, Tracks, LastOf
<1>4. Latched(c, s, g)
  BY <1>1 DEF Latched
<1> QED BY <1>1, <1>2, <1>3, <1>4 DEF Sound, c

\* A cue starts: a fade from the baseline, or a snap.
LEMMA FireKeeps ==
    ASSUME CuesTyped, NEW e, NEW s, NEW h, Sound(e, s, h), ~e.armed,
           NEW i \in 0 .. LastIndex, NEW t \in Int
    PROVE  Sound(Fire(e, i, t), s, FALSE) /\ Fire(e, i, t).index = i
<1> DEFINE cue == cues[i + 1]
           target == SceneFrame[cue.scene]
           fade == Start(e.frame, target, cue.fade)
           f == Fire(e, i, t)
<1>1. /\ DOMAIN f = Members
      /\ f.xf = fade /\ f.index = i /\ f.inProgress = fade.active
      /\ f.end = t + cue.fade /\ f.lastTick = t
      /\ f.frame = IF fade.active THEN e.frame ELSE target
      /\ f.emitted = IF fade.active THEN e.emitted ELSE Append(e.emitted, target)
      /\ f.armed = (cue.dwell # NoDwell)
      /\ cue.dwell # NoDwell => f.deadline = (t + cue.fade) + cue.dwell
  BY DEF Fire, Sound, EngineTyped, Members
<1>2. target \in Frames /\ cue.fade \in Nat /\ e.frame \in Frames /\ e.emitted \in Seq(Frames)
  BY CueIs DEF Sound, EngineTyped
<1>3. /\ fade \in Fades /\ fade.to = target /\ fade.elapsed = 0
      /\ fade.active => fade.total > 0
      /\ ~fade.active => fade.total = 0
  BY <1>2, StartIs
<1> HIDE DEF f, fade, target, cue
<1>4. EngineTyped(f)
  BY <1>1, <1>2, <1>3 DEF EngineTyped
<1>5. ~fade.active => LastOf(f, s) = target
  <2>1. Append(e.emitted, target) # <<>>
        /\ Append(e.emitted, target)[Len(Append(e.emitted, target))] = target
    BY <1>2
  <2> QED BY <1>1, <2>1 DEF LastOf
<1>6. ~fade.active => Blend(fade) = target
  BY <1>3, BlendAtEnd
<1>7. Tracks(f, s)
  <2>1. f.xf.to = SceneFrame[cues[f.index + 1].scene]
    BY <1>1, <1>3 DEF target, cue
  <2>2. ~(fade.elapsed > 0) /\ (fade.active => fade.elapsed < fade.total)
    BY <1>3
  <2>3. fade.active => fade.total # 0
    BY <1>3 DEF Fades
  <2> QED BY <1>1, <1>5, <1>6, <2>1, <2>2, <2>3 DEF Tracks
<1>8. Latched(f, s, FALSE)
  <2>1. f.armed => cue.dwell # NoDwell
    BY <1>1
  <2>2. f.index # -1
    BY <1>1
  <2> QED BY <1>1, <1>3, <1>5, <2>1, <2>2 DEF Latched, cue
<1> QED BY <1>1, <1>4, <1>7, <1>8 DEF Sound, f

\* A stop: the baseline is where the fade stands.
LEMMA FreezeKeeps ==
    ASSUME NEW e, NEW s, NEW h, Sound(e, s, h)
    PROVE  Sound(Freeze(e), s, TRUE)
<1> DEFINE c == Cancel(e)   f == Freeze(e)
<1>1. Sound(c, s, TRUE) /\ ~c.armed /\ c.frame = e.frame /\ c.xf = e.xf
  BY CancelKeeps
<1> HIDE DEF c
<1>2. /\ DOMAIN f = Members /\ ~f.inProgress
      /\ f.frame = IF e.inProgress THEN Blend(e.xf) ELSE e.frame
      /\ f.index = c.index /\ f.xf = c.xf /\ f.emitted = c.emitted /\ f.armed = c.armed
      /\ f.lastTick = c.lastTick
  BY <1>1 DEF Freeze, Sound, EngineTyped, Members, c
<1> HIDE DEF f
<1>3. EngineTyped(f)
  BY <1>1, <1>2, BlendType DEF Sound, EngineTyped
<1>4. Tracks(f, s)
  BY <1>1, <1>2 DEF Sound, Tracks, LastOf
<1>5. Latched(f, s, TRUE)
  BY <1>1, <1>2 DEF Latched
<1> QED BY <1>3, <1>4, <1>5 DEF Sound, f

\* A step of the fade: what is emitted is the fade as it stands, and the last
\* step reaches the target.
LEMMA StepFadeKeeps ==
    ASSUME NEW e, NEW s, NEW h, Sound(e, s, h), NEW t \in Int,
           NEW f \in StepFade(e, t)
    PROVE  /\ Sound(f, s, h) /\ f.index = e.index /\ f.end = e.end
           /\ f.armed = e.armed /\ f.deadline = e.deadline
<1>1. CASE ~e.inProgress
  BY <1>1 DEF StepFade
<1>2. CASE e.inProgress /\ t - e.lastTick <= 0
  <2>1. f = [e EXCEPT !.lastTick = t]
    BY <1>2 DEF StepFade
  <2>2. /\ DOMAIN f = Members
        /\ \A m \in Members \ {"lastTick"} : f[m] = e[m]
    BY <2>1 DEF Sound, EngineTyped
  <2>3. /\ f.index = e.index /\ f.xf = e.xf /\ f.frame = e.frame /\ f.emitted = e.emitted
        /\ f.inProgress = e.inProgress /\ f.armed = e.armed /\ f.deadline = e.deadline
        /\ f.end = e.end /\ f.lastTick = t
    BY <2>1 DEF Sound, EngineTyped, Members
  <2> QED BY <2>2, <2>3 DEF Sound, EngineTyped, Tracks, Latched, LastOf
<1>3. CASE e.inProgress /\ ~(t - e.lastTick <= 0)
  <2>1. PICK n \in TickSamples(t - e.lastTick) :
           f = [e EXCEPT !.lastTick = t, !.xf = Advance(e.xf, n),
                         !.emitted = Append(@, Blend(Advance(e.xf, n))),
                         !.inProgress = Advance(e.xf, n).active,
                         !.frame = IF Advance(e.xf, n).active THEN @ ELSE Advance(e.xf, n).to]
    BY <1>3 DEF StepFade
  <2>2. n \in Nat \ {0}
    <3>1. PICK d \in Int : d = t - e.lastTick
      BY DEF Sound, EngineTyped
    <3>2. n \in TickSamples(d)
      BY <2>1, <3>1
    <3> QED BY <3>2, SamplesPositive, CueAssumption DEF TickSamples
  <2> DEFINE x == Advance(e.xf, n)
  <2>3. e.xf \in Fades /\ e.xf.active /\ e.xf.elapsed < e.xf.total
    BY <1>3 DEF Sound, EngineTyped, Tracks
  <2>4. /\ x \in Fades /\ x.to = e.xf.to /\ x.total = e.xf.total /\ x.elapsed > 0
        /\ x.active => x.elapsed < x.total
        /\ ~x.active => x.elapsed = x.total
    BY <2>2, <2>3, AdvanceIs
  <2> HIDE DEF x
  <2>5. /\ DOMAIN f = Members
        /\ f.index = e.index /\ f.xf = x /\ f.emitted = Append(e.emitted, Blend(x))
        /\ f.inProgress = x.active /\ f.armed = e.armed /\ f.deadline = e.deadline
        /\ f.end = e.end /\ f.lastTick = t
        /\ f.frame = IF x.active THEN e.frame ELSE x.to
    BY <2>1 DEF Sound, EngineTyped, Members, x
  <2>6. Blend(x) \in Frames /\ (~x.active => Blend(x) = x.to)
    BY <2>4, BlendType, BlendAtEnd
  <2>7. f.emitted \in Seq(Frames) /\ LastOf(f, s) = Blend(x)
    BY <2>5, <2>6 DEF Sound, EngineTyped, LastOf
  <2>8. EngineTyped(f)
    BY <2>4, <2>5, <2>7 DEF Sound, EngineTyped, Fades
  <2>9. Tracks(f, s)
    BY <2>4, <2>5, <2>6, <2>7 DEF Sound, Tracks
  <2>10. Latched(f, s, h)
    BY <2>4, <2>5, <2>6, <2>7 DEF Sound, Latched
  <2> QED BY <2>5, <2>8, <2>9, <2>10 DEF Sound
<1> QED BY <1>1, <1>2, <1>3

\* Going to a cue starts it, or lets go of the latch.
LEMMA GoStarts ==
    ASSUME CuesTyped, NEW e, NEW s, NEW h, Sound(e, s, h), NEW i \in Int, NEW t \in Int,
           NEW loads \in BOOLEAN, loads, cues # <<>>
    PROVE  Sound(Go(e, i, t, loads), s, FALSE) /\ Go(e, i, t, loads).index = Clamp(i)
<1>1. Clamp(i) \in 0 .. LastIndex
  BY DEF Clamp, LastIndex, CuesTyped
<1>2. Sound(Cancel(e), s, h) /\ ~Cancel(e).armed
  BY CancelKeeps
<1>3. Go(e, i, t, loads) = Fire(Cancel(e), Clamp(i), t)
  BY DEF Go
<1>4. PICK c, k : c = Cancel(e) /\ k = Clamp(i)
  OBVIOUS
<1>5. Sound(Fire(c, k, t), s, FALSE) /\ Fire(c, k, t).index = k
  <2>1. Sound(c, s, h) /\ ~c.armed /\ k \in 0 .. LastIndex
    BY <1>1, <1>2, <1>4
  <2> QED BY <2>1, FireKeeps
<1> QED BY <1>3, <1>4, <1>5

LEMMA GoHolds ==
    ASSUME NEW e, NEW s, NEW h, Sound(e, s, h), NEW i, NEW t, NEW loads, NEW g,
           ~(loads /\ cues # <<>>)
    PROVE  Sound(Go(e, i, t, loads), s, g) /\ Go(e, i, t, loads).index = e.index
<1>1. Go(e, i, t, loads) = Cancel(e)
  BY DEF Go
<1> QED BY <1>1, CancelKeeps

\* The next cue, and nothing after the last one.
LEMMA NextKeeps ==
    ASSUME CuesTyped, NEW e, NEW s, NEW h, Sound(e, s, h), NEW t \in Int, NEW loads \in BOOLEAN
    PROVE  LET f == GoNext(e, t, loads) IN
           IF loads /\ e.index < LastIndex
           THEN Sound(f, s, FALSE) /\ f.index = e.index + 1
           ELSE (\A g : Sound(f, s, g)) /\ f.index = e.index
<1>1. LastIndex \in Int /\ LastIndex >= -1 /\ (cues = <<>> <=> LastIndex = -1)
      /\ e.index \in -1 .. LastIndex
  BY DEF CuesTyped, LastIndex, Sound, EngineTyped
<1>2. CASE cues = <<>>
  <2>1. GoNext(e, t, loads) = e /\ ~(e.index < LastIndex) /\ e.index = -1
    BY <1>1, <1>2 DEF GoNext
  <2>2. \A g : Sound(e, s, g)
    BY <2>1 DEF Sound, Latched
  <2> QED BY <2>1, <2>2
<1>3. CASE cues # <<>> /\ e.index >= LastIndex
  <2>1. GoNext(e, t, loads) = Cancel(e) /\ ~(e.index < LastIndex)
    BY <1>1, <1>3 DEF GoNext
  <2> QED BY <2>1, CancelKeeps
<1>4. CASE cues # <<>> /\ ~(e.index >= LastIndex)
  <2>1. GoNext(e, t, loads) = Go(e, e.index + 1, t, loads) /\ e.index < LastIndex
    BY <1>1, <1>4 DEF GoNext
  <2>2. Clamp(e.index + 1) = e.index + 1 /\ e.index + 1 \in Int
    BY <1>1, <2>1 DEF Clamp
  <2>3. CASE loads
    <3>1. PICK k \in Int : k = e.index + 1 /\ Clamp(k) = k
      BY <2>2
    <3>2. Sound(Go(e, k, t, loads), s, FALSE) /\ Go(e, k, t, loads).index = Clamp(k)
      BY <1>4, <2>3, GoStarts
    <3> QED BY <2>1, <2>3, <3>1, <3>2
  <2>4. CASE ~loads
    <3>1. PICK k : k = e.index + 1
      OBVIOUS
    <3>2. ASSUME NEW g
          PROVE  Sound(Go(e, k, t, loads), s, g) /\ Go(e, k, t, loads).index = e.index
      BY <2>4, GoHolds
    <3> QED BY <2>1, <2>4, <3>1, <3>2
  <2> QED BY <2>3, <2>4
<1> QED BY <1>2, <1>3, <1>4

LEMMA PrevKeeps ==
    ASSUME CuesTyped, NEW e, NEW s, NEW h, Sound(e, s, h), NEW t \in Int, NEW loads \in BOOLEAN
    PROVE  Sound(GoPrev(e, t, loads), s, ~(loads /\ e.index > 0))
<1>1. LastIndex \in Int /\ LastIndex >= -1 /\ (cues = <<>> <=> LastIndex = -1)
      /\ e.index \in -1 .. LastIndex
  BY DEF CuesTyped, LastIndex, Sound, EngineTyped
<1>2. CASE cues = <<>>
  <2>1. GoPrev(e, t, loads) = e /\ e.index = -1
    BY <1>1, <1>2 DEF GoPrev
  <2>2. \A g : Sound(e, s, g)
    BY <2>1 DEF Sound, Latched
  <2> QED BY <2>1, <2>2
<1>3. CASE cues # <<>> /\ e.index <= 0
  <2>1. GoPrev(e, t, loads) = Cancel(e)
    BY <1>3 DEF GoPrev
  <2> QED BY <2>1, CancelKeeps
<1>4. CASE cues # <<>> /\ ~(e.index <= 0)
  <2>1. GoPrev(e, t, loads) = Go(e, e.index - 1, t, loads) /\ e.index - 1 \in Int
        /\ e.index > 0
    BY <1>1, <1>4 DEF GoPrev
  <2>2. PICK k \in Int : k = e.index - 1
    BY <2>1
  <2>3. CASE loads
    <3>1. Sound(Go(e, k, t, loads), s, FALSE)
      BY <1>4, <2>3, GoStarts
    <3>2. (~(loads /\ e.index > 0)) = FALSE
      BY <2>1, <2>3
    <3> QED BY <2>1, <2>2, <3>1, <3>2
  <2>4. CASE ~loads
    <3>1. Sound(Go(e, k, t, loads), s, ~(loads /\ e.index > 0))
      BY <2>4, GoHolds
    <3> QED BY <2>1, <2>2, <3>1
  <2> QED BY <2>3, <2>4
<1> QED BY <1>2, <1>3, <1>4

\* A call only adds to what it has emitted.
LEMMA NextAppends ==
    ASSUME CuesTyped, NEW e, NEW s, NEW h, Sound(e, s, h), NEW t \in Int, NEW loads \in BOOLEAN,
           NEW i \in DOMAIN e.emitted
    PROVE  /\ i \in DOMAIN GoNext(e, t, loads).emitted
           /\ GoNext(e, t, loads).emitted[i] = e.emitted[i]
<1> DEFINE c == Cancel(e)   r == GoNext(e, t, loads)
           target == SceneFrame[cues[Clamp(e.index + 1) + 1].scene]
<1>1. Sound(c, s, h) /\ c.emitted = e.emitted
  BY CancelKeeps
<1> HIDE DEF c
<1>2. ASSUME NEW k
      PROVE  Fire(c, k, t).emitted \in
                {e.emitted, Append(e.emitted, SceneFrame[cues[k + 1].scene])}
  BY <1>1 DEF Fire, Sound, EngineTyped, Members
<1>3. r.emitted \in {e.emitted, Append(e.emitted, target)}
  <2>1. r \in {e, c, Fire(c, Clamp(e.index + 1), t)}
    BY DEF GoNext, Go, c
  <2> QED BY <1>1, <1>2, <2>1
<1> HIDE DEF target, r
<1>4. e.emitted \in Seq(Frames)
  BY DEF Sound, EngineTyped
<1> QED BY <1>3, <1>4 DEF r

-------------------------------------------------------------------------------
(* The loop *)

\* The last call emitted frames, the last of which is the one sent last.
HeardTrue ==
    /\ sent \in Frames /\ burst \in Seq(Frames)
    /\ burst # <<>> => sent = burst[Len(burst)]

CueInv ==
    /\ CuesTyped
    /\ HeardTrue
    /\ Sound(eng, sent, held)
    /\ eng.emitted = <<>>
    /\ now \in Int

LEMMA InitCueInv == Init => CueInv
<1> SUFFICES ASSUME Init PROVE CueInv
  OBVIOUS
<1> DEFINE x == [from |-> Neutral, to |-> Neutral, elapsed |-> 0, total |-> 0,
                 active |-> FALSE]
<1>1. CuesTyped
  BY CueAssumption DEF Init, CuesTyped
<1>2. Neutral \in Frames
  BY DEF Neutral, Frames
<1>3. x \in Fades /\ x.to = Neutral /\ x.elapsed = 0 /\ x.total = 0
  BY <1>2 DEF Fades
<1>4. /\ DOMAIN eng = Members
      /\ eng.index = -1 /\ eng.frame = Neutral /\ eng.xf = x /\ ~eng.inProgress
      /\ eng.lastTick = 0 /\ ~eng.armed /\ eng.emitted = <<>>
  BY DEF Init, Members
<1> HIDE DEF x
<1>5. Blend(x) = Neutral
  BY <1>3, BlendAtEnd
<1>6. EngineTyped(eng)
  BY <1>1, <1>2, <1>3, <1>4 DEF EngineTyped, CuesTyped, LastIndex
<1>7. Tracks(eng, sent) /\ Latched(eng, sent, held)
  BY <1>4, <1>5 DEF Tracks, Latched, LastOf, Init
<1>8. now \in Int
  BY DEF Init
<1>9. HeardTrue
  BY <1>2 DEF HeardTrue, Init
<1> QED BY <1>1, <1>4, <1>6, <1>7, <1>8, <1>9 DEF CueInv, Sound

\* A call has been made that left e: its emissions are out.
LEMMA RunKeeps ==
    ASSUME CueInv, NEW e, Sound(e, sent, held'), Run(e)
    PROVE  CueInv' /\ eng'.index = e.index
<1>1. e.emitted \in Seq(Frames) /\ DOMAIN e = Members
  BY DEF Sound, EngineTyped
<1>2. /\ DOMAIN eng' = Members /\ eng'.emitted = <<>>
      /\ eng'.index = e.index /\ eng'.xf = e.xf /\ eng'.frame = e.frame
      /\ eng'.inProgress = e.inProgress /\ eng'.lastTick = e.lastTick
      /\ eng'.armed = e.armed /\ eng'.deadline = e.deadline /\ eng'.end = e.end
      /\ cues' = cues /\ now' = now
  BY <1>1 DEF Run, Members
<1>3. LastOf(eng, sent)' = LastOf(e, sent)
  BY <1>2 DEF Run, LastOf
<1>4. EngineTyped(eng)'
  <2>1. LastIndex' = LastIndex
    BY <1>2 DEF LastIndex
  <2> QED BY <1>2, <2>1 DEF EngineTyped, Sound, Members
<1>5. Tracks(eng, sent)'
  <2>1. Blend(eng.xf)' = Blend(e.xf)
    BY <1>2 DEF Blend
  <2> QED BY <1>2, <1>3, <2>1 DEF Tracks, Sound
<1>6. Latched(eng, sent, held)'
  BY <1>2, <1>3 DEF Latched, Sound
<1>7. CuesTyped'
  BY <1>2 DEF CueInv, CuesTyped
<1>8. HeardTrue'
  BY <1>1 DEF CueInv, HeardTrue, Run
<1> QED BY <1>2, <1>4, <1>5, <1>6, <1>7, <1>8 DEF CueInv, Sound

\* What a tick does to the record: a step of the fade, and the next cue if
\* the dwell is over.
LEMMA TickKeeps ==
    ASSUME CueInv, NEW loads \in BOOLEAN, NEW f \in StepFade(eng, now),
           Run(AutoAdvance(f, now, loads)), held' = held
    PROVE  /\ CueInv'
           /\ eng'.index # eng.index =>
                 DwellDue(f, now) /\ eng'.index = eng.index + 1
<1>1. /\ CuesTyped /\ Sound(eng, sent, held) /\ now \in Int
  BY DEF CueInv
<1>2. Sound(f, sent, held) /\ f.index = eng.index
  BY <1>1, StepFadeKeeps
<1>3. CASE ~DwellDue(f, now)
  <2>1. AutoAdvance(f, now, loads) = f
    BY <1>3 DEF AutoAdvance
  <2> QED BY <1>2, <2>1, RunKeeps
<1>4. CASE DwellDue(f, now)
  <2> DEFINE d == [f EXCEPT !.armed = FALSE]
             r == GoNext(d, now, loads)
  <2>1. /\ DOMAIN d = Members /\ ~d.armed
        /\ d.index = f.index /\ d.xf = f.xf /\ d.frame = f.frame /\ d.emitted = f.emitted
        /\ d.inProgress = f.inProgress /\ d.lastTick = f.lastTick
    BY <1>2 DEF Sound, EngineTyped, Members
  <2> HIDE DEF d
  <2>2. Sound(d, sent, held)
    BY <1>2, <2>1 DEF Sound, EngineTyped, Tracks, Latched, LastOf
  <2>3. AutoAdvance(f, now, loads) = r
    BY <1>4 DEF AutoAdvance, d
  <2>4. held = FALSE
    BY <1>2, <1>4 DEF DwellDue, Sound, Latched
  <2>5. CASE loads /\ d.index < LastIndex
    <3>1. Sound(r, sent, FALSE) /\ r.index = d.index + 1
      BY <1>1, <2>2, <2>5, NextKeeps
    <3> HIDE DEF r
    <3> QED BY <1>2, <1>4, <2>1, <2>3, <2>4, <3>1, RunKeeps
  <2>6. CASE ~(loads /\ d.index < LastIndex)
    <3>1. Sound(r, sent, held') /\ r.index = d.index
      BY <1>1, <2>2, <2>6, NextKeeps
    <3> HIDE DEF r
    <3> QED BY <1>2, <2>1, <2>3, <3>1, RunKeeps
  <2> QED BY <2>5, <2>6
<1> QED BY <1>3, <1>4

\* A tick that moves the index found the dwell of the current cue over and
\* its scene emitted, before this tick or in it.
LEMMA AdvanceJustified ==
    ASSUME CueInv, NEW loads \in BOOLEAN, NEW f \in StepFade(eng, now), DwellDue(f, now),
           Run(AutoAdvance(f, now, loads))
    PROVE  LET cue == cues[eng.index + 1] IN
           /\ ~held
           /\ cue.dwell # NoDwell /\ now >= eng.end + cue.dwell
           /\ SceneFrame[cue.scene] \in {sent} \cup {burst'[i] : i \in DOMAIN burst'}
<1>1. /\ CuesTyped /\ Sound(eng, sent, held) /\ now \in Int
  BY DEF CueInv
<1>2. /\ Sound(f, sent, held) /\ f.index = eng.index /\ f.end = eng.end
  BY <1>1, StepFadeKeeps
<1>3. /\ ~held /\ f.index # -1
      /\ cues[f.index + 1].dwell # NoDwell
      /\ f.deadline = f.end + cues[f.index + 1].dwell
      /\ LastOf(f, sent) = f.xf.to /\ now >= f.deadline
  BY <1>2 DEF DwellDue, Sound, Latched
<1>4. LastOf(f, sent) = SceneFrame[cues[eng.index + 1].scene]
  BY <1>2, <1>3 DEF Sound, Tracks
<1>5. LastOf(f, sent) \in {sent} \cup {burst'[i] : i \in DOMAIN burst'}
  <2>1. CASE f.emitted = <<>>
    BY <2>1 DEF LastOf
  <2>2. CASE f.emitted # <<>>
    <3> DEFINE d == [f EXCEPT !.armed = FALSE]
    <3>1. /\ DOMAIN d = Members /\ ~d.armed
          /\ d.index = f.index /\ d.xf = f.xf /\ d.frame = f.frame
          /\ d.emitted = f.emitted
          /\ d.inProgress = f.inProgress /\ d.lastTick = f.lastTick
      BY <1>2 DEF Sound, EngineTyped, Members
    <3>2. burst' = GoNext(d, now, loads).emitted
      BY DEF Run, AutoAdvance
    <3> HIDE DEF d
    <3>3. Sound(d, sent, held)
      BY <1>2, <3>1 DEF Sound, EngineTyped, Tracks, Latched, LastOf
    <3>4. PICK i \in DOMAIN f.emitted : i = Len(f.emitted)
      BY <1>2, <2>2 DEF Sound, EngineTyped
    <3>5. i \in DOMAIN d.emitted
      BY <3>1
    <3>6. i \in DOMAIN burst' /\ burst'[i] = f.emitted[i]
      BY <1>1, <3>1, <3>2, <3>3, <3>5, NextAppends
    <3> QED BY <2>2, <3>4, <3>6 DEF LastOf
  <2> QED BY <2>1, <2>2
<1> QED BY <1>2, <1>3, <1>4, <1>5

LEMMA NextKeepsCueInv == CueInv /\ [Next]_vars => CueInv'
<1> SUFFICES ASSUME CueInv, [Next]_vars PROVE CueInv'
  OBVIOUS
<1>1. /\ CuesTyped /\ Sound(eng, sent, held) /\ now \in Int
  BY DEF CueInv
<1>2. ASSUME UNCHANGED <<cues, eng, burst, sent, held>>, now' \in Int PROVE CueInv'
  <2>1. LastIndex' = LastIndex /\ LastOf(eng, sent)' = LastOf(eng, sent)
        /\ Blend(eng.xf)' = Blend(eng.xf)
    BY <1>2 DEF LastIndex, LastOf, Blend
  <2> QED BY <1>2, <2>1 DEF CueInv, HeardTrue, CuesTyped, Sound, EngineTyped, Tracks, Latched
<1>3. CASE UNCHANGED vars
  BY <1>1, <1>2, <1>3 DEF vars
<1>4. CASE Wake
  <2>1. now' \in Int
    BY <1>1, <1>4, CueAssumption DEF Wake
  <2> QED BY <1>2, <1>4, <2>1 DEF Wake
<1>5. CASE CueGo
  <2>1. PICK i \in Indices, loads \in BOOLEAN :
           Command(Go(eng, i, now, loads), loads /\ cues # <<>>)
    BY <1>5 DEF CueGo, CueGoTo
  <2>2. i \in Int
    BY CueAssumption
  <2>3. Run(Go(eng, i, now, loads)) /\ held' = ~(loads /\ cues # <<>>)
    BY <2>1 DEF Command
  <2>4. Sound(Go(eng, i, now, loads), sent, held')
    <3>1. CASE loads /\ cues # <<>>
      <4>1. held' = FALSE
        BY <2>3, <3>1
      <4> QED BY <1>1, <2>2, <3>1, <4>1, GoStarts
    <3>2. CASE ~(loads /\ cues # <<>>)
      BY <1>1, <3>2, GoHolds
    <3> QED BY <3>1, <3>2
  <2> QED BY <2>3, <2>4, RunKeeps
<1>6. CASE CueNext
  <2>1. PICK loads \in BOOLEAN :
           Command(GoNext(eng, now, loads), loads /\ eng.index < LastIndex)
    BY <1>6 DEF CueNext
  <2>2. Run(GoNext(eng, now, loads)) /\ held' = ~(loads /\ eng.index < LastIndex)
    BY <2>1 DEF Command
  <2>3. Sound(GoNext(eng, now, loads), sent, held')
    <3>1. CASE loads /\ eng.index < LastIndex
      <4>1. held' = FALSE
        BY <2>2, <3>1
      <4> QED BY <1>1, <3>1, <4>1, NextKeeps
    <3>2. CASE ~(loads /\ eng.index < LastIndex)
      BY <1>1, <3>2, NextKeeps
    <3> QED BY <3>1, <3>2
  <2> QED BY <2>2, <2>3, RunKeeps
<1>7. CASE CuePrev
  <2>1. PICK loads \in BOOLEAN :
           Command(GoPrev(eng, now, loads), loads /\ eng.index > 0)
    BY <1>7 DEF CuePrev
  <2>2. Run(GoPrev(eng, now, loads)) /\ held' = ~(loads /\ eng.index > 0)
    BY <2>1 DEF Command
  <2> QED BY <1>1, <2>2, PrevKeeps, RunKeeps
<1>8. CASE CueStop
  <2>1. Run(Freeze(eng)) /\ held' = TRUE
    BY <1>8 DEF CueStop, Command
  <2>2. Sound(Freeze(eng), sent, held')
    BY <1>1, <2>1, FreezeKeeps
  <2> QED BY <2>1, <2>2, RunKeeps
<1>9. CASE Tick
  BY <1>9, TickKeeps DEF Tick
<1> QED BY <1>3, <1>4, <1>5, <1>6, <1>7, <1>8, <1>9 DEF Next

\* Index, fade and baseline stay together whatever the operator does: a cue
\* whose scene cannot be loaded moves none of them, a stop takes the baseline
\* from the fade, and the end of a fade from its target (CueEngine::go, stop
\* and tick).
THEOREM AlwaysCoherent == Spec => []Coherent
<1>1. CueInv => Coherent
  BY DEF CueInv, Sound, Tracks, LastOf, Coherent, IndexNamesTarget, BaselineTracksOutput
<1> QED BY <1>1, InitCueInv, NextKeepsCueInv, PTL DEF Spec

\* The engine advances by itself only after the operator started a cue, whose
\* dwell is over and whose scene the clients have been sent, and then to the
\* next cue (the dwell latch of CueEngine::tick).
THEOREM AdvanceAlwaysJustified == Spec => AutoAdvanceJustified
<1> DEFINE Justified ==
      Tick /\ eng'.index # eng.index =>
          LET cue    == cues[eng.index + 1]
              target == SceneFrame[cue.scene]
          IN  /\ ~held
              /\ cue.dwell # NoDwell /\ now >= eng.end + cue.dwell
              /\ target \in {sent} \cup {burst'[i] : i \in DOMAIN burst'}
              /\ eng'.index = eng.index + 1
<1>1. CueInv => Justified
  <2> SUFFICES ASSUME CueInv, Tick, eng'.index # eng.index PROVE Justified
    OBVIOUS
  <2>1. PICK loads \in BOOLEAN, f \in StepFade(eng, now) : Run(AutoAdvance(f, now, loads))
    BY DEF Tick
  <2>2. DwellDue(f, now) /\ eng'.index = eng.index + 1
    BY <2>1, TickKeeps DEF Tick
  <2> QED BY <2>1, <2>2, AdvanceJustified
<1>2. CueInv /\ [Next]_vars => [Justified]_vars
  BY <1>1
<1> QED BY <1>2, InitCueInv, NextKeepsCueInv, PTL DEF Spec, AutoAdvanceJustified

-------------------------------------------------------------------------------
(* The control plane                                                        *)

\* A set of numbers that is not empty has a least.
LEMMA LeastObject ==
    ASSUME NEW S \in SUBSET Nat, S # {}
    PROVE  Min(S) \in S
<1> DEFINE R == OpToRel(<, Nat)
<1>1. R = {ss \in Nat \X Nat : ss[1] < ss[2]}
  BY DEF OpToRel
<1>2. IsWellFoundedOn(R, Nat)
  BY NatLessThanWellFounded
<1> HIDE DEF R
<1>3. \E x \in S : \A y \in S : ~(<<y, x>> \in R)
  BY <1>2, WFMin
<1>4. \A x \in Nat : \A y \in Nat : <<y, x>> \notin R => x <= y
  BY <1>1
<1>5. \E x \in S : \A y \in S : x <= y
  BY <1>3, <1>4
<1> QED BY <1>5 DEF Min

\* What the queue s and, after all of it, the table say of a field: the last
\* command of R in s is in G, or there is none and the table is right.
Settled(s, R, G, right) ==
    \/ \E i \in DOMAIN s : s[i] \in G /\ \A j \in DOMAIN s : j > i => s[j] \notin R
    \/ right /\ \A j \in DOMAIN s : s[j] \notin R

LEMMA SettledAppend ==
    ASSUME NEW S, NEW s \in Seq(S), NEW c \in S, NEW R, NEW G, NEW right
    PROVE  /\ c \in G => Settled(Append(s, c), R, G, right)
           /\ c \notin R /\ Settled(s, R, G, right) => Settled(Append(s, c), R, G, right)
<1> DEFINE t == Append(s, c)
<1>1. /\ DOMAIN s = 1 .. Len(s) /\ DOMAIN t = 1 .. Len(s) + 1 /\ Len(s) \in Nat
      /\ \A i \in 1 .. Len(s) : t[i] = s[i]
      /\ t[Len(s) + 1] = c
  OBVIOUS
<1> HIDE DEF t
<1>2. ASSUME c \in G PROVE Settled(t, R, G, right)
  <2>1. t[Len(s) + 1] \in G /\ \A j \in DOMAIN t : ~(j > Len(s) + 1)
    BY <1>1, <1>2
  <2> QED BY <1>1, <2>1 DEF Settled
<1>3. ASSUME c \notin R, Settled(s, R, G, right) PROVE Settled(t, R, G, right)
  BY <1>1, <1>3 DEF Settled
<1> QED BY <1>2, <1>3 DEF t

LEMMA SettledTail ==
    ASSUME NEW S, NEW s \in Seq(S), s # <<>>, NEW R, NEW G, NEW right, NEW after,
           Settled(s, R, G, right),
           Head(s) \in G => after,
           Head(s) \notin R /\ right => after
    PROVE  Settled(Tail(s), R, G, after)
<1> DEFINE t == Tail(s)
<1>1. /\ Len(s) \in Nat \ {0} /\ DOMAIN s = 1 .. Len(s) /\ DOMAIN t = 1 .. Len(s) - 1
      /\ \A i \in DOMAIN t : t[i] = s[i + 1]
      /\ Head(s) = s[1]
  OBVIOUS
<1> HIDE DEF t
<1>2. ASSUME NEW i \in DOMAIN s, s[i] \in G, \A j \in DOMAIN s : j > i => s[j] \notin R
      PROVE  Settled(t, R, G, after)
  <2>1. CASE i = 1
    <3>1. after
      BY <1>1, <1>2, <2>1
    <3>2. \A j \in DOMAIN t : t[j] \notin R
      BY <1>1, <1>2, <2>1
    <3> QED BY <3>1, <3>2 DEF Settled
  <2>2. CASE i # 1
    <3>1. i - 1 \in DOMAIN t /\ t[i - 1] = s[i]
      BY <1>1, <2>2
    <3>2. \A j \in DOMAIN t : j > i - 1 => t[j] \notin R
      BY <1>1, <1>2
    <3> QED BY <1>2, <3>1, <3>2 DEF Settled
  <2> QED BY <2>1, <2>2
<1>3. ASSUME right, \A j \in DOMAIN s : s[j] \notin R
      PROVE  Settled(t, R, G, after)
  BY <1>1, <1>3 DEF Settled
<1> QED BY <1>2, <1>3 DEF Settled, t

\* A command that is none of R may enter between the two queues.
LEMMA SettledInsert ==
    ASSUME NEW S, NEW s \in Seq(S), NEW t \in Seq(S), NEW c \in S, NEW R, NEW G, NEW right,
           c \notin R, Settled(s \o t, R, G, right)
    PROVE  Settled(Append(s, c) \o t, R, G, right)
<1> DEFINE u == s \o t   v == Append(s, c) \o t
<1>1. /\ Len(s) \in Nat /\ Len(t) \in Nat
      /\ DOMAIN u = 1 .. Len(s) + Len(t) /\ DOMAIN v = 1 .. Len(s) + Len(t) + 1
      /\ \A i \in 1 .. Len(s) : v[i] = u[i]
      /\ v[Len(s) + 1] = c
      /\ \A i \in Len(s) + 1 .. Len(s) + Len(t) : v[i + 1] = u[i]
  OBVIOUS
<1> HIDE DEF u, v
<1> DEFINE Place(i) == IF i <= Len(s) THEN i ELSE i + 1
<1>2. \A i \in DOMAIN u : Place(i) \in DOMAIN v /\ v[Place(i)] = u[i]
  BY <1>1
<1>3. \A j \in DOMAIN v : \/ j = Len(s) + 1
                          \/ \E i \in DOMAIN u : j = Place(i)
  <2> SUFFICES ASSUME NEW j \in DOMAIN v, j # Len(s) + 1
               PROVE  \E i \in DOMAIN u : j = Place(i)
    OBVIOUS
  <2>1. CASE j <= Len(s)
    BY <1>1, <2>1
  <2>2. CASE j > Len(s) + 1
    <3>1. j - 1 \in DOMAIN u /\ Place(j - 1) = j
      BY <1>1, <2>2
    <3> QED BY <3>1
  <2> QED BY <1>1, <2>1, <2>2
<1>4. \A i \in DOMAIN u, k \in DOMAIN u : Place(k) > Place(i) => k > i
  BY <1>1
<1>5. ASSUME NEW i \in DOMAIN u, u[i] \in G, \A j \in DOMAIN u : j > i => u[j] \notin R
      PROVE  Settled(v, R, G, right)
  <2>1. \A j \in DOMAIN v : j > Place(i) => v[j] \notin R
    BY <1>1, <1>2, <1>3, <1>4, <1>5
  <2> QED BY <1>2, <1>5, <2>1 DEF Settled
<1>6. ASSUME right, \A j \in DOMAIN u : u[j] \notin R
      PROVE  Settled(v, R, G, right)
  BY <1>1, <1>2, <1>3, <1>6 DEF Settled
<1> QED BY <1>5, <1>6 DEF Settled, u, v

MovesOf(o) == {c \in ObjectCommands : c.tag = "move" /\ c.obj = o}
CommandsOf(o) == {c \in ObjectCommands : c.obj = o}

\* The frames that are being emitted have a move for o yet, or the command
\* that sets its active.
MoveDue(o) ==
    /\ toPost # <<>>
    /\ Len(toPost) > 1 \/ (o \in left /\ ~(o = Min(left) /\ part = 2))

ActiveDue(o) ==
    /\ toPost # <<>>
    /\ Len(toPost) > 1 \/ o \in left

PlaneTyped ==
    /\ inbound \in Seq({c \in Packets : c.tag \in Transport})
    /\ fifo \in Seq(ObjectCommands) /\ outbound \in Seq(ObjectCommands)
    /\ toPost \in Seq(Frames) /\ left \subseteq Objects /\ left # {} /\ part \in {1, 2}
    /\ cache \in Frames
    /\ lost \in Nat /\ drops \in [inbound : Nat, outbound : Nat]

EmissionTrue ==
    /\ toPost = <<>> => left = Objects /\ part = 1
    /\ toPost # <<>> => toPost[Len(toPost)] = sent

\* Where nothing is due any more, the commands on their way and the table
\* amount to the frame sent last.
PosTrue(o) ==
    ~MoveDue(o) =>
        Settled(fifo \o outbound, MovesOf(o), {ObjMove(o, sent[o].pos)},
                cache[o].pos = sent[o].pos)

ActiveTrue(o) ==
    ~ActiveDue(o) =>
        Settled(fifo \o outbound, CommandsOf(o), {ObjActive(o, sent[o].active)},
                cache[o].active = sent[o].active)

TableTrue ==
    lost = 0 /\ drops.outbound = 0 =>
        \A o \in Objects \ touched : PosTrue(o) /\ ActiveTrue(o)

PlaneInv == CueInv /\ PlaneTyped /\ EmissionTrue /\ TableTrue

LEMMA InitPlane == PlaneInit => PlaneInv
<1> SUFFICES ASSUME PlaneInit PROVE PlaneInv
  OBVIOUS
<1>1. CueInv
  BY InitCueInv DEF PlaneInit
<1>2. PlaneTyped
  BY PlaneAssumption DEF PlaneInit, PlaneTyped, Frames
<1>3. EmissionTrue
  BY DEF PlaneInit, EmissionTrue
<1>4. ASSUME NEW o \in Objects PROVE PosTrue(o) /\ ActiveTrue(o)
  <2>1. cache[o].pos = sent[o].pos /\ cache[o].active = sent[o].active
    BY DEF PlaneInit, Init, Neutral
  <2>2. DOMAIN (fifo \o outbound) = {}
    BY DEF PlaneInit
  <2> QED BY <2>1, <2>2 DEF PosTrue, ActiveTrue, Settled
<1> QED BY <1>1, <1>2, <1>3, <1>4 DEF PlaneInv, TableTrue

\* The commands of one object.
LEMMA EmitObjectIs ==
    ASSUME NEW o \in Objects, NEW f \in Frames
    PROVE  LET cmds == EmitObject(o, f[o]) IN
           /\ Len(cmds) = 2
           /\ cmds[1] = ObjMove(o, f[o].pos) /\ cmds[2] = ObjActive(o, f[o].active)
           /\ cmds[1] \in ObjectCommands /\ cmds[2] \in ObjectCommands
           /\ \A p \in Objects \ {o} : \A k \in {1, 2} :
                 cmds[k] \notin MovesOf(p) /\ cmds[k] \notin CommandsOf(p)
           /\ cmds[2] \notin MovesOf(o)
<1>1. f[o].pos \in Int /\ f[o].active \in BOOLEAN
  BY DEF Frames
<1>2. /\ ObjMove(o, f[o].pos) \in [tag : {"move"}, obj : Objects, pos : Int]
      /\ ObjActive(o, f[o].active) \in [tag : {"active"}, obj : Objects, active : BOOLEAN]
      /\ ObjMove(o, f[o].pos).obj = o
      /\ ObjActive(o, f[o].active).obj = o /\ ObjActive(o, f[o].active).tag = "active"
  BY <1>1 DEF ObjMove, ObjActive
<1>3. /\ Len(EmitObject(o, f[o])) = 2
      /\ EmitObject(o, f[o])[1] = ObjMove(o, f[o].pos)
      /\ EmitObject(o, f[o])[2] = ObjActive(o, f[o].active)
  BY DEF EmitObject
<1> QED BY <1>2, <1>3 DEF ObjectCommands, MovesOf, CommandsOf

\* The engine's steps in the plane are those of its own specification.
LEMMA PlaneStepIsEngineStep ==
    ASSUME PlaneTyped, [PlaneNext]_planeVars
    PROVE  [Next]_vars
<1>1. CASE OscThread
  BY <1>1 DEF OscThread, Receive, ReceiveNothing, Forward, ForwardDone
<1>2. CASE WakeLoop
  BY <1>2 DEF WakeLoop, Next
<1>3. CASE ApplyInbound
  <2> DEFINE c == Head(inbound)
  <2>1. c \in Packets /\ c.tag \in Transport
    BY <1>3 DEF ApplyInbound, PlaneTyped
  <2>2. c.tag = "go" => c.index \in Indices
    BY <2>1, PlaneAssumption
  <2>3. CASE c.tag = "go"
    <3>1. CueGoTo(c.index)
      BY <1>3, <2>3 DEF ApplyInbound
    <3> QED BY <2>2, <2>3, <3>1 DEF CueGo, Next
  <2>4. CASE c.tag = "next"
    BY <1>3, <2>4 DEF ApplyInbound, Next
  <2>5. CASE c.tag = "prev"
    BY <1>3, <2>5 DEF ApplyInbound, Next
  <2>6. CASE c.tag = "stop"
    BY <1>3, <2>6 DEF ApplyInbound, Next
  <2> QED BY <2>1, <2>3, <2>4, <2>5, <2>6 DEF Transport
<1>4. CASE TickEngine
  BY <1>4 DEF TickEngine, Next
<1>5. CASE Post \/ Drain
  BY <1>5 DEF Post, Drain
<1>6. CASE UNCHANGED planeVars
  BY <1>6 DEF planeVars
<1> QED BY <1>1, <1>2, <1>3, <1>4, <1>5, <1>6 DEF PlaneNext, ControlLoop

\* A call that emits nothing leaves what was sent last.
LEMMA CallEmits ==
    ASSUME CueInv', NEW i, CueGoTo(i) \/ CueNext \/ CuePrev \/ CueStop \/ Tick
    PROVE  /\ burst' \in Seq(Frames)
           /\ burst' = <<>> => sent' = sent
           /\ burst' # <<>> => sent' = burst'[Len(burst')]
<1>1. \E e : Run(e)
  BY DEF CueGoTo, CueNext, CuePrev, CueStop, Tick, Command
<1>2. burst' = <<>> => sent' = sent
  BY <1>1 DEF Run
<1> QED BY <1>2 DEF CueInv, HeardTrue

\* Steps that leave the queues, the table and what is due.
LEMMA TableUnchanged ==
    ASSUME TableTrue, UNCHANGED <<fifo, outbound, cache, sent, emitVars, lost, touched>>,
           drops'.outbound = drops.outbound
    PROVE  TableTrue'
BY DEF TableTrue, PosTrue, ActiveTrue, MoveDue, ActiveDue, emitVars, MovesOf, CommandsOf, Settled

LEMMA EngineCallKeepsTable ==
    ASSUME PlaneInv, CueInv', toPost = <<>>, Emitting,
           NEW i, CueGoTo(i) \/ CueNext \/ CuePrev \/ CueStop \/ Tick,
           UNCHANGED <<outbound, fifo, cache, drops, lost>>
    PROVE  /\ toPost' \in Seq(Frames) /\ left' = left /\ part' = part
           /\ EmissionTrue' /\ TableTrue'
<1>1. /\ toPost' \in Seq(Frames) /\ left' = left /\ part' = part
      /\ left = Objects /\ part = 1
      /\ toPost' = <<>> => sent' = sent /\ touched' = touched
      /\ toPost' # <<>> => sent' = toPost'[Len(toPost')]
  BY CallEmits DEF Emitting, PlaneInv, EmissionTrue
<1>2. EmissionTrue'
  BY <1>1 DEF EmissionTrue
<1>3. CASE toPost' = <<>>
  BY <1>1, <1>2, <1>3, TableUnchanged DEF PlaneInv, emitVars
<1>4. CASE toPost' # <<>>
  <2>1. \A o \in Objects : MoveDue(o)' /\ ActiveDue(o)'
    BY <1>1, <1>4 DEF MoveDue, ActiveDue
  <2> QED BY <1>1, <1>2, <2>1 DEF TableTrue, PosTrue, ActiveTrue
<1> QED BY <1>1, <1>2, <1>3, <1>4

\* A command of o that nothing overrides any more enters the queue.
LEMMA ReceiveKeepsTable ==
    ASSUME PlaneInv, Receive, sent' = sent
    PROVE  PlaneTyped' /\ EmissionTrue' /\ TableTrue'
<1>1. PICK c \in Packets :
        IF c.tag \in Transport
        THEN PostInbound(c) /\ UNCHANGED <<fifo, lost, touched>>
        ELSE Sink(c) /\ touched' = touched \cup {c.obj} /\ UNCHANGED <<inbound, drops>>
  BY DEF Receive
<1>2. UNCHANGED <<emitVars, outbound, cache>>
  BY DEF Receive
<1>3. EmissionTrue'
  BY <1>2 DEF PlaneInv, EmissionTrue, emitVars
<1>4. CASE c.tag \in Transport
  <2>1. /\ UNCHANGED <<fifo, lost, touched>>
        /\ drops'.outbound = drops.outbound /\ drops' \in [inbound : Nat, outbound : Nat]
    BY <1>1, <1>4 DEF PostInbound, PlaneInv, PlaneTyped
  <2>2. inbound' \in Seq({p \in Packets : p.tag \in Transport})
    <3> DEFINE P == {p \in Packets : p.tag \in Transport}
    <3>1. c \in P /\ inbound \in Seq(P)
      BY <1>4 DEF PlaneInv, PlaneTyped
    <3>2. inbound' = inbound \/ inbound' = Append(inbound, c)
      BY <1>1, <1>4 DEF PostInbound
    <3> HIDE DEF P
    <3>3. inbound' \in Seq(P)
      BY <3>1, <3>2
    <3> QED BY <3>3 DEF P
  <2>3. PlaneTyped'
    BY <1>2, <2>1, <2>2 DEF PlaneInv, PlaneTyped, emitVars
  <2> QED BY <1>2, <1>3, <2>1, <2>3, TableUnchanged DEF PlaneInv
<1>5. CASE c.tag \notin Transport
  <2>1. c \in ObjectCommands
    BY <1>5, PlaneAssumption
  <2>2. Sink(c) /\ touched' = touched \cup {c.obj} /\ UNCHANGED <<inbound, drops>>
    BY <1>1, <1>5
  <2>3. PlaneTyped'
    BY <1>2, <2>1, <2>2 DEF PlaneInv, PlaneTyped, emitVars, Sink
  <2>4. TableTrue'
    <3> SUFFICES ASSUME lost' = 0, drops'.outbound = 0, NEW o \in Objects \ touched'
                 PROVE  PosTrue(o)' /\ ActiveTrue(o)'
      BY DEF TableTrue
    <3>1. fifo' = Append(fifo, c) /\ lost = 0
      BY <2>2 DEF Sink, PlaneInv, PlaneTyped
    <3>2. o \in Objects \ touched /\ c.obj # o
      BY <2>2
    <3>3. PosTrue(o) /\ ActiveTrue(o)
      BY <2>2, <3>1, <3>2 DEF PlaneInv, TableTrue
    <3>4. c \notin MovesOf(o) /\ c \notin CommandsOf(o)
      BY <3>2 DEF MovesOf, CommandsOf
    <3>5. fifo \in Seq(ObjectCommands) /\ outbound \in Seq(ObjectCommands)
      BY DEF PlaneInv, PlaneTyped
    <3>6. \A R, G, right :
             c \notin R /\ Settled(fifo \o outbound, R, G, right)
               => Settled(Append(fifo, c) \o outbound, R, G, right)
      BY <2>1, <3>5, SettledInsert
    <3> QED BY <1>2, <3>1, <3>3, <3>4, <3>6
            DEF PosTrue, ActiveTrue, MoveDue, ActiveDue, emitVars, MovesOf, CommandsOf
  <2> QED BY <1>3, <2>3, <2>4
<1> QED BY <1>4, <1>5

\* The two queues together do not change when a command goes from one to the
\* other, unless it is lost.
LEMMA ForwardKeepsTable ==
    ASSUME PlaneInv, Forward
    PROVE  PlaneTyped' /\ EmissionTrue' /\ TableTrue'
<1> DEFINE c == Head(outbound)
<1>1. /\ outbound # <<>> /\ Sink(c) /\ outbound' = Tail(outbound)
      /\ UNCHANGED <<sent, inbound, emitVars, cache, drops, touched>>
  BY DEF Forward, vars
<1>2. c \in ObjectCommands
  BY <1>1 DEF PlaneInv, PlaneTyped
<1>3. PlaneTyped'
  BY <1>1, <1>2 DEF PlaneInv, PlaneTyped, emitVars, Sink
<1>4. EmissionTrue'
  BY <1>1 DEF PlaneInv, EmissionTrue, emitVars
<1>5. TableTrue'
  <2> SUFFICES ASSUME lost' = 0, drops'.outbound = 0, NEW o \in Objects \ touched'
               PROVE  PosTrue(o)' /\ ActiveTrue(o)'
    BY DEF TableTrue
  <2>1. fifo' = Append(fifo, c) /\ lost = 0
    BY <1>1 DEF Sink, PlaneInv, PlaneTyped
  <2>2. PosTrue(o) /\ ActiveTrue(o)
    BY <1>1, <2>1 DEF PlaneInv, TableTrue
  <2>3. Append(fifo, c) \o Tail(outbound) = fifo \o outbound
    BY <1>1 DEF PlaneInv, PlaneTyped
  <2> QED BY <1>1, <2>1, <2>2, <2>3
          DEF PosTrue, ActiveTrue, MoveDue, ActiveDue, emitVars, MovesOf, CommandsOf
<1> QED BY <1>3, <1>4, <1>5

\* The command at the end of both queues is what the emission has got to.
LEMMA PostKeepsTable ==
    ASSUME PlaneInv, Post
    PROVE  PlaneTyped' /\ EmissionTrue' /\ TableTrue'
<1> DEFINE o == Min(left)   f == Head(toPost)   cmds == EmitObject(o, f[o])
<1>1. /\ toPost # <<>> /\ Posted(o, cmds)
      /\ UNCHANGED <<sent, inbound, fifo, cache, lost, touched>>
      /\ IF Len(outbound) < MailboxCap
         THEN outbound' = Append(outbound, cmds[part]) /\ UNCHANGED drops
         ELSE drops' = [drops EXCEPT !.outbound = @ + 1] /\ UNCHANGED outbound
  BY DEF Post, vars
<1>2. o \in left /\ o \in Objects
  BY LeastObject, PlaneAssumption DEF PlaneInv, PlaneTyped
<1>3. f \in Frames /\ toPost \in Seq(Frames) /\ toPost[1] = f /\ Len(toPost) \in Nat \ {0}
  BY <1>1 DEF PlaneInv, PlaneTyped
<1>4. /\ Len(cmds) = 2
      /\ cmds[1] = ObjMove(o, f[o].pos) /\ cmds[2] = ObjActive(o, f[o].active)
      /\ cmds[1] \in ObjectCommands /\ cmds[2] \in ObjectCommands
      /\ \A p \in Objects \ {o} : \A k \in {1, 2} :
            cmds[k] \notin MovesOf(p) /\ cmds[k] \notin CommandsOf(p)
      /\ cmds[2] \notin MovesOf(o)
  BY <1>2, <1>3, EmitObjectIs
<1> HIDE DEF cmds, f, o
<1>5. part \in {1, 2} /\ cmds[part] \in ObjectCommands
  BY <1>4 DEF PlaneInv, PlaneTyped
<1>6. \/ part = 1 /\ part' = 2 /\ UNCHANGED <<toPost, left>>
      \/ part = 2 /\ part' = 1 /\ left = {o} /\ toPost' = Tail(toPost) /\ left' = Objects
      \/ part = 2 /\ part' = 1 /\ left # {o} /\ left' = left \ {o} /\ UNCHANGED toPost
  BY <1>1, <1>4, <1>5 DEF Posted
<1>7. left' \subseteq Objects /\ left' # {} /\ part' \in {1, 2} /\ toPost' \in Seq(Frames)
  <2>1. left \subseteq Objects /\ left # {} /\ Objects # {}
    BY PlaneAssumption DEF PlaneInv, PlaneTyped
  <2>2. left' \subseteq Objects /\ left' # {} /\ part' \in {1, 2}
    BY <1>2, <1>6, <2>1
  <2>3. Tail(toPost) \in Seq(Frames)
    BY <1>1, <1>3
  <2> QED BY <1>3, <1>6, <2>2, <2>3
<1>8. PlaneTyped'
  <2>1. outbound' \in Seq(ObjectCommands) /\ drops' \in [inbound : Nat, outbound : Nat]
    <3>1. outbound \in Seq(ObjectCommands) /\ drops \in [inbound : Nat, outbound : Nat]
      BY DEF PlaneInv, PlaneTyped
    <3>2. CASE Len(outbound) < MailboxCap
      <4>1. outbound' = Append(outbound, cmds[part]) /\ drops' = drops
        BY <1>1, <3>2
      <4> QED BY <1>5, <3>1, <4>1
    <3>3. CASE ~(Len(outbound) < MailboxCap)
      <4>1. outbound' = outbound /\ drops' = [drops EXCEPT !.outbound = @ + 1]
        BY <1>1, <3>3
      <4> QED BY <3>1, <4>1
    <3> QED BY <3>2, <3>3
  <2> QED BY <1>1, <1>7, <2>1 DEF PlaneInv, PlaneTyped
<1>9. EmissionTrue'
  <2>1. toPost[Len(toPost)] = sent
    BY <1>1 DEF PlaneInv, EmissionTrue
  <2>2. CASE toPost' = toPost
    BY <1>1, <2>1, <2>2 DEF EmissionTrue
  <2>3. CASE toPost' = Tail(toPost) /\ left' = Objects /\ part' = 1
    <3>1. toPost' # <<>> => toPost'[Len(toPost')] = toPost[Len(toPost)]
      BY <1>3, <2>3
    <3> QED BY <1>1, <2>1, <2>3, <3>1 DEF EmissionTrue
  <2> QED BY <1>6, <2>2, <2>3
<1>10. TableTrue'
  <2> SUFFICES ASSUME lost' = 0, drops'.outbound = 0, NEW p \in Objects \ touched'
               PROVE  PosTrue(p)' /\ ActiveTrue(p)'
    BY DEF TableTrue
  <2>1. outbound' = Append(outbound, cmds[part]) /\ drops' = drops /\ lost = 0
    BY <1>1 DEF PlaneInv, PlaneTyped
  <2>2. PosTrue(p) /\ ActiveTrue(p)
    BY <1>1, <2>1 DEF PlaneInv, TableTrue
  <2> DEFINE T == fifo \o outbound
  <2>3. T \in Seq(ObjectCommands) /\ (fifo \o outbound)' = Append(T, cmds[part])
    BY <1>1, <1>5, <2>1 DEF PlaneInv, PlaneTyped
  <2> HIDE DEF T
  <2>4. \A R, G, right :
           /\ cmds[part] \in G => Settled(Append(T, cmds[part]), R, G, right)
           /\ cmds[part] \notin R /\ Settled(T, R, G, right)
                => Settled(Append(T, cmds[part]), R, G, right)
    BY <1>5, <2>3, SettledAppend
  <2>5. Len(toPost) = 1 => f = sent
    BY <1>1, <1>3 DEF PlaneInv, EmissionTrue
  <2>6. Len(toPost) > 1 /\ toPost' = Tail(toPost) => toPost' # <<>> /\ Len(toPost') >= 1
    BY <1>3
  <2>7. Len(toPost) = 1 /\ toPost' = Tail(toPost) => toPost' = <<>>
    BY <1>3
  <2>8. ASSUME ~MoveDue(p)'
        PROVE  Settled(Append(T, cmds[part]), MovesOf(p), {ObjMove(p, sent[p].pos)},
                       cache[p].pos = sent[p].pos)
    <3>1. Len(toPost) = 1
      <4> SUFFICES ASSUME Len(toPost) # 1 PROVE FALSE
        OBVIOUS
      <4>0. Len(toPost) > 1
        <5>1. PICK k \in Nat \ {0} : k = Len(toPost)
          BY <1>3
        <5> QED BY <5>1
      <4>1. CASE toPost' = toPost
        BY <1>1, <2>8, <4>0, <4>1 DEF MoveDue
      <4>2. CASE toPost' = Tail(toPost) /\ left' = Objects /\ part' = 1
        BY <2>6, <2>8, <4>0, <4>2 DEF MoveDue
      <4> QED BY <1>6, <4>1, <4>2
    <3>2. CASE p = o /\ part = 1
      BY <1>4, <2>4, <2>5, <3>1, <3>2
    <3>3. CASE ~(p = o /\ part = 1)
      <4>1. cmds[part] \notin MovesOf(p)
        BY <1>4, <1>5, <3>3
      <4>2. ~MoveDue(p)
        <5>1. CASE p = o
          BY <3>1, <3>3, <1>5, <5>1 DEF MoveDue, o
        <5>2. CASE p # o
          <6>1. CASE toPost' = toPost
            BY <1>6, <1>1, <2>8, <3>1, <5>2, <6>1 DEF MoveDue, o
          <6>2. CASE left = {o}
            BY <3>1, <5>2, <6>2 DEF MoveDue
          <6> QED BY <1>6, <6>1, <6>2
        <5> QED BY <5>1, <5>2
      <4>3. Settled(T, MovesOf(p), {ObjMove(p, sent[p].pos)}, cache[p].pos = sent[p].pos)
        BY <2>2, <4>2 DEF PosTrue, T
      <4> QED BY <2>4, <4>1, <4>3
    <3> QED BY <3>2, <3>3
  <2>9. ASSUME ~ActiveDue(p)'
        PROVE  Settled(Append(T, cmds[part]), CommandsOf(p), {ObjActive(p, sent[p].active)},
                       cache[p].active = sent[p].active)
    <3>1. Len(toPost) = 1
      <4> SUFFICES ASSUME Len(toPost) # 1 PROVE FALSE
        OBVIOUS
      <4>0. Len(toPost) > 1
        <5>1. PICK k \in Nat \ {0} : k = Len(toPost)
          BY <1>3
        <5> QED BY <5>1
      <4>1. CASE toPost' = toPost
        BY <1>1, <2>9, <4>0, <4>1 DEF ActiveDue
      <4>2. CASE toPost' = Tail(toPost) /\ left' = Objects
        BY <2>6, <2>9, <4>0, <4>2 DEF ActiveDue
      <4> QED BY <1>6, <4>1, <4>2
    <3>2. CASE p = o
      <4>1. part = 2
        BY <1>1, <1>2, <1>6, <2>9, <3>2 DEF ActiveDue
      <4> QED BY <1>4, <2>4, <2>5, <3>1, <3>2, <4>1
    <3>3. CASE p # o
      <4>1. cmds[part] \notin CommandsOf(p)
        BY <1>4, <1>5, <3>3
      <4>2. ~ActiveDue(p)
        <5>1. CASE toPost' = toPost
          BY <1>1, <1>6, <2>9, <3>1, <3>3, <5>1 DEF ActiveDue
        <5>2. CASE left = {o}
          BY <3>1, <3>3, <5>2 DEF ActiveDue
        <5> QED BY <1>6, <5>1, <5>2
      <4>3. Settled(T, CommandsOf(p), {ObjActive(p, sent[p].active)},
                    cache[p].active = sent[p].active)
        BY <2>2, <4>2 DEF ActiveTrue, T
      <4> QED BY <2>4, <4>1, <4>3
    <3> QED BY <3>2, <3>3
  <2> QED BY <1>1, <2>3, <2>8, <2>9 DEF PosTrue, ActiveTrue, MovesOf, CommandsOf
<1> QED BY <1>8, <1>9, <1>10

\* The table takes a command: a move sets active, which is why the command
\* that sets it has to come after.
LEMMA DrainKeepsTable ==
    ASSUME PlaneInv, Drain
    PROVE  PlaneTyped' /\ EmissionTrue' /\ TableTrue'
<1> DEFINE c == Head(fifo)
<1>1. /\ fifo # <<>> /\ cache' = Apply(cache, c) /\ fifo' = Tail(fifo)
      /\ UNCHANGED <<sent, inbound, emitVars, outbound, drops, lost, touched>>
  BY DEF Drain, vars
<1>2. c \in ObjectCommands /\ cache \in Frames
  BY <1>1 DEF PlaneInv, PlaneTyped
<1> HIDE DEF c
<1>3. /\ c.tag \in {"move", "active"} /\ c.obj \in Objects
      /\ c.tag = "move" => c.pos \in Int /\ c = ObjMove(c.obj, c.pos)
      /\ c.tag = "active" => c.active \in BOOLEAN /\ c = ObjActive(c.obj, c.active)
  BY <1>2 DEF ObjectCommands, ObjMove, ObjActive
<1>4. /\ cache' \in Frames
      /\ \A o \in Objects \ {c.obj} : cache'[o] = cache[o]
      /\ c.tag = "move" => cache'[c.obj].pos = c.pos
      /\ c.tag = "active" => cache'[c.obj].pos = cache[c.obj].pos
                             /\ cache'[c.obj].active = c.active
  BY <1>1, <1>2, <1>3 DEF Apply, Frames
<1>5. PlaneTyped'
  BY <1>1, <1>4 DEF PlaneInv, PlaneTyped, emitVars
<1>6. EmissionTrue'
  BY <1>1 DEF PlaneInv, EmissionTrue, emitVars
<1>7. TableTrue'
  <2> SUFFICES ASSUME lost' = 0, drops'.outbound = 0, NEW o \in Objects \ touched'
               PROVE  PosTrue(o)' /\ ActiveTrue(o)'
    BY DEF TableTrue
  <2>1. PosTrue(o) /\ ActiveTrue(o)
    BY <1>1 DEF PlaneInv, TableTrue
  <2> DEFINE T == fifo \o outbound
  <2>2. T \in Seq(ObjectCommands) /\ T # <<>> /\ Head(T) = c /\ (fifo \o outbound)' = Tail(T)
    BY <1>1 DEF PlaneInv, PlaneTyped, c
  <2> HIDE DEF T
  <2>3. \A R, G, right, after :
           /\ Settled(T, R, G, right)
           /\ c \in G => after
           /\ c \notin R /\ right => after
           => Settled(Tail(T), R, G, after)
    BY <2>2, SettledTail
  <2>4. /\ c = ObjMove(o, sent[o].pos) => cache'[o].pos = sent[o].pos
        /\ c \notin MovesOf(o) => cache'[o].pos = cache[o].pos
    <3>1. c = ObjMove(o, sent[o].pos) => c.tag = "move" /\ c.obj = o /\ c.pos = sent[o].pos
      BY DEF ObjMove
    <3> QED BY <1>2, <1>3, <1>4, <3>1 DEF MovesOf
  <2>5. /\ c = ObjActive(o, sent[o].active) => cache'[o].active = sent[o].active
        /\ c \notin CommandsOf(o) => cache'[o] = cache[o]
    <3>1. c = ObjActive(o, sent[o].active)
            => c.tag = "active" /\ c.obj = o /\ c.active = sent[o].active
      BY DEF ObjActive
    <3> QED BY <1>2, <1>3, <1>4, <3>1 DEF CommandsOf
  <2>6. MoveDue(o)' = MoveDue(o) /\ ActiveDue(o)' = ActiveDue(o)
    BY <1>1 DEF MoveDue, ActiveDue, emitVars
  <2>7. PosTrue(o)'
    <3>1. Settled(T, MovesOf(o), {ObjMove(o, sent[o].pos)}, cache[o].pos = sent[o].pos)
            => Settled(Tail(T), MovesOf(o), {ObjMove(o, sent[o].pos)}, cache'[o].pos = sent[o].pos)
      BY <2>3, <2>4
    <3> QED BY <1>1, <2>1, <2>2, <2>6, <3>1 DEF PosTrue, MovesOf, T
  <2>8. ActiveTrue(o)'
    <3>1. Settled(T, CommandsOf(o), {ObjActive(o, sent[o].active)},
                  cache[o].active = sent[o].active)
            => Settled(Tail(T), CommandsOf(o), {ObjActive(o, sent[o].active)},
                       cache'[o].active = sent[o].active)
      BY <2>3, <2>5
    <3> QED BY <1>1, <2>1, <2>2, <2>6, <3>1 DEF ActiveTrue, CommandsOf, T
  <2> QED BY <2>7, <2>8
<1> QED BY <1>5, <1>6, <1>7

LEMMA PlaneStep == PlaneInv /\ [PlaneNext]_planeVars => PlaneInv'
<1> SUFFICES ASSUME PlaneInv, [PlaneNext]_planeVars PROVE PlaneInv'
  OBVIOUS
<1>1. CueInv'
  BY PlaneStepIsEngineStep, NextKeepsCueInv DEF PlaneInv
<1>2. ASSUME UNCHANGED <<sent, queueVars, cache, drops, lost, touched>>
      PROVE  PlaneTyped' /\ EmissionTrue' /\ TableTrue'
  BY <1>2, TableUnchanged DEF queueVars, emitVars, PlaneInv, PlaneTyped, EmissionTrue
<1>3. CASE UNCHANGED planeVars \/ ReceiveNothing \/ ForwardDone \/ WakeLoop
  <2>1. UNCHANGED <<sent, queueVars, cache, drops, lost, touched>>
    BY <1>3 DEF planeVars, vars, ReceiveNothing, ForwardDone, WakeLoop, Wake
  <2> QED BY <1>1, <1>2, <2>1 DEF PlaneInv
<1>4. CASE Receive
  BY <1>1, <1>4, ReceiveKeepsTable DEF Receive, vars, PlaneInv
<1>5. CASE Forward
  BY <1>1, <1>5, ForwardKeepsTable DEF PlaneInv
<1>6. CASE Post
  BY <1>1, <1>6, PostKeepsTable DEF PlaneInv
<1>7. CASE Drain
  BY <1>1, <1>7, DrainKeepsTable DEF PlaneInv
<1>8. CASE ApplyInbound
  <2> DEFINE c == Head(inbound)
  <2>1. c \in Packets /\ c.tag \in Transport
    BY <1>8 DEF ApplyInbound, PlaneInv, PlaneTyped
  <2>2. CueGoTo(c.index) \/ CueNext \/ CuePrev \/ CueStop
    BY <1>8, <2>1 DEF ApplyInbound, Transport
  <2>3. /\ toPost' \in Seq(Frames) /\ left' = left /\ part' = part
        /\ EmissionTrue' /\ TableTrue'
    BY <1>1, <1>8, <2>2, EngineCallKeepsTable DEF ApplyInbound
  <2>4. PlaneTyped'
    BY <1>8, <2>3 DEF ApplyInbound, PlaneInv, PlaneTyped
  <2> QED BY <1>1, <2>3, <2>4 DEF PlaneInv
<1>9. CASE TickEngine
  <2>1. /\ toPost' \in Seq(Frames) /\ left' = left /\ part' = part
        /\ EmissionTrue' /\ TableTrue'
    BY <1>1, <1>9, EngineCallKeepsTable DEF TickEngine
  <2>2. PlaneTyped'
    BY <1>9, <2>1 DEF TickEngine, PlaneInv, PlaneTyped
  <2> QED BY <1>1, <2>1, <2>2 DEF PlaneInv
<1> QED BY <1>3, <1>4, <1>5, <1>6, <1>7, <1>8, <1>9 DEF PlaneNext, OscThread, ControlLoop

\* The queues and threads of the daemon drive the engine as its own
\* specification says, so what is proved of the engine holds in the plane.
THEOREM PlaneDrivesEngine == PlaneSpec => Spec
<1>1. PlaneInit => Init
  BY DEF PlaneInit
<1>2. PlaneInv /\ [PlaneNext]_planeVars => [Next]_vars
  BY PlaneStepIsEngineStep DEF PlaneInv
<1> QED BY <1>1, <1>2, InitPlane, PlaneStep, PTL DEF PlaneSpec, Spec

\* The engine never reads the audio thread's table, and yet, unless a queue
\* overflowed, the table ends as the frame the engine sent last, for every
\* object nobody else commanded since (CueEngine::emitObject, the mailboxes
\* of OSCBackend, the sink and the drain in audioBlock).
THEOREM TableAlwaysFollows == PlaneSpec => []TableFollowsEngine
<1>1. PlaneInv => TableFollowsEngine
  <2> SUFFICES ASSUME PlaneInv, ~InTransit, drops.outbound = 0, lost = 0,
                      NEW o \in Objects \ touched
               PROVE  cache[o] = sent[o]
    BY DEF TableFollowsEngine
  <2>1. ~MoveDue(o) /\ ~ActiveDue(o) /\ DOMAIN (fifo \o outbound) = {}
    BY DEF InTransit, MoveDue, ActiveDue
  <2>2. cache[o].pos = sent[o].pos /\ cache[o].active = sent[o].active
    BY <2>1 DEF PlaneInv, TableTrue, PosTrue, ActiveTrue, Settled
  <2>3. cache \in Frames /\ sent \in Frames
    BY DEF PlaneInv, PlaneTyped, CueInv, HeardTrue
  <2> QED BY <2>2, <2>3 DEF Frames
<1> QED BY <1>1, InitPlane, PlaneStep, PTL DEF PlaneSpec

===============================================================================
